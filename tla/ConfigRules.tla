----------------------------- MODULE ConfigRules -----------------------------
(***************************************************************************)
(* The rules a desired configuration is held to: ConfigValidator           *)
(* (core/validator.py) and the typed schema DeviceDesiredState             *)
(* (api/config_schemas.py), which restates some of them.                   *)
(*                                                                         *)
(* A configuration is a record of its sections bgp and ospf, each Absent,  *)
(* Null (present, but not an object) or a record:                          *)
(*   bgp   [asn, rid, nbrs, pols, nets]                                    *)
(*   ospf  [pid, rid, areas]                                               *)
(* nbrs, pols, nets and areas are sequences of                             *)
(*   neighbour [ip, asn, keep, hold, knobs]    policy [prefix, action]     *)
(*   area [id, type, nets, ifs, hello, dead, auth]    and prefixes         *)
(* A key that is not given has the value None.  Nothing types a            *)
(* configuration: a number arrives as one, <<"int", n>>, as its decimal    *)
(* text, <<"text", n>>, as a text that is none, <<"word", w>>, and an area *)
(* id also as <<"dotted", n>>.  An address is a text of which only the     *)
(* class matters; a prefix is <<notation, network>>, its notation          *)
(*   "cidr"  network and length, as devices write it                       *)
(*   "host"  with host bits     "mask"  with a netmask                     *)
(*   "bare"  without a length   "bad"   a text Python reads no prefix in.  *)
(***************************************************************************)
EXTENDS Integers, Sequences, SequencesExt

CONSTANTS
  None, Absent, Null,
  BadAddress,       \* texts that are no IPv4 address; the missing one is such
  LoopbackAddress,  \* 127.0.0.0/8
  ReservedAddress,  \* 240.0.0.0/4
  AnyAddress,       \* 0.0.0.0
  OddNetwork,       \* loopback and link-local networks
  TextBelow,        \* <<a, b, k>>: text a sorts before k times text b in a row
  MaxAsn,           \* 4294967295
  MaxArea,          \* 4294967295
  MaxShort          \* 65535

ASSUME RangeAssumption == {MaxAsn, MaxArea, MaxShort} \subseteq Nat

ASSUME NoneAssumption == None \notin {"on", "stub", "nssa"}

Given(section) == section \notin {Absent, Null}

(* config.get("bgp", {}).get("neighbors", []) and its like.                *)
Neighbors(c) == IF Given(c.bgp) THEN c.bgp.nbrs ELSE <<>>
Policies(c) == IF Given(c.bgp) THEN c.bgp.pols ELSE <<>>
Networks(c) == IF Given(c.bgp) THEN c.bgp.nets ELSE <<>>
Areas(c) == IF Given(c.ospf) THEN c.ospf.areas ELSE <<>>
AreaNetworks(c) == UNION {ToSet(a.nets) : a \in ToSet(Areas(c))}

-----------------------------------------------------------------------------
(* core/validator.py.  Errors and warnings are pairs of what is wrong and  *)
(* with what; the wording is left out.                                     *)

If(condition, finding) == IF condition THEN {finding} ELSE {}

(* IPv4Network(strict=False) takes every notation.                         *)
IsBad(p) == p[1] = "bad"

PrefixErrors(p) ==
  If(IsBad(p), <<"prefix", p>>)
    \cup If(~ IsBad(p) /\ p[2] \in OddNetwork, <<"odd_prefix", p>>)

(* A text is no int, whatever it reads.                                    *)
AsnErrors(x) == If(~ (x[1] = "int" /\ x[2] \in 1 .. MaxAsn), <<"asn", x>>)

NeighborIpErrors(ip) ==
  If(ip \in BadAddress \cup LoopbackAddress \cup ReservedAddress \cup {AnyAddress},
     <<"neighbor", ip>>)

RouterIdErrors(rid) ==
  If(rid \in BadAddress \cup LoopbackAddress \cup {AnyAddress}, <<"router_id", rid>>)

(* a < b * k, where b * k repeats a text; of a text and a number it raises *)
(* TypeError.                                                              *)
IsText(x) == x[1] # "int"

Below(a, b, k) ==
  IF IsText(a) THEN <<a, b, k>> \in TextBelow ELSE a[2] < k * b[2]

Zero == <<"int", 0>>

(* A hold time of 0, but not of '0', switches the timers off.              *)
TimersRaise(keep, hold) == hold # Zero /\ IsText(hold) # IsText(keep)

TimerErrors(keep, hold) ==
  If(hold # Zero /\ Below(hold, keep, 3), <<"timers", <<keep, hold>>>>)

AreaIdErrors(id) ==
  If(id[1] = "word" \/ id[2] \notin 0 .. MaxArea, <<"area", id>>)

HelloRaises(hello, dead) == IsText(dead) # IsText(hello)

HelloWarnings(hello, dead) == If(Below(dead, hello, 4), <<"dead_interval", dead>>)

(* A neighbour seen earlier in the list.                                   *)
Repeated(s, Key(_)) ==
  {Key(s[j]) : j \in {j \in DOMAIN s : \E i \in 1 .. j - 1 : Key(s[i]) = Key(s[j])}}

Wrong_BgpErrors_Repeats(bgp) ==
  UNION {
    IF bgp.asn # None THEN AsnErrors(bgp.asn) ELSE {},
    IF bgp.rid # None THEN RouterIdErrors(bgp.rid) ELSE {},
    UNION {NeighborIpErrors(n.ip) : n \in ToSet(bgp.nbrs)},
    UNION {AsnErrors(n.asn) : n \in {n \in ToSet(bgp.nbrs) : n.asn # None}}}

HasTimers(n) == n.keep # None /\ n.hold # None

(* _validate_bgp: the ASNs and timers that are given, every address, and   *)
(* repeated neighbours.                                                    *)
BgpErrors(bgp) ==
  UNION {
    IF bgp.asn # None THEN AsnErrors(bgp.asn) ELSE {},
    IF bgp.rid # None THEN RouterIdErrors(bgp.rid) ELSE {},
    UNION {NeighborIpErrors(n.ip) : n \in ToSet(bgp.nbrs)},
    UNION {AsnErrors(n.asn) : n \in {n \in ToSet(bgp.nbrs) : n.asn # None}},
    UNION {TimerErrors(n.keep, n.hold) :
             n \in {n \in ToSet(bgp.nbrs) : HasTimers(n)}},
    {<<"repeated_neighbor", ip>> : ip \in Repeated(bgp.nbrs, LAMBDA n : n.ip)}}

(* An iBGP session, where both ASNs are there and not 0.                   *)
BgpWarnings(bgp) ==
  {<<"ibgp", n.ip>> : n \in {n \in ToSet(bgp.nbrs) :
                               n.asn = bgp.asn /\ n.asn \notin {None, Zero}}}

(* Repeated areas are found by what was written: 0, '0' and '0.0.0.0' are  *)
(* three.                                                                  *)
OspfErrors(ospf) ==
  {<<"repeated_area", id>> : id \in Repeated(ospf.areas, LAMBDA a : a.id) \ {None}}
    \cup UNION {AreaIdErrors(a.id) : a \in {a \in ToSet(ospf.areas) : a.id # None}}

HasIntervals(a) == {a.hello, a.dead} \cap {None, Zero} = {}

OspfWarnings(ospf) ==
  UNION {HelloWarnings(a.hello, a.dead) : a \in {a \in ToSet(ospf.areas) : HasIntervals(a)}}

(* seen[prefix] is the action of the last policy before j for the prefix,  *)
(* of those that have both.                                                *)
Whole(s) == {i \in DOMAIN s : s[i].prefix # None /\ s[i].action # None}

IsLastBefore(s, i, j) ==
  /\ i < j /\ s[i].prefix = s[j].prefix
  /\ \A k \in Whole(s) : i < k /\ k < j => s[k].prefix # s[j].prefix

PolicyErrors(c) ==
  LET s == Policies(c)
  IN  {<<"policy", s[j].prefix>> :
         j \in {j \in Whole(s) : \E i \in Whole(s) :
                  IsLastBefore(s, i, j) /\ s[i].action # s[j].action}}

AllCidrErrors(c) ==
  UNION {PrefixErrors(p) :
           p \in ToSet(Networks(c)) \cup AreaNetworks(c)
                   \cup ({p.prefix : p \in ToSet(Policies(c))} \ {None})}

RouterId(section) == IF Given(section) THEN section.rid ELSE None

CrossWarnings(c) ==
  LET ids == {RouterId(c.bgp), RouterId(c.ospf)}
  IN  If(None \notin ids /\ RouterId(c.bgp) # RouterId(c.ospf), <<"router_ids", ids>>)

CompatWarnings(c, t) ==
  If(t = "arista_eos" /\ \E a \in ToSet(Areas(c)) : a.auth = "md5", <<"md5", t>>)

(* Timers of which one is a text and one is not make the rules raise       *)
(* TypeError, a section that is not an object AttributeError.              *)
KindsMix(c) ==
  \/ \E n \in ToSet(Neighbors(c)) : HasTimers(n) /\ TimersRaise(n.keep, n.hold)
  \/ \E a \in ToSet(Areas(c)) : HasIntervals(a) /\ HelloRaises(a.hello, a.dead)

RulesRaise(c) == Null \in {c.bgp, c.ospf} \/ KindsMix(c)

Errors(c) ==
  UNION {IF Given(c.bgp) THEN BgpErrors(c.bgp) ELSE {},
         IF Given(c.ospf) THEN OspfErrors(c.ospf) ELSE {},
         PolicyErrors(c), AllCidrErrors(c)}

Warnings(c, t) ==
  UNION {IF Given(c.bgp) THEN BgpWarnings(c.bgp) ELSE {},
         IF Given(c.ospf) THEN OspfWarnings(c.ospf) ELSE {},
         CrossWarnings(c), CompatWarnings(c, t)}

(* ConfigValidator.validate: warnings do not count.                        *)
Verdict(c) == IF RulesRaise(c) THEN "raises"
              ELSE IF Errors(c) = {} THEN "valid" ELSE "invalid"

-----------------------------------------------------------------------------
(* api/config_schemas.py, which no route uses.  A null section is none;    *)
(* pydantic reads a number in its text, and a text in a number.            *)

Reads(x, low, high) == x # None /\ x[1] # "word" /\ x[2] \in low .. high

Wrong_SchemaTakesNeighbor_Timers(n) ==
  /\ n.ip \notin BadAddress /\ Reads(n.asn, 1, MaxAsn)
  /\ n.keep = None \/ Reads(n.keep, 1, MaxShort)
  /\ n.hold = None \/ Reads(n.hold, 3, MaxShort)

SchemaTakesNeighbor(n) ==
  /\ n.ip \notin BadAddress /\ Reads(n.asn, 1, MaxAsn)
  /\ n.keep = None \/ Reads(n.keep, 1, MaxShort)
  /\ n.hold = None \/ Reads(n.hold, 3, MaxShort)
  /\ HasTimers(n) => n.hold[2] >= 3 * n.keep[2]

SchemaTakesPolicy(p) ==
  p.prefix # None /\ ~ IsBad(p.prefix) /\ p.action \in {"permit", "deny"}

SchemaTakesBgp(bgp) ==
  /\ Reads(bgp.asn, 1, MaxAsn)
  /\ bgp.rid \notin BadAddress
  /\ \A n \in ToSet(bgp.nbrs) : SchemaTakesNeighbor(n)
  /\ \A p \in ToSet(bgp.pols) : SchemaTakesPolicy(p)
  /\ \A p \in ToSet(bgp.nets) : ~ IsBad(p)

(* Any text is an area id.                                                 *)
SchemaTakesArea(a) ==
  /\ a.id # None
  /\ a.type \in {"normal", "stub", "nssa"}
  /\ \A p \in ToSet(a.nets) : ~ IsBad(p)

SchemaTakesOspf(ospf) ==
  /\ Reads(ospf.pid, 1, MaxShort)
  /\ ospf.rid \notin BadAddress
  /\ \A a \in ToSet(ospf.areas) : SchemaTakesArea(a)

SchemaTakes(c) ==
  /\ Given(c.bgp) => SchemaTakesBgp(c.bgp)
  /\ Given(c.ospf) => SchemaTakesOspf(c.ospf)

(* What the schema has read of a configuration it takes: numbers are       *)
(* numbers, area ids texts, policies of networks in one notation.          *)
ReadNumber(x) == IF x = None THEN None ELSE <<"int", x[2]>>

ReadNeighbor(n) ==
  [ip |-> n.ip, asn |-> ReadNumber(n.asn), keep |-> ReadNumber(n.keep),
   hold |-> ReadNumber(n.hold), knobs |-> n.knobs]

ReadPolicy(p) == [prefix |-> <<"cidr", p.prefix[2]>>, action |-> p.action]

ReadEach(s, Op(_)) == [i \in DOMAIN s |-> Op(s[i])]

ReadBgp(bgp) ==
  [asn |-> ReadNumber(bgp.asn), rid |-> bgp.rid, nbrs |-> ReadEach(bgp.nbrs, ReadNeighbor),
   pols |-> ReadEach(bgp.pols, ReadPolicy), nets |-> bgp.nets]

ReadArea(a) ==
  [id |-> IF a.id[1] = "int" THEN <<"text", a.id[2]>> ELSE a.id, type |-> a.type,
   nets |-> a.nets, ifs |-> a.ifs, hello |-> None, dead |-> None, auth |-> a.auth]

ReadOspf(ospf) ==
  [pid |-> ReadNumber(ospf.pid), rid |-> ospf.rid, areas |-> ReadEach(ospf.areas, ReadArea)]

Read(c) ==
  [bgp  |-> IF Given(c.bgp) THEN ReadBgp(c.bgp) ELSE Absent,
   ospf |-> IF Given(c.ospf) THEN ReadOspf(c.ospf) ELSE Absent]
=============================================================================
