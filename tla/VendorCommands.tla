---------------------------- MODULE VendorCommands ----------------------------
(***************************************************************************)
(* CommandBuilder (core/command_builder.py): the commands a configuration  *)
(* becomes on each vendor.                                                 *)
(*                                                                         *)
(* A command is what it sets, <<key, value>>; a key starts with the        *)
(* section it belongs to.  Lines that only open or close a block, and      *)
(* lines every configuration has, are left out.                            *)
(***************************************************************************)
EXTENDS ConfigRules

CONSTANT MaxOctet   \* 255

ASSUME OctetAssumption == MaxOctet \in Nat

Vendors == {"cisco_xr", "cisco_ios", "junos", "arista_eos", "nokia_sros"}

-----------------------------------------------------------------------------
(* BGP.  The commands of a neighbour, and those of them for the knobs the  *)
(* vendor's function knows.                                                *)

(* A command names a number as it reads, given as number or as text.       *)
NoNumber == -1

Number(x) == IF x = None \/ x[1] = "word" THEN NoNumber ELSE x[2]

Process(section, number) == <<<<section, "process">>, number>>

RidCommands(section, rid) ==
  IF rid = None THEN <<>> ELSE <<<<<<section, "rid">>, rid>>>>

Wrong_PeerCommands_AllKnobs(group, n, known) ==
  <<<<<<"bgp", "peer", group, n.ip>>, Number(n.asn)>>>>
    \o SetToSeq({<<<<"bgp", "knob", group, n.ip, k>>, "on">> :
                   k \in IF n.knobs = {} THEN {} ELSE known})

PeerCommands(group, n, known) ==
  <<<<<<"bgp", "peer", group, n.ip>>, Number(n.asn)>>>>
    \o SetToSeq({<<<<"bgp", "knob", group, n.ip, k>>, "on">> : k \in n.knobs \cap known})

NetCommands(nets) == [i \in DOMAIN nets |-> <<<<"bgp", "net", nets[i]>>, "on">>]

(* IOS is sent network and mask, whatever the notation.                    *)
Normal(p) == <<"cidr", p[2]>>

Wrong_NormalNets_AsGiven(nets) == nets

NormalNets(nets) == [i \in DOMAIN nets |-> Normal(nets[i])]

Each(s, Op(_)) == FlattenSeq([i \in DOMAIN s |-> Op(s[i])])

XrBgp(bgp) ==
  <<Process("bgp", Number(bgp.asn))>> \o RidCommands("bgp", bgp.rid) \o NetCommands(bgp.nets)
    \o Each(bgp.nbrs, LAMBDA n : PeerCommands("", n,
         {"description", "shutdown", "next_hop_self", "soft_reconfiguration"}))

IosBgp(bgp) ==
  <<Process("bgp", Number(bgp.asn))>> \o RidCommands("bgp", bgp.rid)
    \o Each(bgp.nbrs, LAMBDA n : PeerCommands("", n,
         {"description", "password", "shutdown"}))
    \o NetCommands(NormalNets(bgp.nets))

(* Neighbours are put in a group by whether their ASN is the local one.    *)
JunosGroup(bgp, n) == IF n.asn = bgp.asn THEN "IBGP" ELSE "EBGP"

JunosBgp(bgp) ==
  <<Process("bgp", Number(bgp.asn))>> \o RidCommands("bgp", bgp.rid)
    \o Each(bgp.nbrs, LAMBDA n :
         <<<<<<"bgp", "group", JunosGroup(bgp, n)>>, "on">>>>
           \o PeerCommands(JunosGroup(bgp, n), n, {"description"}))
    \o NetCommands(bgp.nets)

EosBgp(bgp) ==
  <<Process("bgp", Number(bgp.asn))>> \o RidCommands("bgp", bgp.rid)
    \o Each(bgp.nbrs, LAMBDA n : PeerCommands("", n, {"description"}))
    \o NetCommands(bgp.nets)

(* Nokia's functions give one comment line.                                *)
BgpCommands(bgp, t) ==
  CASE t = "cisco_xr"   -> XrBgp(bgp)
    [] t = "cisco_ios"  -> IosBgp(bgp)
    [] t = "junos"      -> JunosBgp(bgp)
    [] t = "arista_eos" -> EosBgp(bgp)
    [] t = "nokia_sros" -> <<>>

-----------------------------------------------------------------------------
(* OSPF.  The device knows an area by its number, whatever its notation.   *)

AreaNumber(a) == IF a.id = None THEN 0 ELSE Number(a.id)

(* JunOS gets every id without a dot as 0.0.0.id.                          *)
JunosAreaNumber(a) ==
  IF a.id # None /\ a.id[1] # "dotted" /\ AreaNumber(a) > MaxOctet THEN NoNumber
  ELSE AreaNumber(a)

(* A process id that is not given is 1.                                    *)
OspfProcess(ospf) == Process("ospf", IF ospf.pid = None THEN 1 ELSE Number(ospf.pid))

AreaCommands(number, what, items) ==
  SetToSeq({<<<<"ospf", "area", number, what, x>>, "on">> : x \in items})

TypeCommands(number, a) ==
  IF a.type \in {"stub", "nssa"} THEN <<<<<<"ospf", "type", number>>, a.type>>>> ELSE <<>>

XrOspf(ospf) ==
  <<OspfProcess(ospf)>> \o RidCommands("ospf", ospf.rid)
    \o Each(ospf.areas, LAMBDA a : AreaCommands(AreaNumber(a), "net", ToSet(a.nets))
                                     \o AreaCommands(AreaNumber(a), "interface", a.ifs))

IosOspf(ospf) ==
  <<OspfProcess(ospf)>> \o RidCommands("ospf", ospf.rid)
    \o Each(ospf.areas, LAMBDA a :
         TypeCommands(AreaNumber(a), a)
           \o AreaCommands(AreaNumber(a), "net", ToSet(NormalNets(a.nets))))

Wrong_JunosOspf_NoType(ospf) ==
  Each(ospf.areas, LAMBDA a :
    AreaCommands(AreaNumber(a), "interface", a.ifs))

(* Neither process, router id nor networks.                                *)
JunosOspf(ospf) ==
  Each(ospf.areas, LAMBDA a :
    TypeCommands(JunosAreaNumber(a), a)
      \o AreaCommands(JunosAreaNumber(a), "interface", a.ifs))

EosOspf(ospf) ==
  <<OspfProcess(ospf)>> \o RidCommands("ospf", ospf.rid)
    \o Each(ospf.areas, LAMBDA a : AreaCommands(AreaNumber(a), "net", ToSet(a.nets)))

OspfCommands(ospf, t) ==
  CASE t = "cisco_xr"   -> XrOspf(ospf)
    [] t = "cisco_ios"  -> IosOspf(ospf)
    [] t = "junos"      -> JunosOspf(ospf)
    [] t = "arista_eos" -> EosOspf(ospf)
    [] t = "nokia_sros" -> <<>>

-----------------------------------------------------------------------------
(* A section that is there but null has no get; only IOS reads a prefix.   *)
BuildRaises(c, t) ==
  \/ t \in Vendors \ {"nokia_sros"} /\ Null \in {c.bgp, c.ospf}
  \/ t = "cisco_ios" /\ \E p \in ToSet(Networks(c)) \cup AreaNetworks(c) : IsBad(p)

Build(c, t) ==
  (IF Given(c.bgp) THEN BgpCommands(c.bgp, t) ELSE <<>>)
    \o (IF Given(c.ospf) THEN OspfCommands(c.ospf, t) ELSE <<>>)

(* What the commands at some positions set on a device, a later command    *)
(* for a key replacing an earlier one; and what all of them set.           *)
SetAt(cmds, positions) ==
  {cmds[i] : i \in {i \in positions :
                      \A j \in positions : i < j => cmds[j][1] # cmds[i][1]}}

Settings(cmds) == SetAt(cmds, DOMAIN cmds)

KeysOf(settings) == {s[1] : s \in settings}
=============================================================================
