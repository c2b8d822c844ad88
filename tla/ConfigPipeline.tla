---------------------------- MODULE ConfigPipeline ----------------------------
(***************************************************************************)
(* What becomes of a configuration on one device: it is asked about        *)
(* (api/routes/configs.py), stored, and by a deployment turned into        *)
(* commands, pushed and verified (core/orchestrator.py,                    *)
(* core/state_verifier.py).  The device keeps settings, and its sessions   *)
(* come and go as its settings allow.                                      *)
(*                                                                         *)
(* Connecting, snapshots, statuses and crashes are in BatchDeploy and      *)
(* Snapshots.  A deployment that fails leaves the device as it is:         *)
(* _rollback_device is a placeholder that only writes an audit entry.      *)
(***************************************************************************)
EXTENDS VendorCommands

CONSTANTS
  Types,           \* the device types a device may have
  Drafts,          \* configurations the validation routes are asked about
  Requests,        \* bodies of POST /api/configs/, [form, config]
  Inside,          \* <<a, b>>: the text of address a occurs in the text of b
  DeviceNotations, \* notations of a prefix the devices read
  NeedsCommit,     \* types whose lines take effect on a commit, which the code
                   \* never sends
  MaxDeploys       \* bound on deployments

ASSUME PipelineAssumption ==
  /\ Types \subseteq Vendors /\ NeedsCommit \subseteq Vendors
  /\ "cidr" \in DeviceNotations /\ MaxDeploys \in Nat

(* What arrives as JSON and is iterated is a list.                         *)
IsList(s) == s \in Seq(ToSet(s))

IsConfig(c) ==
  /\ Given(c.bgp) => IsList(c.bgp.nbrs) /\ IsList(c.bgp.pols) /\ IsList(c.bgp.nets)
  /\ Given(c.ospf) =>
       /\ IsList(c.ospf.areas)
       /\ \A a \in ToSet(c.ospf.areas) : IsList(a.nets) /\ IsFiniteSet(a.ifs)

ASSUME ConfigAssumption ==
  \A c \in Drafts \cup {r.config : r \in Requests} : IsConfig(c)

VARIABLES
  type,      \* devices.device_type
  asked,     \* the last question and its answers, or None
  stored,    \* the newest row of configurations, or None
  deployed,  \* the configuration the last deployment read
  phase,     \* where the last deployment is
  run,       \* the device's settings
  up,        \* addresses of the peers whose session is Established
  full,      \* whether some OSPF adjacency is FULL
  deploys    \* how many deployments were started

vars == <<type, asked, stored, deployed, phase, run, up, full, deploys>>

deviceVars == <<run, up, full>>

Ended == {"none", "SUCCESS", "FAILED", "ROLLBACK"}

-----------------------------------------------------------------------------
(* The validation entry points.                                            *)

(* POST /api/configs/validate, for a device that exists.                   *)
Answer(c, t) ==
  IF RulesRaise(c) THEN <<"raises">> ELSE <<Verdict(c), Errors(c), Warnings(c, t)>>

(* POST /api/configs/validate-batch: an item that raises takes the answers *)
(* of all the others along.  An item is a configuration, or None for an    *)
(* unknown device.                                                         *)
ItemAnswer(c, t) == IF c = None THEN <<"invalid", {<<"device", None>>}, {}>> ELSE Answer(c, t)

BatchAnswers(items, t) ==
  LET answers == [i \in DOMAIN items |-> ItemAnswer(items[i], t)]
  IN  IF <<"raises">> \in ToSet(answers) THEN <<>> ELSE answers

(* ConfigRequest: without a desired state, the sections given beside it,   *)
(* of which a null one is dropped.                                         *)
Coerced(request) ==
  IF request.form = "state" THEN request.config
  ELSE [bgp  |-> IF request.config.bgp = Null THEN Absent ELSE request.config.bgp,
        ospf |-> IF request.config.ospf = Null THEN Absent ELSE request.config.ospf]

-----------------------------------------------------------------------------
(* The device, external: modelled from what core/ssh_handler.py and the    *)
(* verifier read from it.                                                  *)

Merge(settings, new) ==
  {s \in settings : s[1] \notin KeysOf(new)} \cup new

(* A command whose operand the device cannot read or does not take.        *)
Malformed(s) ==
  \/ s[1][2] = "rid" /\ s[2] \in BadAddress
  \/ s[1][2] = "peer" /\ (s[1][4] \in BadAddress \/ s[2] \notin 1 .. MaxAsn)
  \/ s[1] = <<"bgp", "process">> /\ s[2] \notin 1 .. MaxAsn
  \/ s[1] = <<"ospf", "process">> /\ s[2] \notin 1 .. MaxShort
  \/ s[1][2] = "net" /\ s[1][3][1] \notin DeviceNotations
  \/ s[1][2] = "area" /\ s[1][3] \notin 0 .. MaxArea
  \/ s[1][2] = "area" /\ s[1][4] = "net" /\ s[1][5][1] \notin DeviceNotations
  \/ s[1][2] = "type" /\ s[1][3] \notin 0 .. MaxArea

(* On the vendors with stanzas, the lines of a stanza that was refused are *)
(* refused as well; JunOS takes every line by itself.                      *)
Refused(cmds, t) ==
  LET bad == {s \in ToSet(cmds) : Malformed(s)}
  IN  IF t = "junos" THEN bad
      ELSE {s \in ToSet(cmds) : s \in bad \/ <<s[1][1], "process">> \in KeysOf(bad)}

(* The positions of the commands the device takes of the first n.          *)
Taken(cmds, t, n) == {i \in 1 .. n : cmds[i] \notin Refused(cmds, t)}

Peers(settings) ==
  {s[1][4] : s \in {s \in settings : s[1][1] = "bgp" /\ s[1][2] = "peer"}}

Shut(settings) ==
  {s[1][4] : s \in {s \in settings : s[1][2] = "knob" /\ s[1][5] = "shutdown"}}

CanBeUp(settings) == Peers(settings) \ Shut(settings)

HasArea(settings) == \E s \in settings : s[1][1] = "ospf" /\ s[1][2] \in {"area", "type"}

(* What a session is made with: local and remote AS number, router id,     *)
(* shutdown and password.  It is reset when any of them changes, and a     *)
(* password that is set again may be another one.                          *)
Session(settings, p) ==
  {s \in settings :
     /\ s[1][1] = "bgp"
     /\ \/ s[1][2] \in {"process", "rid"}
        \/ s[1][2] = "peer" /\ s[1][4] = p
        \/ s[1][2] = "knob" /\ s[1][4] = p /\ s[1][5] \in {"shutdown", "password"}}

WithPassword(settings) ==
  {s[1][4] : s \in {s \in settings : s[1][2] = "knob" /\ s[1][5] = "password"}}

Adjacency(settings) ==
  {s \in settings : s[1][1] = "ospf" /\ s[1][2] \in {"process", "rid", "type"}}

(* The lines that were taken take effect, at once or on the commit.        *)
Apply(lines) ==
  LET new == IF type \in NeedsCommit THEN {} ELSE lines
  IN  /\ run' = Merge(run, new)
      /\ \E reset \in SUBSET WithPassword(new) :
           up' = {p \in (up \ reset) \cap CanBeUp(run') : Session(run', p) = Session(run, p)}
      /\ full' = (full /\ HasArea(run') /\ Adjacency(run') = Adjacency(run))

-----------------------------------------------------------------------------
Init ==
  /\ type \in Types
  /\ asked = None /\ stored = None /\ deployed = None
  /\ phase = "none"
  /\ run = {} /\ up = {} /\ full = FALSE /\ deploys = 0

(* The routes do not touch what is stored; they are asked before anything  *)
(* is, which bounds the states, not the answers.                           *)
Ask(items) ==
  /\ asked = None /\ stored = None
  /\ asked' = [items |-> items, answers |-> BatchAnswers(items, type)]
  /\ UNCHANGED <<type, stored, deployed, phase, deploys>>
  /\ UNCHANGED deviceVars

(* POST /api/configs/: nothing is validated.                               *)
Store(request) ==
  /\ asked = None
  /\ stored' = Coerced(request)
  /\ UNCHANGED <<type, asked, deployed, phase, deploys>>
  /\ UNCHANGED deviceVars

(* _deploy_to_device to step 3.  A configuration without sections counts   *)
(* as none.                                                                *)
Start ==
  /\ phase \in Ended /\ stored # None /\ deploys < MaxDeploys
  /\ deploys' = deploys + 1
  /\ deployed' = stored
  /\ phase' = IF stored = [bgp |-> Absent, ospf |-> Absent] THEN "FAILED" ELSE "backed up"
  /\ UNCHANGED <<type, asked, stored>>
  /\ UNCHANGED deviceVars

(* Steps 4 and 5.  send_config_set: lines the device refuses are found in  *)
(* its output or not; an SSH failure leaves the lines before it.           *)
Wrong_PushOutcomes_DropIsTrue(cmds, t) ==
  {[taken |-> Taken(cmds, t, Len(cmds)), ok |-> ok] :
     ok \in IF Refused(cmds, t) = {} THEN {TRUE} ELSE BOOLEAN}
    \cup {[taken |-> Taken(cmds, t, n), ok |-> TRUE] : n \in 0 .. Len(cmds)}

PushOutcomes(cmds, t) ==
  {[taken |-> Taken(cmds, t, Len(cmds)), ok |-> ok] :
     ok \in IF Refused(cmds, t) = {} THEN {TRUE} ELSE BOOLEAN}
    \cup {[taken |-> Taken(cmds, t, n), ok |-> FALSE] : n \in 0 .. Len(cmds)}

Push ==
  /\ phase = "backed up"
  /\ IF BuildRaises(deployed, type)
     THEN phase' = "ROLLBACK" /\ UNCHANGED deviceVars
     ELSE \E outcome \in PushOutcomes(Build(deployed, type), type) :
            /\ Apply(SetAt(Build(deployed, type), outcome.taken))
            /\ phase' = IF outcome.ok THEN "pushed" ELSE "ROLLBACK"
  /\ UNCHANGED <<type, asked, stored, deployed, deploys>>

Wrong_Established_Listed(ip, t) == \E p \in Peers(run) : <<ip, p>> \in Inside

(* _parse_bgp_neighbor_state over the lines of the summary, one a peer: a  *)
(* line that has the address and the word Established; on JunOS the word   *)
(* may belong to any peer.                                                 *)
Established(ip, t) ==
  \E p \in Peers(run) :
    /\ <<ip, p>> \in Inside
    /\ p \in up \/ (t = "junos" /\ up # {})

(* verify_bgp_neighbors and verify_ospf_adjacencies, of a shown output; a  *)
(* section that is null has no neighbours to read and raises.              *)
Verified(c, t) ==
  /\ Null \notin {c.bgp, c.ospf}
  /\ \A n \in ToSet(Neighbors(c)) : Established(n.ip, t)
  /\ Given(c.ospf) => full

(* Step 6.  A show command may fail, where there is one.                   *)
Wrong_Verify_Partly ==
  /\ phase = "pushed"
  /\ phase' = IF Verified(deployed, type) THEN "SUCCESS" ELSE "PARTIAL"
  /\ UNCHANGED <<type, asked, stored, deployed, deploys>>
  /\ UNCHANGED deviceVars

Verify ==
  /\ phase = "pushed"
  /\ \/ phase' = IF Verified(deployed, type) THEN "SUCCESS" ELSE "ROLLBACK"
     \/ phase' = "ROLLBACK"
  /\ UNCHANGED <<type, asked, stored, deployed, deploys>>
  /\ UNCHANGED deviceVars

(* External: sessions come up and go down.                                 *)
Flap ==
  /\ \/ \E p \in CanBeUp(run) : up' = (up \ {p}) \cup ({p} \ up) /\ full' = full
     \/ HasArea(run) /\ full' = ~full /\ up' = up
  /\ UNCHANGED <<type, asked, stored, deployed, phase, run, deploys>>

Next ==
  \/ \E c \in Drafts : Ask(<<c>>)
  \/ \E c, d \in {r.config : r \in Requests} \cup {None} : Ask(<<c, d>>)
  \/ \E r \in Requests : Store(r)
  \/ Start \/ Push \/ Verify \/ Flap

Spec == Init /\ [][Next]_vars
-----------------------------------------------------------------------------
(* Properties of the answers.                                              *)

Asked == IF asked = None THEN {} ELSE ToSet(asked.items) \ {None}

(* A configuration the rules find valid has no two neighbours of one       *)
(* address, no prefix that is both permitted and denied, no AS number out  *)
(* of range and, where both are numbers, no hold time under three          *)
(* keepalives: what README.md:81 says is detected, said of the whole lists *)
(* and not entry by entry (core/validator.py:341-444).  Prefixes are told  *)
(* apart as they are written.                                              *)
Sound(c) ==
  LET nbrs == Neighbors(c)
      pols == Policies(c)
  IN  /\ \A i, j \in DOMAIN nbrs : i # j => nbrs[i].ip # nbrs[j].ip
      /\ \A i, j \in DOMAIN pols :
           /\ pols[i].prefix = pols[j].prefix /\ pols[i].prefix # None
           /\ None \notin {pols[i].action, pols[j].action}
           => pols[i].action = pols[j].action
      /\ \A n \in ToSet(nbrs) :
           /\ n.asn = None \/ (n.asn[1] = "int" /\ n.asn[2] \in 1 .. MaxAsn)
           /\ HasTimers(n) /\ ~ IsText(n.keep) /\ ~ IsText(n.hold) =>
                n.hold = Zero \/ ~ n.hold[2] < 3 * n.keep[2]

ValidIsSound == \A c \in Asked : Verdict(c) = "valid" => Sound(c)

(* The typed schema and the rules say the same of numbers, syntax and      *)
(* timers: what the schema has read of a configuration it takes, the rules *)
(* can judge, and fault only for kinds of addresses, repeats, clashing     *)
(* policies and area ids, which the schema does not look at                *)
(* (api/config_schemas.py against core/validator.py).                      *)
SchemaAgrees ==
  \A c \in Asked : SchemaTakes(c) =>
    /\ ~ KindsMix(Read(c))
    /\ \A e \in Errors(Read(c)) :
         e[1] \in {"neighbor", "router_id", "odd_prefix", "repeated_neighbor",
                   "repeated_area", "policy", "area"}

(* Areas of two notations but one number pass the rules; the later one's   *)
(* commands then replace the earlier one's.                                *)
DistinctAreas(c) ==
  LET areas == Areas(c)
  IN  \A i, j \in DOMAIN areas : i # j => AreaNumber(areas[i]) # AreaNumber(areas[j])

(* Vetted: taken by the schema and valid.                                  *)
Vetted(c) == SchemaTakes(c) /\ Verdict(c) = "valid"

(* Both take what not every device does.  JunOS is sent every plain area   *)
(* number as 0.0.0.number, and one over 255 is no area; and all but IOS    *)
(* are sent a prefix as it is written.                                     *)
AreasFit(c, t) ==
  t = "junos" => \A a \in ToSet(Areas(c)) : JunosAreaNumber(a) # NoNumber

PrefixesFit(c, t) ==
  /\ t # "cisco_ios" => \A p \in ToSet(Networks(c)) : p[1] = "cidr"
  /\ t \notin {"cisco_ios", "junos"} => \A p \in AreaNetworks(c) : p[1] = "cidr"

Fits(c, t) == AreasFit(c, t) /\ PrefixesFit(c, t)

(* A vetted configuration can be deployed: building its commands does not  *)
(* raise, and the device takes their operands, on IOS in whatever notation *)
(* Python reads a prefix, elsewhere if it is written as devices write it   *)
(* (core/command_builder.py:172-176, 351-355 against core/validator.py:46).*)
VettedIsTaken ==
  \A c \in Asked : Vetted(c) /\ Fits(c, type) =>
    ~ BuildRaises(c, type) /\ Refused(Build(c, type), type) = {}

(* The commands of a vetted configuration, taken together, say what is     *)
(* desired and nothing that contradicts it: each neighbour has its AS      *)
(* number and no other, each network is there, a neighbour is shut down on *)
(* the types that know how exactly when it should be, and every area has   *)
(* its type and its networks or interfaces, as far as the vendor's         *)
(* function emits them (core/command_builder.py:82-418).                   *)
BuildSaysDesired ==
  \A c \in Asked : Vetted(c) /\ AreasFit(c, type) /\ type # "nokia_sros" =>
    LET built == Settings(Build(c, type))
        Of(what) == {s \in built : s[1][2] = what}
        Items(kind, k) ==
          {s[1][5] : s \in {s \in Of("area") : s[1][3] = k /\ s[1][4] = kind}}
        number(a) == AreaNumber(a)
        networks(ps) == {p[2] : p \in ps}
    IN  /\ \A n \in ToSet(Neighbors(c)) :
             {s[2] : s \in {s \in Of("peer") : s[1][4] = n.ip}} = {n.asn[2]}
        /\ networks(ToSet(Networks(c))) = networks({s[1][3] : s \in Of("net")})
        /\ type \in {"cisco_xr", "cisco_ios"} =>
             \A n \in ToSet(Neighbors(c)) : "shutdown" \in n.knobs <=> n.ip \in Shut(built)
        /\ DistinctAreas(c) =>
             \A a \in ToSet(Areas(c)) :
               /\ type \in {"cisco_ios", "junos"} =>
                    {s[2] : s \in {s \in Of("type") : s[1][3] = number(a)}} = {a.type} \ {"normal"}
               /\ networks(Items("net", number(a)))
                    = IF type = "junos" THEN {} ELSE networks(ToSet(a.nets))
               /\ Items("interface", number(a))
                    = IF type \in {"cisco_xr", "junos"} THEN a.ifs ELSE {}

-----------------------------------------------------------------------------
(* Properties of deployments.                                              *)

TypeOK ==
  /\ type \in Types /\ phase \in Ended \cup {"backed up", "pushed"}
  /\ full \in BOOLEAN /\ deploys \in 0 .. MaxDeploys
  /\ up \subseteq CanBeUp(run)
  /\ full => HasArea(run)

(* SUCCESS of a vetted configuration on a device that takes lines without  *)
(* a commit: all of it is running.                                         *)
SuccessTakes ==
  /\ phase = "SUCCESS" /\ type \notin NeedsCommit
  /\ Vetted(deployed) /\ Fits(deployed, type)
  => Settings(Build(deployed, type)) \subseteq run

(* SUCCESS of any configuration, on whatever type, whether its lines were  *)
(* refused, dropped or never committed: each of its neighbours is a peer   *)
(* of the device and not shut down, or is mistaken for one whose address   *)
(* contains its own.  JunOS is left out: any established session will do   *)
(* there (core/state_verifier.py:256-262).                                 *)
VerifiedIsPeered ==
  phase = "SUCCESS" /\ type # "junos" =>
    \A n \in ToSet(Neighbors(deployed)) :
      \E p \in CanBeUp(run) : <<n.ip, p>> \in Inside

(* A deployment resets no session of a neighbour it says nothing new of,   *)
(* wherever it breaks off and whatever the device refuses: one goes down   *)
(* only if its configuration has another AS number for the neighbour, on   *)
(* JunOS another group, shuts it down or sets its password, or has another *)
(* AS number or router id for the device (docs/PROJECT_DEEP_DIVE.md:11: a  *)
(* bad push can take down a datacenter's routing).                         *)
SaysNewOf(c, p, settings) ==
  \/ \E n \in ToSet(Neighbors(c)) :
       LET group == IF type = "junos" THEN JunosGroup(c.bgp, n) ELSE ""
       IN  /\ n.ip = p
           /\ \/ n.knobs \cap {"shutdown", "password"} # {}
              \/ <<<<"bgp", "peer", group, p>>, Number(n.asn)>> \notin settings
  \/ /\ Given(c.bgp)
     /\ \/ <<<<"bgp", "process">>, Number(c.bgp.asn)>> \notin settings
        \/ c.bgp.rid # None /\ <<<<"bgp", "rid">>, c.bgp.rid>> \notin settings

CutsOnlyChanged ==
  [][phase' # phase => \A p \in up \ up' : SaysNewOf(deployed, p, run)]_vars

(* README.md:23 "validate -> version -> deploy": what is pushed was valid. *)
OnlyValidIsPushed == phase \in {"pushed", "SUCCESS"} => Verdict(deployed) = "valid"
=============================================================================
