------------------------- MODULE ConfigPipelineProofs -------------------------
(***************************************************************************)
(* What ConfigPipeline promises of a deployment that ends in SUCCESS, for  *)
(* any configurations, addresses, device types and number of deployments.  *)
(* TypeOK holds no session up that the settings do not allow; it is        *)
(* inductive, and with it what the verifier has seen outlasts its look:    *)
(* settings change in pushes only.                                         *)
(*                                                                         *)
(* Then what it promises of the rules, the schema and the commands, for    *)
(* configurations with lists of any length: the runs have lists of up to   *)
(* three.  The commands a configuration becomes are characterised by Says, *)
(* by induction over the lists they are put together from.                 *)
(***************************************************************************)
EXTENDS ConfigPipeline, ListFacts

IInv == TypeOK /\ VerifiedIsPeered

LEMMA InitHolds == Init => IInv
<1> SUFFICES ASSUME Init PROVE IInv
  OBVIOUS
<1>1. TypeOK
  <2>1. MaxDeploys \in Nat
    BY PipelineAssumption
  <2>2. deploys \in 0 .. MaxDeploys
    BY <2>1 DEF Init
  <2>3. full = FALSE /\ full \in BOOLEAN /\ (full => HasArea(run))
    BY Zenon DEF Init
  <2> QED BY <2>2, <2>3 DEF Init, TypeOK, Ended
<1>2. VerifiedIsPeered
  BY DEF Init, VerifiedIsPeered
<1> QED BY <1>1, <1>2 DEF IInv

(* A step after which the last deployment is not a SUCCESS.                *)
LEMMA UnlessSuccess ==
  ASSUME phase' # "SUCCESS"
  PROVE  VerifiedIsPeered'
BY DEF VerifiedIsPeered

(* A step that leaves the deployment and the settings as they are.         *)
LEMMA SamePeers ==
  ASSUME VerifiedIsPeered, UNCHANGED <<type, deployed, phase, run>>
  PROVE  VerifiedIsPeered'
BY DEF VerifiedIsPeered, CanBeUp, Peers, Shut

LEMMA AskKeeps ==
  ASSUME IInv, NEW items, Ask(items)
  PROVE  IInv'
<1>1. TypeOK'
  BY DEF IInv, TypeOK, Ask, deviceVars, CanBeUp, Peers, Shut, HasArea
<1>2. VerifiedIsPeered'
  BY SamePeers DEF IInv, Ask, deviceVars
<1> QED BY <1>1, <1>2 DEF IInv

LEMMA StoreKeeps ==
  ASSUME IInv, NEW r, Store(r)
  PROVE  IInv'
<1>1. TypeOK'
  BY DEF IInv, TypeOK, Store, deviceVars, CanBeUp, Peers, Shut, HasArea
<1>2. VerifiedIsPeered'
  BY SamePeers DEF IInv, Store, deviceVars
<1> QED BY <1>1, <1>2 DEF IInv

LEMMA StartKeeps ==
  ASSUME IInv, Start
  PROVE  IInv'
<1>1. phase' \in {"FAILED", "backed up"}
  BY DEF Start
<1>2. deploys' \in 0 .. MaxDeploys
  <2>1. deploys \in 0 .. MaxDeploys /\ deploys < MaxDeploys /\ deploys' = deploys + 1
    BY DEF IInv, TypeOK, Start
  <2>2. MaxDeploys \in Nat
    BY PipelineAssumption
  <2> QED BY <2>1, <2>2
<1>3. UNCHANGED <<type, run, up, full>>
  BY DEF Start, deviceVars
<1>4. TypeOK'
  BY <1>1, <1>2, <1>3 DEF IInv, TypeOK, Ended, CanBeUp, Peers, Shut, HasArea
<1> QED BY <1>1, <1>4, UnlessSuccess DEF IInv

(* A push leaves up what the new settings allow.                           *)
LEMMA PushKeeps ==
  ASSUME IInv, Push
  PROVE  IInv'
<1>1. phase' \in {"ROLLBACK", "pushed"} /\ UNCHANGED <<type, deploys>>
  BY DEF Push
<1>2. UNCHANGED deviceVars \/ \E settings : Apply(settings)
  BY DEF Push
<1>3. up' \subseteq CanBeUp(run') /\ full' \in BOOLEAN /\ (full' => HasArea(run'))
  <2>1. CASE UNCHANGED deviceVars
    BY <2>1 DEF deviceVars, IInv, TypeOK
  <2>2. CASE \E settings : Apply(settings)
    BY <2>2 DEF Apply, IInv, TypeOK
  <2> QED BY <1>2, <2>1, <2>2
<1>4. TypeOK'
  BY <1>1, <1>3 DEF IInv, TypeOK, Ended, CanBeUp, Peers, Shut, HasArea
<1> QED BY <1>1, <1>4, UnlessSuccess DEF IInv

(* What is seen Established is up, and so neither unknown nor shut down.   *)
LEMMA VerifyKeeps ==
  ASSUME IInv, Verify
  PROVE  IInv'
<1>1. phase' \in {"SUCCESS", "ROLLBACK"} /\ UNCHANGED <<type, deployed, deploys, run, up, full>>
  BY DEF Verify, deviceVars
<1>2. TypeOK'
  BY <1>1 DEF IInv, TypeOK, Ended, CanBeUp, Peers, Shut, HasArea
<1>3. ASSUME phase' = "SUCCESS", type # "junos", NEW n \in ToSet(Neighbors(deployed))
      PROVE  \E p \in CanBeUp(run) : <<n.ip, p>> \in Inside
  <2>1. Verified(deployed, type)
    BY <1>3 DEF Verify
  <2>2. Established(n.ip, type)
    BY <1>3, <2>1 DEF Verified
  <2>3. PICK p \in Peers(run) : <<n.ip, p>> \in Inside /\ p \in up
    BY <1>3, <2>2 DEF Established
  <2> QED BY <2>3 DEF IInv, TypeOK
<1>4. VerifiedIsPeered'
  BY <1>1, <1>3 DEF VerifiedIsPeered, CanBeUp, Peers, Shut
<1> QED BY <1>2, <1>4 DEF IInv

LEMMA FlapKeeps ==
  ASSUME IInv, Flap
  PROVE  IInv'
<1>1. UNCHANGED <<type, deployed, phase, run, deploys>>
  BY DEF Flap
<1>2. up' \subseteq CanBeUp(run) /\ full' \in BOOLEAN /\ (full' => HasArea(run))
  <2>1. up \subseteq CanBeUp(run) /\ full \in BOOLEAN /\ (full => HasArea(run))
    BY DEF IInv, TypeOK
  <2>2. CASE \E p \in CanBeUp(run) : up' = (up \ {p}) \cup ({p} \ up) /\ full' = full
    BY <2>1, <2>2
  <2>3. CASE HasArea(run) /\ full' = ~full /\ up' = up
    BY <2>1, <2>3, Zenon
  <2> QED BY <2>2, <2>3 DEF Flap
<1>3. TypeOK'
  BY <1>1, <1>2 DEF IInv, TypeOK, CanBeUp, Peers, Shut, HasArea
<1>4. VerifiedIsPeered'
  BY <1>1, SamePeers DEF IInv
<1> QED BY <1>3, <1>4 DEF IInv

(* The strengthened invariant, of which the types and the fabric's peering *)
(* are parts, holds of every run of the pipeline.                          *)
THEOREM Invariance == Spec => []IInv
<1>1. IInv /\ [Next]_vars => IInv'
  <2> SUFFICES ASSUME IInv, [Next]_vars PROVE IInv'
    OBVIOUS
  <2>1. CASE UNCHANGED vars
    <3>1. TypeOK'
      BY <2>1 DEF vars, IInv, TypeOK, CanBeUp, Peers, Shut, HasArea
    <3>2. VerifiedIsPeered'
      BY <2>1, SamePeers DEF vars, IInv
    <3> QED BY <3>1, <3>2 DEF IInv
  <2>2. CASE Next
    BY <2>2, AskKeeps, StoreKeeps, StartKeeps, PushKeeps, VerifyKeeps, FlapKeeps DEF Next
  <2> QED BY <2>1, <2>2
<1> QED BY <1>1, InitHolds, PTL DEF Spec

(* Whatever is deployed and however often, no session is up that the       *)
(* device's settings do not allow, and the number of deployments is kept.  *)
THEOREM TypeCorrect == Spec => []TypeOK
<1>1. IInv => TypeOK
  BY DEF IInv
<1> QED BY <1>1, Invariance, PTL

(* SUCCESS of any configuration at all, refused, dropped or never          *)
(* committed: its neighbours are peers that are not shut down, but for     *)
(* addresses that contain theirs and for JunOS.                            *)
THEOREM SuccessIsPeered == Spec => []VerifiedIsPeered
<1>1. IInv => VerifiedIsPeered
  BY DEF IInv
<1> QED BY <1>1, Invariance, PTL

-----------------------------------------------------------------------------
(* The rules, the schema and the commands.                                 *)

Known == Drafts \cup {r.config : r \in Requests}

(* What was asked, stored and deployed came in as a configuration.         *)
CInv ==
  /\ asked # None =>
       /\ asked.answers = BatchAnswers(asked.items, type)
       /\ \A c \in ToSet(asked.items) : c # None => IsConfig(c)
  /\ stored # None => IsConfig(stored)
  /\ deployed # None => IsConfig(deployed)
  /\ phase # "none" => deployed # None

LEMMA KnownIsConfig == \A c \in Known : IsConfig(c)
BY ConfigAssumption DEF Known

(* A step that asks and stores nothing.                                    *)
LEMMA SameQuestion ==
  ASSUME CInv, UNCHANGED <<type, asked, stored, deployed>>, phase' # "none" => deployed # None
  PROVE  CInv'
BY DEF CInv

LEMMA AskComes ==
  ASSUME CInv, NEW items, Ask(items), \A c \in ToSet(items) : c # None => IsConfig(c)
  PROVE  CInv'
<1>1. asked' = [items |-> items, answers |-> BatchAnswers(items, type)]
  BY DEF Ask
<1>2. asked'.items = items /\ asked'.answers = BatchAnswers(items, type)
  BY <1>1
<1>3. UNCHANGED <<type, stored, deployed, phase>>
  BY DEF Ask
<1> QED BY <1>2, <1>3 DEF CInv

LEMMA StoreComes ==
  ASSUME CInv, NEW r \in Requests, Store(r)
  PROVE  CInv'
<1>1. asked = None /\ UNCHANGED <<type, asked, deployed, phase>> /\ stored' = Coerced(r)
  BY DEF Store
<1>2. IsConfig(r.config)
  BY KnownIsConfig DEF Known
<1>3. IsConfig(Coerced(r))
  <2>1. CASE r.form = "state"
    BY <1>2, <2>1 DEF Coerced
  <2>2. CASE r.form # "state"
    <3> DEFINE c == Coerced(r)
    <3>1. /\ c.bgp = IF r.config.bgp = Null THEN Absent ELSE r.config.bgp
          /\ c.ospf = IF r.config.ospf = Null THEN Absent ELSE r.config.ospf
      BY <2>2 DEF Coerced
    <3> HIDE DEF c
    <3>2. Given(c.bgp) => Given(r.config.bgp) /\ c.bgp = r.config.bgp
      BY <3>1 DEF Given
    <3>3. Given(c.ospf) => Given(r.config.ospf) /\ c.ospf = r.config.ospf
      BY <3>1 DEF Given
    <3>4. IsConfig(c)
      BY <1>2, <3>2, <3>3 DEF IsConfig
    <3> QED BY <3>4 DEF c
  <2> QED BY <2>1, <2>2
<1> QED BY <1>1, <1>3 DEF CInv

LEMMA StepComes == CInv /\ [Next]_vars => CInv'
<1> SUFFICES ASSUME CInv, [Next]_vars PROVE CInv'
  OBVIOUS
<1>1. CASE \E c \in Drafts : Ask(<<c>>)
  <2>1. PICK c \in Drafts : Ask(<<c>>)
    BY <1>1
  <2>2. \A x \in ToSet(<<c>>) : x # None => IsConfig(x)
    BY KnownIsConfig DEF Known, ToSet
  <2> QED BY <2>1, <2>2, AskComes
<1>2. CASE \E c, d \in {r.config : r \in Requests} \cup {None} : Ask(<<c, d>>)
  <2>1. PICK c, d \in {r.config : r \in Requests} \cup {None} : Ask(<<c, d>>)
    BY <1>2
  <2>2. \A x \in ToSet(<<c, d>>) : x # None => IsConfig(x)
    BY KnownIsConfig DEF Known, ToSet
  <2> QED BY <2>1, <2>2, AskComes
<1>3. CASE \E r \in Requests : Store(r)
  BY <1>3, StoreComes
<1>4. CASE Start
  BY <1>4 DEF Start, CInv
<1>5. CASE Push \/ Verify
  <2>1. UNCHANGED <<type, asked, stored, deployed>> /\ phase # "none"
    BY <1>5 DEF Push, Verify
  <2> QED BY <2>1, SameQuestion DEF CInv
<1>6. CASE Flap \/ UNCHANGED vars
  <2>1. UNCHANGED <<type, asked, stored, deployed, phase>>
    BY <1>6 DEF Flap, vars
  <2> QED BY <2>1, SameQuestion DEF CInv
<1> QED BY <1>1, <1>2, <1>3, <1>4, <1>5, <1>6 DEF Next

(* Whatever was asked, stored or deployed is a configuration, and the      *)
(* answers kept are those of the batch route.                              *)
THEOREM Arrivals == Spec => []CInv
<1>1. Init => CInv
  BY DEF Init, CInv
<1> QED BY <1>1, StepComes, PTL DEF Spec

-----------------------------------------------------------------------------
(* The schema and the rules.                                               *)

LooseErrors == {"neighbor", "router_id", "odd_prefix", "repeated_neighbor",
                "repeated_area", "policy", "area"}

LEMMA IfFinding ==
  ASSUME NEW condition, NEW finding, NEW e \in If(condition, finding)
  PROVE  condition /\ e = finding
BY DEF If

(* What is read of a number that is taken is that number.                  *)
LEMMA NumberRead ==
  ASSUME NEW x, NEW low, NEW high, Reads(x, low, high)
  PROVE  /\ ReadNumber(x) = <<"int", x[2]>> /\ x[2] \in low .. high
         /\ ReadNumber(x)[1] = "int" /\ ReadNumber(x)[2] = x[2]
BY DEF Reads, ReadNumber

LEMMA TimersRead ==
  ASSUME NEW m, SchemaTakesNeighbor(m),
         ReadNumber(m.keep) # None, ReadNumber(m.hold) # None
  PROVE  /\ ~ TimersRaise(ReadNumber(m.keep), ReadNumber(m.hold))
         /\ TimerErrors(ReadNumber(m.keep), ReadNumber(m.hold)) = {}
<1>1. HasTimers(m)
  BY DEF HasTimers, ReadNumber
<1>2. Reads(m.keep, 1, MaxShort) /\ Reads(m.hold, 3, MaxShort) /\ m.hold[2] >= 3 * m.keep[2]
  BY <1>1 DEF SchemaTakesNeighbor, HasTimers
<1>3. /\ ReadNumber(m.keep)[1] = "int" /\ ReadNumber(m.keep)[2] = m.keep[2]
      /\ ReadNumber(m.hold)[1] = "int" /\ ReadNumber(m.hold)[2] = m.hold[2]
  BY <1>2, NumberRead
<1>4. m.keep[2] \in Int /\ m.hold[2] \in Int
  BY <1>2, RangeAssumption DEF Reads
<1>5. ~ m.hold[2] < 3 * m.keep[2]
  BY <1>2, <1>4
<1>6. ~ Below(ReadNumber(m.hold), ReadNumber(m.keep), 3)
  BY <1>3, <1>5 DEF Below, IsText
<1> QED BY <1>3, <1>6 DEF TimersRaise, TimerErrors, If, IsText

LEMMA AsnRead ==
  ASSUME NEW x, Reads(x, 1, MaxAsn)
  PROVE  AsnErrors(ReadNumber(x)) = {}
BY NumberRead DEF AsnErrors, If

(* A neighbour of what was read is one that was taken, as it was read.     *)
LEMMA NeighborRead ==
  ASSUME NEW b, SchemaTakesBgp(b), NEW n \in ToSet(ReadBgp(b).nbrs)
  PROVE  \E m \in ToSet(b.nbrs) :
           /\ SchemaTakesNeighbor(m)
           /\ n.asn = ReadNumber(m.asn) /\ n.keep = ReadNumber(m.keep)
           /\ n.hold = ReadNumber(m.hold)
<1>1. PICK i \in DOMAIN b.nbrs : n = ReadNeighbor(b.nbrs[i])
  BY DEF ToSet, ReadBgp, ReadEach
<1>2. b.nbrs[i] \in ToSet(b.nbrs)
  BY DEF ToSet
<1>3. SchemaTakesNeighbor(b.nbrs[i])
  BY <1>2 DEF SchemaTakesBgp
<1> QED BY <1>1, <1>2, <1>3 DEF ReadNeighbor

LEMMA BgpErrorsLoose ==
  ASSUME NEW b, SchemaTakesBgp(b), NEW bgp, bgp = ReadBgp(b), NEW e \in BgpErrors(bgp)
  PROVE  e[1] \in LooseErrors
<1>1. AsnErrors(bgp.asn) = {}
  BY AsnRead DEF SchemaTakesBgp, ReadBgp
<1>2. \A x \in RouterIdErrors(bgp.rid) : x[1] = "router_id"
  <2>1. \A x \in RouterIdErrors(bgp.rid) : x = <<"router_id", bgp.rid>>
    BY IfFinding DEF RouterIdErrors
  <2> QED BY <2>1
<1>3. ASSUME NEW n \in ToSet(bgp.nbrs)
      PROVE  /\ \A x \in NeighborIpErrors(n.ip) : x[1] = "neighbor"
             /\ n.asn # None => AsnErrors(n.asn) = {}
             /\ HasTimers(n) => TimerErrors(n.keep, n.hold) = {}
  <2>1. PICK m \in ToSet(b.nbrs) :
          /\ SchemaTakesNeighbor(m)
          /\ n.asn = ReadNumber(m.asn) /\ n.keep = ReadNumber(m.keep)
          /\ n.hold = ReadNumber(m.hold)
    BY <1>3, NeighborRead
  <2>2. \A x \in NeighborIpErrors(n.ip) : x[1] = "neighbor"
    <3>1. \A x \in NeighborIpErrors(n.ip) : x = <<"neighbor", n.ip>>
      BY IfFinding DEF NeighborIpErrors
    <3> QED BY <3>1
  <2>3. n.asn # None => AsnErrors(n.asn) = {}
    BY <2>1, AsnRead DEF SchemaTakesNeighbor
  <2>4. HasTimers(n) => TimerErrors(n.keep, n.hold) = {}
    BY <2>1, TimersRead DEF HasTimers
  <2> QED BY <2>2, <2>3, <2>4
<1>4. \/ e \in AsnErrors(bgp.asn) \/ e \in RouterIdErrors(bgp.rid)
      \/ \E n \in ToSet(bgp.nbrs) :
           \/ e \in NeighborIpErrors(n.ip)
           \/ n.asn # None /\ e \in AsnErrors(n.asn)
           \/ HasTimers(n) /\ e \in TimerErrors(n.keep, n.hold)
      \/ e[1] = "repeated_neighbor"
  <2> DEFINE repeats == {<<"repeated_neighbor", ip>> : ip \in Repeated(bgp.nbrs, LAMBDA n : n.ip)}
  <2>1. \A x \in repeats : x[1] = "repeated_neighbor"
    BY DEF Repeated
  <2>2. /\ repeats = {<<"repeated_neighbor", ip>> : ip \in Repeated(bgp.nbrs, LAMBDA n : n.ip)}
        /\ e \in BgpErrors(bgp)
    OBVIOUS
  <2> HIDE DEF repeats
  <2>3. e \in UNION {
          IF bgp.asn # None THEN AsnErrors(bgp.asn) ELSE {},
          IF bgp.rid # None THEN RouterIdErrors(bgp.rid) ELSE {},
          UNION {NeighborIpErrors(n.ip) : n \in ToSet(bgp.nbrs)},
          UNION {AsnErrors(n.asn) : n \in {n \in ToSet(bgp.nbrs) : n.asn # None}},
          UNION {TimerErrors(n.keep, n.hold) :
                   n \in {n \in ToSet(bgp.nbrs) : HasTimers(n)}},
          repeats}
    BY <2>2, Zenon DEF BgpErrors
  <2> QED BY <2>1, <2>3
<1> QED BY <1>1, <1>2, <1>3, <1>4 DEF LooseErrors

LEMMA OspfErrorsLoose ==
  ASSUME NEW ospf, NEW e \in OspfErrors(ospf)
  PROVE  e[1] \in LooseErrors
<1> DEFINE faults == UNION {AreaIdErrors(a.id) : a \in {a \in ToSet(ospf.areas) : a.id # None}}
           repeats == {<<"repeated_area", id>> :
                         id \in Repeated(ospf.areas, LAMBDA a : a.id) \ {None}}
<1>1. e \in faults \/ e \in repeats
  <2>1. OspfErrors(ospf) = repeats \cup faults
    BY Zenon DEF OspfErrors
  <2> HIDE DEF faults, repeats
  <2> QED BY <2>1
<1>2. CASE e \in faults
  <2>1. PICK a \in ToSet(ospf.areas) : e \in AreaIdErrors(a.id)
    BY <1>2
  <2>2. e = <<"area", a.id>>
    BY <2>1, IfFinding DEF AreaIdErrors
  <2> QED BY <2>2 DEF LooseErrors
<1>3. CASE e \in repeats
  BY <1>3 DEF Repeated, LooseErrors
<1> QED BY <1>1, <1>2, <1>3

LEMMA ErrorsLoose ==
  ASSUME NEW d, SchemaTakes(d), NEW c, c = Read(d), NEW e \in Errors(c)
  PROVE  e[1] \in LooseErrors
<1>0. /\ Given(c.bgp) => Given(d.bgp) /\ c.bgp = ReadBgp(d.bgp) /\ SchemaTakesBgp(d.bgp)
      /\ Given(c.ospf) => Given(d.ospf) /\ c.ospf = ReadOspf(d.ospf) /\ SchemaTakesOspf(d.ospf)
  BY DEF Read, Given, SchemaTakes
<1>1. CASE Given(c.bgp) /\ e \in BgpErrors(c.bgp)
  BY <1>0, <1>1, BgpErrorsLoose
<1>2. CASE Given(c.ospf) /\ e \in OspfErrors(c.ospf)
  BY <1>2, OspfErrorsLoose
<1>3. CASE e \in PolicyErrors(c)
  <2>1. PICK j : e = <<"policy", Policies(c)[j].prefix>>
    BY <1>3 DEF PolicyErrors
  <2> QED BY <2>1 DEF LooseErrors
<1>4. CASE e \in AllCidrErrors(c)
  <2>1. PICK p : /\ p \in ToSet(Networks(c)) \cup AreaNetworks(c)
                            \cup ({q.prefix : q \in ToSet(Policies(c))} \ {None})
                 /\ e \in PrefixErrors(p)
    BY <1>4 DEF AllCidrErrors
  <2>2. ~ IsBad(p)
    <3>0. ToSet(<<>>) = {}
      BY DEF ToSet
    <3>1. CASE p \in ToSet(Networks(c))
      <4>1. Given(c.bgp) /\ p \in ToSet(c.bgp.nets)
        BY <3>0, <3>1 DEF Networks
      <4> QED BY <1>0, <4>1 DEF ReadBgp, SchemaTakesBgp
    <3>2. CASE p \in AreaNetworks(c)
      <4>1. PICK a \in ToSet(Areas(c)) : p \in ToSet(a.nets)
        BY <3>2 DEF AreaNetworks
      <4>2. Given(c.ospf) /\ a \in ToSet(c.ospf.areas)
        BY <3>0, <4>1 DEF Areas
      <4>3. PICK i \in DOMAIN d.ospf.areas : a = ReadArea(d.ospf.areas[i])
        BY <1>0, <4>2 DEF ToSet, ReadOspf, ReadEach
      <4>4. d.ospf.areas[i] \in ToSet(d.ospf.areas)
        BY DEF ToSet
      <4>5. SchemaTakesArea(d.ospf.areas[i]) /\ a.nets = d.ospf.areas[i].nets
        BY <1>0, <4>2, <4>3, <4>4 DEF SchemaTakesOspf, ReadArea
      <4> QED BY <4>1, <4>5 DEF SchemaTakesArea
    <3>3. CASE p \in {q.prefix : q \in ToSet(Policies(c))}
      <4>1. PICK q \in ToSet(Policies(c)) : p = q.prefix
        BY <3>3
      <4>2. Given(c.bgp) /\ q \in ToSet(c.bgp.pols)
        BY <3>0, <4>1 DEF Policies
      <4>3. PICK i \in DOMAIN d.bgp.pols : q = ReadPolicy(d.bgp.pols[i])
        BY <1>0, <4>2 DEF ToSet, ReadBgp, ReadEach
      <4>4. p = <<"cidr", d.bgp.pols[i].prefix[2]>>
        BY <4>1, <4>3 DEF ReadPolicy
      <4> QED BY <4>4 DEF IsBad
    <3> QED BY <2>1, <3>1, <3>2, <3>3
  <2>3. e[1] = "odd_prefix"
    <3>1. e = <<"odd_prefix", p>>
      <4>1. \/ e \in If(IsBad(p), <<"prefix", p>>)
            \/ e \in If(~ IsBad(p) /\ p[2] \in OddNetwork, <<"odd_prefix", p>>)
        BY <2>1 DEF PrefixErrors
      <4>2. CASE e \in If(IsBad(p), <<"prefix", p>>)
        BY <2>2, <4>2 DEF If
      <4>3. CASE e \in If(~ IsBad(p) /\ p[2] \in OddNetwork, <<"odd_prefix", p>>)
        BY <4>3, IfFinding
      <4> QED BY <4>1, <4>2, <4>3
    <3> QED BY <3>1
  <2> QED BY <2>3 DEF LooseErrors
<1> QED BY <1>1, <1>2, <1>3, <1>4 DEF Errors

(* All timers that were read are numbers, and areas have none.             *)
LEMMA KindsRead ==
  ASSUME NEW d, SchemaTakes(d)
  PROVE  ~ KindsMix(Read(d))
<1> DEFINE c == Read(d)
<1>0. ToSet(<<>>) = {}
  BY DEF ToSet
<1>1. ASSUME NEW n \in ToSet(Neighbors(c)), HasTimers(n)
      PROVE  ~ TimersRaise(n.keep, n.hold)
  <2>1. Given(c.bgp) /\ n \in ToSet(c.bgp.nbrs)
    BY <1>0, <1>1 DEF Neighbors
  <2>2. c.bgp = ReadBgp(d.bgp) /\ SchemaTakesBgp(d.bgp)
    BY <2>1 DEF Read, Given, SchemaTakes
  <2>3. PICK m \in ToSet(d.bgp.nbrs) :
          /\ SchemaTakesNeighbor(m)
          /\ n.asn = ReadNumber(m.asn) /\ n.keep = ReadNumber(m.keep)
          /\ n.hold = ReadNumber(m.hold)
    BY <2>1, <2>2, NeighborRead
  <2> QED BY <1>1, <2>3, TimersRead DEF HasTimers
<1>2. ASSUME NEW a \in ToSet(Areas(c))
      PROVE  ~ HasIntervals(a)
  <2>1. Given(c.ospf) /\ a \in ToSet(c.ospf.areas)
    BY <1>0, <1>2 DEF Areas
  <2>2. c.ospf = ReadOspf(d.ospf)
    BY <2>1 DEF Read, Given
  <2>3. PICK i \in DOMAIN d.ospf.areas : a = ReadArea(d.ospf.areas[i])
    BY <2>1, <2>2 DEF ToSet, ReadOspf, ReadEach
  <2>4. a.hello = None
    BY <2>3 DEF ReadArea
  <2> QED BY <2>4 DEF HasIntervals
<1> QED BY <1>1, <1>2 DEF KindsMix

LEMMA AskedIsConfig == CInv => \A c \in Asked : IsConfig(c)
BY DEF CInv, Asked

(* What the schema takes, the rules fault for no number, syntax or timer,  *)
(* whatever the configuration.                                             *)
THEOREM SchemaAndRulesAgree == Spec => []SchemaAgrees
<1>1. SchemaAgrees
  BY ErrorsLoose, KindsRead DEF SchemaAgrees, LooseErrors
<1> QED BY <1>1, PTL

-----------------------------------------------------------------------------
(* What no error means of the lists as a whole.                            *)

LEMMA EmptyIf == ASSUME NEW condition, NEW finding, If(condition, finding) = {}
                 PROVE  ~ condition
BY DEF If

(* Repeated neighbours are found, wherever they stand.                     *)
LEMMA NeighborsDiffer ==
  ASSUME NEW bgp, BgpErrors(bgp) = {}, IsList(bgp.nbrs),
         NEW i \in DOMAIN bgp.nbrs, NEW j \in DOMAIN bgp.nbrs, i < j
  PROVE  bgp.nbrs[i].ip # bgp.nbrs[j].ip
<1> DEFINE repeated == {bgp.nbrs[k].ip : k \in {k \in DOMAIN bgp.nbrs :
                          \E l \in 1 .. k - 1 : bgp.nbrs[l].ip = bgp.nbrs[k].ip}}
           repeats == {<<"repeated_neighbor", ip>> : ip \in repeated}
<1>1. repeated = Repeated(bgp.nbrs, LAMBDA n : n.ip)
  BY Zenon DEF Repeated
<1> HIDE DEF repeated
<1>2. repeats \subseteq BgpErrors(bgp)
  <2>1. repeats = {<<"repeated_neighbor", ip>> : ip \in Repeated(bgp.nbrs, LAMBDA n : n.ip)}
    BY <1>1, Zenon
  <2>2. ASSUME NEW A, NEW B, NEW C, NEW D, NEW E, NEW F
        PROVE  F \subseteq UNION {A, B, C, D, E, F}
    OBVIOUS
  <2> HIDE DEF repeats
  <2> QED BY <2>1, <2>2, Zenon DEF BgpErrors
<1>3. repeated = {}
  BY <1>2
<1>4. bgp.nbrs[j].ip \notin repeated
  BY <1>3
<1>5. i \in 1 .. j - 1
  BY DEF IsList
<1> QED BY <1>4, <1>5 DEF repeated

(* A prefix with two actions has two that stand next to each other among   *)
(* the policies of the prefix, where the rules look.                       *)
LEMMA PoliciesAgree ==
  ASSUME NEW c, PolicyErrors(c) = {}, IsList(Policies(c)),
         NEW i \in Whole(Policies(c)), NEW j \in Whole(Policies(c)), i < j,
         Policies(c)[i].prefix = Policies(c)[j].prefix
  PROVE  Policies(c)[i].action = Policies(c)[j].action
<1> DEFINE s == Policies(c)
           Same == {k \in Whole(s) : s[k].prefix = s[i].prefix}
           Off == {k \in Same : i < k /\ s[k].action # s[i].action}
<1> SUFFICES ASSUME s[i].action # s[j].action PROVE FALSE
  OBVIOUS
<1>0. Whole(s) \subseteq Nat
  BY DEF Whole, IsList
<1>1. j \in Off
  OBVIOUS
<1>2. PICK m \in Off : \A k \in Off : m <= k
  <2>1. Off \subseteq Nat /\ Off # {}
    BY <1>0, <1>1
  <2> HIDE DEF Off
  <2> QED BY <2>1, Least
<1> DEFINE Gaps == {n \in Nat : m - n \in Same /\ i <= m - n /\ m - n < m}
<1>3. PICK n \in Gaps : \A k \in Gaps : n <= k
  <2>1. m - i \in Nat /\ m - (m - i) = i /\ i < m
    BY <1>0, <1>2
  <2>2. m - i \in Gaps
    <3>1. i \in Same
      OBVIOUS
    <3> HIDE DEF Same, Off
    <3>2. ASSUME NEW x \in Nat, m - x = i
          PROVE  x \in Gaps
      BY <1>0, <2>1, <3>1, <3>2
    <3> HIDE DEF Gaps
    <3> QED BY <2>1, <3>2
  <2>3. Gaps \subseteq Nat /\ Gaps # {}
    BY <2>2
  <2> HIDE DEF Gaps
  <2> QED BY <2>3, Least
<1> DEFINE l == m - n
<1>4. l \in Same /\ i <= l /\ l < m /\ m \in Same
  BY <1>2, <1>3
<1>5. s[l].action # s[m].action
  <2>1. CASE l = i
    BY <1>2, <2>1
  <2>2. CASE l # i
    <3>1. l \notin Off
      BY <1>0, <1>2, <1>4
    <3>2. i < l
      BY <1>0, <1>4, <2>2
    <3> QED BY <1>2, <1>4, <3>1, <3>2
  <2> QED BY <2>1, <2>2
<1>6. IsLastBefore(s, l, m)
  <2>1. ASSUME NEW k \in Whole(s), l < k, k < m, s[k].prefix = s[m].prefix
        PROVE  FALSE
    <3>1. k \in Same
      BY <1>4, <2>1
    <3>2. m - k \in Nat /\ m - (m - k) = k /\ i <= k
      BY <1>0, <1>3, <1>4, <2>1
    <3>3. m - k \in Gaps
      BY <2>1, <3>1, <3>2
    <3>4. n <= m - k
      BY <1>3, <3>3
    <3> QED BY <1>0, <1>3, <1>4, <2>1, <3>2, <3>4
  <2>2. l < m /\ s[l].prefix = s[m].prefix
    BY <1>4
  <2> QED BY <2>1, <2>2 DEF IsLastBefore
<1>7. <<"policy", s[m].prefix>> \in PolicyErrors(c)
  BY <1>4, <1>5, <1>6 DEF PolicyErrors
<1> QED BY <1>7

LEMMA ValidSound ==
  ASSUME NEW c, IsConfig(c), Verdict(c) = "valid"
  PROVE  Sound(c)
<1>1. /\ Given(c.bgp) => BgpErrors(c.bgp) = {}
      /\ PolicyErrors(c) = {}
  BY DEF Verdict, Errors
<1>2. IsList(Neighbors(c)) /\ IsList(Policies(c))
  BY DEF IsConfig, Neighbors, Policies, IsList, ToSet
<1>3. ASSUME NEW i \in DOMAIN Neighbors(c), NEW j \in DOMAIN Neighbors(c), i # j
      PROVE  Neighbors(c)[i].ip # Neighbors(c)[j].ip
  <2>1. Given(c.bgp) /\ Neighbors(c) = c.bgp.nbrs
    BY DEF Neighbors
  <2>2. i < j \/ j < i
    <3>1. DOMAIN Neighbors(c) \subseteq Nat
      BY <1>2 DEF IsList
    <3> QED BY <1>3, <3>1
  <2> QED BY <1>1, <1>2, <1>3, <2>1, <2>2, NeighborsDiffer
<1>4. ASSUME NEW i \in DOMAIN Policies(c), NEW j \in DOMAIN Policies(c),
             Policies(c)[i].prefix = Policies(c)[j].prefix, Policies(c)[i].prefix # None,
             None \notin {Policies(c)[i].action, Policies(c)[j].action}
      PROVE  Policies(c)[i].action = Policies(c)[j].action
  <2>1. i \in Whole(Policies(c)) /\ j \in Whole(Policies(c))
    BY <1>4 DEF Whole
  <2>2. i < j \/ j < i \/ i = j
    <3>1. DOMAIN Policies(c) \subseteq Nat
      BY <1>2 DEF IsList
    <3> QED BY <3>1
  <2> QED BY <1>1, <1>2, <1>4, <2>1, <2>2, PoliciesAgree
<1>5. ASSUME NEW n \in ToSet(Neighbors(c))
      PROVE  /\ n.asn = None \/ (n.asn[1] = "int" /\ n.asn[2] \in 1 .. MaxAsn)
             /\ HasTimers(n) /\ ~ IsText(n.keep) /\ ~ IsText(n.hold) =>
                  n.hold = Zero \/ ~ n.hold[2] < 3 * n.keep[2]
  <2>1. Given(c.bgp) /\ n \in ToSet(c.bgp.nbrs)
    BY <1>5 DEF Neighbors, ToSet
  <2>2. n.asn # None => AsnErrors(n.asn) = {}
    BY <1>1, <2>1 DEF BgpErrors
  <2>3. HasTimers(n) => TimerErrors(n.keep, n.hold) = {}
    BY <1>1, <2>1 DEF BgpErrors
  <2>4. n.asn # None => n.asn[1] = "int" /\ n.asn[2] \in 1 .. MaxAsn
    BY <2>2, EmptyIf DEF AsnErrors
  <2>5. ASSUME HasTimers(n), ~ IsText(n.hold), n.hold # Zero
        PROVE  ~ n.hold[2] < 3 * n.keep[2]
    <3>1. ~ Below(n.hold, n.keep, 3)
      BY <2>3, <2>5 DEF TimerErrors, If
    <3> QED BY <2>5, <3>1 DEF Below
  <2> QED BY <2>4, <2>5
<1> QED BY <1>3, <1>4, <1>5 DEF Sound

(* A configuration the rules find valid has no clashes anywhere in its     *)
(* lists, though the rules look at neighbouring entries only.              *)
THEOREM SoundRules == Spec => []ValidIsSound
<1>1. CInv => ValidIsSound
  BY AskedIsConfig, ValidSound DEF ValidIsSound
<1> QED BY <1>1, Arrivals, PTL

-----------------------------------------------------------------------------
(* The commands of a configuration.                                        *)

LEMMA ListIn ==
  ASSUME NEW S, NEW s \in Seq(S)
  PROVE  IsList(s) /\ ToSet(s) \subseteq S
BY DEF IsList, ToSet

LEMMA ListJoin ==
  ASSUME NEW u, NEW v, IsList(u), IsList(v)
  PROVE  IsList(u \o v) /\ ToSet(u \o v) = ToSet(u) \cup ToSet(v)
<1>1. u \in Seq(ToSet(u) \cup ToSet(v)) /\ v \in Seq(ToSet(u) \cup ToSet(v))
  BY DEF IsList
<1> DEFINE S == ToSet(u) \cup ToSet(v)
<1>2. u \in Seq(S) /\ v \in Seq(S)
  BY <1>1
<1>3. ToSet(u) \cup ToSet(v) = S
  OBVIOUS
<1> HIDE DEF S
<1>4. u \o v \in Seq(S) /\ ToSet(u \o v) = ToSet(u) \cup ToSet(v)
  BY <1>2, JoinHas
<1> QED BY <1>4, ListIn

LEMMA EachHas ==
  ASSUME NEW s, IsList(s), NEW f, f = [i \in DOMAIN s |-> f[i]],
         \A i \in DOMAIN s : IsList(f[i])
  PROVE  /\ IsList(FlattenSeq(f))
         /\ \A x \in ToSet(FlattenSeq(f)) : \E i \in DOMAIN s : x \in ToSet(f[i])
         /\ \A i \in DOMAIN s : ToSet(f[i]) \subseteq ToSet(FlattenSeq(f))
<1> DEFINE S == UNION {ToSet(f[i]) : i \in DOMAIN s}
<1>1. DOMAIN s = 1 .. Len(s) /\ Len(s) \in Nat
  BY DEF IsList
<1>2. \A i \in DOMAIN s : f[i] \in Seq(S)
  BY DEF IsList
<1> HIDE DEF S
<1>3. f \in Seq(Seq(S)) /\ Len(f) = Len(s)
  BY <1>1, <1>2
<1> QED BY <1>1, <1>3, FlattenHas, ListIn

Groups == {"", "IBGP", "EBGP"}

PeerGroup(bgp, n, t) == IF t = "junos" THEN JunosGroup(bgp, n) ELSE ""

(* Prefixes as the vendor is sent them.                                    *)
SentNet(x, t) == IF t = "cisco_ios" THEN Normal(x) ELSE x

SentNets(nets, t) == IF t = "cisco_ios" THEN NormalNets(nets) ELSE nets

LEMMA SentAre ==
  ASSUME NEW nets, IsList(nets), NEW t
  PROVE  IsList(SentNets(nets, t)) /\ ToSet(SentNets(nets, t)) = {SentNet(x, t) : x \in ToSet(nets)}
<1>1. CASE t = "cisco_ios"
  <2> DEFINE S == {Normal(x) : x \in ToSet(nets)}
  <2>1. DOMAIN nets = 1 .. Len(nets) /\ Len(nets) \in Nat
    BY DEF IsList
  <2>2. NormalNets(nets) = [k \in 1 .. Len(nets) |-> Normal(nets[k])]
    BY <2>1 DEF NormalNets
  <2>3. \A k \in 1 .. Len(nets) : Normal(nets[k]) \in S
    BY <2>1 DEF ToSet
  <2>4. /\ IsList(NormalNets(nets)) /\ ToSet(NormalNets(nets)) = S
    <3>1. NormalNets(nets) \in Seq(S)
      <4> HIDE DEF S
      <4> QED BY <2>1, <2>2, <2>3
    <3>2. \A y \in S : y \in ToSet(NormalNets(nets))
      <4> SUFFICES ASSUME NEW x \in ToSet(nets) PROVE Normal(x) \in ToSet(NormalNets(nets))
        OBVIOUS
      <4>1. PICK k \in DOMAIN nets : x = nets[k]
        BY DEF ToSet
      <4>2. NormalNets(nets)[k] = Normal(x) /\ k \in DOMAIN NormalNets(nets)
        BY <2>1, <2>2, <4>1
      <4> QED BY <4>2 DEF ToSet
    <3>3. IsList(NormalNets(nets)) /\ ToSet(NormalNets(nets)) \subseteq S
      BY <3>1, ListIn
    <3> QED BY <3>2, <3>3
  <2>5. {SentNet(x, t) : x \in ToSet(nets)} = S
    BY <1>1 DEF SentNet
  <2> QED BY <1>1, <2>4, <2>5 DEF SentNets
<1>2. CASE t # "cisco_ios"
  BY <1>2 DEF SentNets, SentNet
<1> QED BY <1>1, <1>2

SaysBgp(bgp, t, s) ==
  \/ s = <<<<"bgp", "process">>, Number(bgp.asn)>>
  \/ bgp.rid # None /\ s = <<<<"bgp", "rid">>, bgp.rid>>
  \/ \E x \in ToSet(SentNets(bgp.nets, t)) : s = <<<<"bgp", "net", x>>, "on">>
  \/ \E g \in Groups : s = <<<<"bgp", "group", g>>, "on">>
  \/ \E n \in ToSet(bgp.nbrs) : s = <<<<"bgp", "peer", PeerGroup(bgp, n, t), n.ip>>, Number(n.asn)>>
  \/ \E n \in ToSet(bgp.nbrs), g \in Groups :
       \E k \in n.knobs : s = <<<<"bgp", "knob", g, n.ip, k>>, "on">>

(* A list of commands that say what the section says.                      *)
BgpList(bgp, t, cmds) == IsList(cmds) /\ \A s \in ToSet(cmds) : SaysBgp(bgp, t, s)

LEMMA BgpJoin ==
  ASSUME NEW bgp, NEW t, NEW u, NEW v, BgpList(bgp, t, u), BgpList(bgp, t, v)
  PROVE  BgpList(bgp, t, u \o v)
BY ListJoin DEF BgpList

LEMMA OneCommand ==
  ASSUME NEW s
  PROVE  IsList(<<s>>) /\ ToSet(<<s>>) = {s}
BY DEF IsList, ToSet

LEMMA NoCommand == IsList(<<>>) /\ ToSet(<<>>) = {}
BY DEF IsList, ToSet

LEMMA KnobsFinite ==
  ASSUME NEW n, NEW g, NEW known, IsFiniteSet(known)
  PROVE  IsFiniteSet({<<<<"bgp", "knob", g, n.ip, k>>, "on">> : k \in n.knobs \cap known})
<1> DEFINE knobs == {<<<<"bgp", "knob", g, n.ip, k>>, "on">> : k \in n.knobs \cap known}
<1>1. IsFiniteSet(n.knobs \cap known)
  BY FS_Intersection
<1> DEFINE D == n.knobs \cap known
           f == [k \in D |-> <<<<"bgp", "knob", g, n.ip, k>>, "on">>]
<1>2. f \in [D -> knobs] /\ \A x \in knobs : \E k \in D : f[k] = x
  OBVIOUS
<1> HIDE DEF D, f, knobs
<1>3. f \in Surjection(D, knobs)
  BY <1>2, Fun_IsSurj
<1>4. IsFiniteSet(knobs)
  BY <1>1, <1>3, FS_Surjection DEF D
<1> QED BY <1>4 DEF knobs

LEMMA PeerSays ==
  ASSUME NEW bgp, NEW t, NEW n \in ToSet(bgp.nbrs), NEW g, g = PeerGroup(bgp, n, t),
         NEW known, IsFiniteSet(known)
  PROVE  BgpList(bgp, t, PeerCommands(g, n, known))
<1> DEFINE peer == <<<<"bgp", "peer", g, n.ip>>, Number(n.asn)>>
           knobs == {<<<<"bgp", "knob", g, n.ip, k>>, "on">> : k \in n.knobs \cap known}
<1>1. BgpList(bgp, t, <<peer>>)
  <2>1. SaysBgp(bgp, t, peer)
    BY DEF SaysBgp
  <2> HIDE DEF peer
  <2> QED BY <2>1, OneCommand DEF BgpList
<1>2. BgpList(bgp, t, SetToSeq(knobs))
  <2>1. IsFiniteSet(knobs)
    BY KnobsFinite
  <2>2. \A s \in knobs : SaysBgp(bgp, t, s)
    <3>1. g \in Groups
      BY DEF PeerGroup, JunosGroup, Groups
    <3> QED BY <3>1 DEF SaysBgp
  <2> HIDE DEF knobs
  <2> QED BY <2>1, <2>2, ListOfSet, ListIn DEF BgpList
<1>3. PeerCommands(g, n, known) = <<peer>> \o SetToSeq(knobs)
  BY DEF PeerCommands
<1> QED BY <1>1, <1>2, <1>3, BgpJoin

(* And they have all that the neighbour says, of the knobs that are known. *)
LEMMA PeerHas ==
  ASSUME NEW n, NEW g, NEW known, IsFiniteSet(known)
  PROVE  /\ <<<<"bgp", "peer", g, n.ip>>, Number(n.asn)>> \in ToSet(PeerCommands(g, n, known))
         /\ \A k \in n.knobs \cap known :
              <<<<"bgp", "knob", g, n.ip, k>>, "on">> \in ToSet(PeerCommands(g, n, known))
<1> DEFINE peer == <<<<"bgp", "peer", g, n.ip>>, Number(n.asn)>>
           knobs == {<<<<"bgp", "knob", g, n.ip, k>>, "on">> : k \in n.knobs \cap known}
<1>1. IsList(<<peer>>) /\ ToSet(<<peer>>) = {peer}
  BY OneCommand
<1>2. IsList(SetToSeq(knobs)) /\ ToSet(SetToSeq(knobs)) = knobs
  <2>1. IsFiniteSet(knobs)
    BY KnobsFinite
  <2> HIDE DEF knobs
  <2> QED BY <2>1, ListOfSet, ListIn
<1>3. PeerCommands(g, n, known) = <<peer>> \o SetToSeq(knobs)
  BY DEF PeerCommands
<1>4. \A k \in n.knobs \cap known : <<<<"bgp", "knob", g, n.ip, k>>, "on">> \in knobs
  OBVIOUS
<1> HIDE DEF peer, knobs
<1>5. ToSet(PeerCommands(g, n, known)) = {peer} \cup knobs
  BY <1>1, <1>2, <1>3, ListJoin
<1> QED BY <1>4, <1>5 DEF peer

LEMMA HeadSays ==
  ASSUME NEW bgp, NEW t
  PROVE  BgpList(bgp, t, <<Process("bgp", Number(bgp.asn))>> \o RidCommands("bgp", bgp.rid))
<1> DEFINE process == <<<<"bgp", "process">>, Number(bgp.asn)>>
           rid == <<<<"bgp", "rid">>, bgp.rid>>
<1>1. BgpList(bgp, t, <<Process("bgp", Number(bgp.asn))>>)
  <2>1. SaysBgp(bgp, t, process) /\ Process("bgp", Number(bgp.asn)) = process
    BY DEF SaysBgp, Process
  <2> HIDE DEF process
  <2> QED BY <2>1, OneCommand DEF BgpList
<1>2. BgpList(bgp, t, RidCommands("bgp", bgp.rid))
  <2>1. CASE bgp.rid = None
    BY <2>1, NoCommand DEF RidCommands, BgpList
  <2>2. CASE bgp.rid # None
    <3>1. SaysBgp(bgp, t, rid) /\ RidCommands("bgp", bgp.rid) = <<rid>>
      BY <2>2 DEF SaysBgp, RidCommands
    <3> HIDE DEF rid
    <3> QED BY <3>1, OneCommand DEF BgpList
  <2> QED BY <2>1, <2>2
<1> QED BY <1>1, <1>2, BgpJoin

LEMMA NetsSay ==
  ASSUME NEW bgp, NEW t, IsList(bgp.nets)
  PROVE  BgpList(bgp, t, NetCommands(SentNets(bgp.nets, t)))
<1> DEFINE nets == SentNets(bgp.nets, t)
           S == {<<<<"bgp", "net", x>>, "on">> : x \in ToSet(nets)}
<1>1. IsList(nets)
  BY SentAre
<1>2. \A s \in S : SaysBgp(bgp, t, s)
  BY DEF SaysBgp
<1> HIDE DEF nets
<1>3. NetCommands(nets) \in Seq(S)
  <2>1. DOMAIN nets = 1 .. Len(nets) /\ Len(nets) \in Nat
    BY <1>1 DEF IsList
  <2>2. \A i \in DOMAIN nets : <<<<"bgp", "net", nets[i]>>, "on">> \in S
    BY DEF ToSet
  <2> HIDE DEF S
  <2> QED BY <2>1, <2>2 DEF NetCommands
<1> HIDE DEF S
<1>4. BgpList(bgp, t, NetCommands(nets))
  BY <1>2, <1>3, ListIn DEF BgpList
<1> QED BY <1>4 DEF nets

(* The lists of the neighbours, one after the other.                       *)
LEMMA NeighborsSay ==
  ASSUME NEW bgp, NEW t, IsList(bgp.nbrs), NEW f, f = [i \in DOMAIN bgp.nbrs |-> f[i]],
         \A i \in DOMAIN bgp.nbrs : BgpList(bgp, t, f[i])
  PROVE  BgpList(bgp, t, FlattenSeq(f))
BY EachHas DEF BgpList

PeerLists(bgp, known) == Each(bgp.nbrs, LAMBDA n : PeerCommands("", n, known))

LEMMA PeersSay ==
  ASSUME NEW bgp, NEW t, t # "junos", IsList(bgp.nbrs), NEW known, IsFiniteSet(known)
  PROVE  BgpList(bgp, t, PeerLists(bgp, known))
<1> DEFINE f == [i \in DOMAIN bgp.nbrs |-> PeerCommands("", bgp.nbrs[i], known)]
<1>1. PeerLists(bgp, known) = FlattenSeq(f)
  BY DEF PeerLists, Each
<1>2. \A i \in DOMAIN bgp.nbrs : BgpList(bgp, t, f[i])
  BY PeerSays DEF ToSet, PeerGroup
<1>3. f = [i \in DOMAIN bgp.nbrs |-> f[i]]
  OBVIOUS
<1> HIDE DEF f
<1> QED BY <1>1, <1>2, <1>3, NeighborsSay

GroupLists(bgp) ==
  Each(bgp.nbrs, LAMBDA n :
    <<<<<<"bgp", "group", JunosGroup(bgp, n)>>, "on">>>>
      \o PeerCommands(JunosGroup(bgp, n), n, {"description"}))

LEMMA GroupsSay ==
  ASSUME NEW bgp, NEW t, t = "junos", IsList(bgp.nbrs)
  PROVE  BgpList(bgp, t, GroupLists(bgp))
<1> DEFINE group(n) == <<<<"bgp", "group", JunosGroup(bgp, n)>>, "on">>
           Op(n) == <<group(n)>> \o PeerCommands(JunosGroup(bgp, n), n, {"description"})
           f == [i \in DOMAIN bgp.nbrs |-> Op(bgp.nbrs[i])]
<1>1. GroupLists(bgp) = FlattenSeq(f)
  BY DEF GroupLists, Each
<1>2. ASSUME NEW i \in DOMAIN bgp.nbrs
      PROVE  BgpList(bgp, t, f[i])
  <2> DEFINE n == bgp.nbrs[i]
  <2>1. n \in ToSet(bgp.nbrs) /\ JunosGroup(bgp, n) \in Groups
    BY DEF ToSet, JunosGroup, Groups
  <2>2. f[i] = Op(n)
    OBVIOUS
  <2> HIDE DEF n, f
  <2>3. BgpList(bgp, t, PeerCommands(JunosGroup(bgp, n), n, {"description"}))
    BY <2>1, PeerSays, FS_Singleton DEF PeerGroup
  <2>4. SaysBgp(bgp, t, group(n))
    BY <2>1 DEF SaysBgp
  <2>5. BgpList(bgp, t, <<group(n)>>)
    <3> HIDE DEF group
    <3> QED BY <2>4, OneCommand DEF BgpList
  <2> QED BY <2>2, <2>3, <2>5, BgpJoin
<1>3. f = [i \in DOMAIN bgp.nbrs |-> f[i]]
  OBVIOUS
<1> HIDE DEF f
<1> QED BY <1>1, <1>2, <1>3, NeighborsSay

LEMMA PeersHave ==
  ASSUME NEW bgp, IsList(bgp.nbrs), NEW known, IsFiniteSet(known), NEW n \in ToSet(bgp.nbrs)
  PROVE  ToSet(PeerCommands("", n, known)) \subseteq ToSet(PeerLists(bgp, known))
<1> DEFINE f == [i \in DOMAIN bgp.nbrs |-> PeerCommands("", bgp.nbrs[i], known)]
<1>1. PeerLists(bgp, known) = FlattenSeq(f)
  BY DEF PeerLists, Each
<1>2. \A i \in DOMAIN bgp.nbrs : BgpList(bgp, "cisco_xr", f[i])
  BY PeerSays DEF ToSet, PeerGroup
<1>3. f = [i \in DOMAIN bgp.nbrs |-> f[i]]
  OBVIOUS
<1>4. PICK i \in DOMAIN bgp.nbrs : n = bgp.nbrs[i]
  BY DEF ToSet
<1>5. f[i] = PeerCommands("", n, known)
  BY <1>4
<1> HIDE DEF f
<1> QED BY <1>1, <1>2, <1>3, <1>5, EachHas DEF BgpList

LEMMA GroupsHave ==
  ASSUME NEW bgp, NEW t, t = "junos", IsList(bgp.nbrs), NEW n \in ToSet(bgp.nbrs)
  PROVE  ToSet(PeerCommands(JunosGroup(bgp, n), n, {"description"})) \subseteq ToSet(GroupLists(bgp))
<1> DEFINE group(m) == <<<<"bgp", "group", JunosGroup(bgp, m)>>, "on">>
           Peer(m) == PeerCommands(JunosGroup(bgp, m), m, {"description"})
           f == [i \in DOMAIN bgp.nbrs |-> <<group(bgp.nbrs[i])>> \o Peer(bgp.nbrs[i])]
<1>1. GroupLists(bgp) = FlattenSeq(f)
  BY DEF GroupLists, Each
<1>2. ASSUME NEW i \in DOMAIN bgp.nbrs
      PROVE  IsList(f[i]) /\ ToSet(Peer(bgp.nbrs[i])) \subseteq ToSet(f[i])
  <2> DEFINE m == bgp.nbrs[i]
  <2>1. m \in ToSet(bgp.nbrs) /\ JunosGroup(bgp, m) \in Groups
    BY DEF ToSet, JunosGroup, Groups
  <2>2. f[i] = <<group(m)>> \o Peer(m)
    OBVIOUS
  <2> HIDE DEF m, f
  <2>3. IsList(Peer(m))
    BY <2>1, PeerSays, FS_Singleton DEF BgpList, PeerGroup
  <2> HIDE DEF group, Peer
  <2>4. IsList(f[i]) /\ ToSet(Peer(m)) \subseteq ToSet(f[i])
    BY <2>2, <2>3, OneCommand, ListJoin
  <2> QED BY <2>4 DEF m
<1>3. f = [i \in DOMAIN bgp.nbrs |-> f[i]]
  OBVIOUS
<1>4. PICK i \in DOMAIN bgp.nbrs : n = bgp.nbrs[i]
  BY DEF ToSet
<1> HIDE DEF f
<1>5. ToSet(f[i]) \subseteq ToSet(FlattenSeq(f))
  BY <1>2, <1>3, EachHas
<1> QED BY <1>1, <1>2, <1>4, <1>5

LEMMA FewAreFinite ==
  ASSUME NEW a, NEW b, NEW c, NEW d
  PROVE  IsFiniteSet({a, b, c}) /\ IsFiniteSet({a, b, c, d})
<1>1. IsFiniteSet({a} \cup {b})
  BY FS_Singleton, FS_Union
<1>2. IsFiniteSet(({a} \cup {b}) \cup {c})
  BY <1>1, FS_Singleton, FS_Union
<1>3. IsFiniteSet((({a} \cup {b}) \cup {c}) \cup {d})
  BY <1>2, FS_Singleton, FS_Union
<1>4. /\ {a, b, c} = ({a} \cup {b}) \cup {c}
      /\ {a, b, c, d} = (({a} \cup {b}) \cup {c}) \cup {d}
  OBVIOUS
<1> QED BY <1>2, <1>3, <1>4

(* On every vendor the BGP commands say what the BGP section says.         *)
LEMMA BgpSays ==
  ASSUME NEW bgp, IsList(bgp.nbrs), IsList(bgp.nets), NEW t \in Vendors
  PROVE  BgpList(bgp, t, BgpCommands(bgp, t))
<1> DEFINE head == <<Process("bgp", Number(bgp.asn))>> \o RidCommands("bgp", bgp.rid)
           nets == NetCommands(SentNets(bgp.nets, t))
<1>1. t # "junos" => \A known : IsFiniteSet(known) => BgpList(bgp, t, PeerLists(bgp, known))
  BY PeersSay
<1>2. BgpList(bgp, t, head) /\ BgpList(bgp, t, nets)
  BY HeadSays, NetsSay
<1>3. CASE t = "cisco_xr"
  <2> DEFINE known == {"description", "shutdown", "next_hop_self", "soft_reconfiguration"}
  <2>1. BgpCommands(bgp, t) = (head \o nets) \o PeerLists(bgp, known)
    BY <1>3 DEF BgpCommands, XrBgp, PeerLists, SentNets
  <2>2. IsFiniteSet(known)
    BY FewAreFinite
  <2> HIDE DEF known, head, nets
  <2> QED BY <1>1, <1>2, <1>3, <2>1, <2>2, BgpJoin
<1>4. CASE t = "cisco_ios"
  <2> DEFINE known == {"description", "password", "shutdown"}
  <2>1. BgpCommands(bgp, t) = (head \o PeerLists(bgp, known)) \o nets
    BY <1>4 DEF BgpCommands, IosBgp, PeerLists, SentNets
  <2>2. IsFiniteSet(known)
    BY FewAreFinite
  <2> HIDE DEF known, head, nets
  <2> QED BY <1>1, <1>2, <1>4, <2>1, <2>2, BgpJoin
<1>5. CASE t = "arista_eos"
  <2> DEFINE known == {"description"}
  <2>1. BgpCommands(bgp, t) = (head \o PeerLists(bgp, known)) \o nets
    BY <1>5 DEF BgpCommands, EosBgp, PeerLists, SentNets
  <2>2. IsFiniteSet(known)
    BY FS_Singleton
  <2> HIDE DEF known, head, nets
  <2> QED BY <1>1, <1>2, <1>5, <2>1, <2>2, BgpJoin
<1>6. CASE t = "junos"
  <2>1. BgpCommands(bgp, t) = (head \o GroupLists(bgp)) \o nets
    <3>1. BgpCommands(bgp, t) = JunosBgp(bgp)
      BY <1>6 DEF BgpCommands
    <3> QED BY <1>6, <3>1, Zenon DEF JunosBgp, GroupLists, SentNets
  <2>2. BgpList(bgp, t, GroupLists(bgp))
    BY <1>6, GroupsSay
  <2> HIDE DEF head, nets
  <2> QED BY <1>2, <2>1, <2>2, BgpJoin
<1>7. CASE t = "nokia_sros"
  BY <1>7, NoCommand DEF BgpCommands, BgpList
<1> QED BY <1>3, <1>4, <1>5, <1>6, <1>7 DEF Vendors

(* And they have what it says of networks, AS numbers and shutdowns.       *)
BgpHas(bgp, t, cmds) ==
  /\ \A x \in ToSet(SentNets(bgp.nets, t)) : <<<<"bgp", "net", x>>, "on">> \in ToSet(cmds)
  /\ \A n \in ToSet(bgp.nbrs) :
       \E g \in Groups : <<<<"bgp", "peer", g, n.ip>>, Number(n.asn)>> \in ToSet(cmds)
  /\ t \in {"cisco_xr", "cisco_ios"} =>
       \A n \in ToSet(bgp.nbrs) : "shutdown" \in n.knobs =>
         <<<<"bgp", "knob", "", n.ip, "shutdown">>, "on">> \in ToSet(cmds)

LEMMA NetsHave ==
  ASSUME NEW nets, NEW x \in ToSet(nets)
  PROVE  <<<<"bgp", "net", x>>, "on">> \in ToSet(NetCommands(nets))
<1>1. PICK i \in DOMAIN nets : x = nets[i]
  BY DEF ToSet
<1>2. DOMAIN NetCommands(nets) = DOMAIN nets
  BY DEF NetCommands
<1>3. NetCommands(nets)[i] = <<<<"bgp", "net", x>>, "on">>
  BY <1>1 DEF NetCommands
<1> QED BY <1>2, <1>3 DEF ToSet

LEMMA WithPeersHas ==
  ASSUME NEW bgp, NEW t, t # "junos", IsList(bgp.nbrs), NEW known, IsFiniteSet(known), NEW cmds,
         t \in {"cisco_xr", "cisco_ios"} => "shutdown" \in known,
         ToSet(PeerLists(bgp, known)) \subseteq ToSet(cmds),
         ToSet(NetCommands(SentNets(bgp.nets, t))) \subseteq ToSet(cmds)
  PROVE  BgpHas(bgp, t, cmds)
<1>1. \A x \in ToSet(SentNets(bgp.nets, t)) : <<<<"bgp", "net", x>>, "on">> \in ToSet(cmds)
  BY NetsHave
<1>2. ASSUME NEW n \in ToSet(bgp.nbrs)
      PROVE  /\ <<<<"bgp", "peer", "", n.ip>>, Number(n.asn)>> \in ToSet(cmds)
             /\ t \in {"cisco_xr", "cisco_ios"} /\ "shutdown" \in n.knobs =>
                  <<<<"bgp", "knob", "", n.ip, "shutdown">>, "on">> \in ToSet(cmds)
  <2>1. ToSet(PeerCommands("", n, known)) \subseteq ToSet(cmds)
    BY PeersHave
  <2>2. /\ <<<<"bgp", "peer", "", n.ip>>, Number(n.asn)>> \in ToSet(PeerCommands("", n, known))
        /\ \A k \in n.knobs \cap known :
             <<<<"bgp", "knob", "", n.ip, k>>, "on">> \in ToSet(PeerCommands("", n, known))
    BY PeerHas
  <2> QED BY <2>1, <2>2
<1>3. "" \in Groups
  BY DEF Groups
<1> QED BY <1>1, <1>2, <1>3 DEF BgpHas

LEMMA BgpHolds ==
  ASSUME NEW bgp, IsList(bgp.nbrs), IsList(bgp.nets), NEW t \in Vendors \ {"nokia_sros"}
  PROVE  BgpHas(bgp, t, BgpCommands(bgp, t))
<1> DEFINE head == <<Process("bgp", Number(bgp.asn))>> \o RidCommands("bgp", bgp.rid)
           nets == NetCommands(SentNets(bgp.nets, t))
           cmds == BgpCommands(bgp, t)
<1>1. t # "junos" => \A known : IsFiniteSet(known) => IsList(PeerLists(bgp, known))
  BY PeersSay DEF BgpList
<1>2. IsList(head) /\ IsList(nets)
  BY HeadSays, NetsSay DEF BgpList
<1>3. CASE t = "cisco_xr"
  <2> DEFINE known == {"description", "shutdown", "next_hop_self", "soft_reconfiguration"}
  <2>1. cmds = (head \o nets) \o PeerLists(bgp, known)
    BY <1>3 DEF BgpCommands, XrBgp, PeerLists, SentNets
  <2>2. IsFiniteSet(known) /\ "shutdown" \in known
    BY FewAreFinite
  <2> HIDE DEF known, head, nets, cmds
  <2>3. ToSet(cmds) = (ToSet(head) \cup ToSet(nets)) \cup ToSet(PeerLists(bgp, known))
    BY <1>1, <1>2, <1>3, <2>1, <2>2, ListJoin
  <2>4. BgpHas(bgp, t, cmds)
    BY <1>3, <2>2, <2>3, WithPeersHas DEF nets
  <2> QED BY <2>4 DEF cmds
<1>4. CASE t = "cisco_ios"
  <2> DEFINE known == {"description", "password", "shutdown"}
  <2>1. cmds = (head \o PeerLists(bgp, known)) \o nets
    BY <1>4 DEF BgpCommands, IosBgp, PeerLists, SentNets
  <2>2. IsFiniteSet(known) /\ "shutdown" \in known
    BY FewAreFinite
  <2> HIDE DEF known, head, nets, cmds
  <2>3. ToSet(cmds) = (ToSet(head) \cup ToSet(PeerLists(bgp, known))) \cup ToSet(nets)
    BY <1>1, <1>2, <1>4, <2>1, <2>2, ListJoin
  <2>4. BgpHas(bgp, t, cmds)
    BY <1>4, <2>2, <2>3, WithPeersHas DEF nets
  <2> QED BY <2>4 DEF cmds
<1>5. CASE t = "arista_eos"
  <2> DEFINE known == {"description"}
  <2>1. cmds = (head \o PeerLists(bgp, known)) \o nets
    BY <1>5 DEF BgpCommands, EosBgp, PeerLists, SentNets
  <2>2. IsFiniteSet(known)
    BY FS_Singleton
  <2> HIDE DEF known, head, nets, cmds
  <2>3. ToSet(cmds) = (ToSet(head) \cup ToSet(PeerLists(bgp, known))) \cup ToSet(nets)
    BY <1>1, <1>2, <1>5, <2>1, <2>2, ListJoin
  <2>4. BgpHas(bgp, t, cmds)
    BY <1>5, <2>2, <2>3, WithPeersHas DEF nets
  <2> QED BY <2>4 DEF cmds
<1>6. CASE t = "junos"
  <2>1. cmds = (head \o GroupLists(bgp)) \o nets
    <3>1. cmds = JunosBgp(bgp)
      BY <1>6 DEF BgpCommands
    <3> QED BY <1>6, <3>1, Zenon DEF JunosBgp, GroupLists, SentNets
  <2>2. IsList(GroupLists(bgp))
    BY <1>6, GroupsSay DEF BgpList
  <2> HIDE DEF head, nets, cmds
  <2>3. ToSet(cmds) = (ToSet(head) \cup ToSet(GroupLists(bgp))) \cup ToSet(nets)
    BY <1>2, <2>1, <2>2, ListJoin
  <2>4. \A x \in ToSet(SentNets(bgp.nets, t)) : <<<<"bgp", "net", x>>, "on">> \in ToSet(cmds)
    BY <2>3, NetsHave DEF nets
  <2>5. ASSUME NEW n \in ToSet(bgp.nbrs)
        PROVE  \E g \in Groups : <<<<"bgp", "peer", g, n.ip>>, Number(n.asn)>> \in ToSet(cmds)
    <3> DEFINE g == JunosGroup(bgp, n)
    <3>1. g \in Groups
      BY DEF JunosGroup, Groups
    <3>2. <<<<"bgp", "peer", g, n.ip>>, Number(n.asn)>> \in ToSet(PeerCommands(g, n, {"description"}))
      BY PeerHas, FS_Singleton
    <3>3. ToSet(PeerCommands(g, n, {"description"})) \subseteq ToSet(cmds)
      BY <1>6, <2>3, GroupsHave
    <3> QED BY <3>1, <3>2, <3>3
  <2>6. BgpHas(bgp, t, cmds)
    BY <1>6, <2>4, <2>5 DEF BgpHas
  <2> QED BY <2>6 DEF cmds
<1> QED BY <1>3, <1>4, <1>5, <1>6 DEF Vendors

-----------------------------------------------------------------------------
(* The same of OSPF.                                                       *)

NumberOf(a, t) == IF t = "junos" THEN JunosAreaNumber(a) ELSE AreaNumber(a)

SaysOspf(ospf, t, s) ==
  \/ s = <<<<"ospf", "process">>, IF ospf.pid = None THEN 1 ELSE Number(ospf.pid)>>
  \/ ospf.rid # None /\ s = <<<<"ospf", "rid">>, ospf.rid>>
  \/ \E a \in ToSet(ospf.areas) :
       \/ a.type \in {"stub", "nssa"} /\ s = <<<<"ospf", "type", NumberOf(a, t)>>, a.type>>
       \/ \E x \in ToSet(SentNets(a.nets, t)) :
            /\ t # "junos"
            /\ s = <<<<"ospf", "area", NumberOf(a, t), "net", x>>, "on">>
       \/ \E x \in a.ifs :
            /\ t \in {"cisco_xr", "junos"}
            /\ s = <<<<"ospf", "area", NumberOf(a, t), "interface", x>>, "on">>

OspfList(ospf, t, cmds) == IsList(cmds) /\ \A s \in ToSet(cmds) : SaysOspf(ospf, t, s)

LEMMA OspfJoin ==
  ASSUME NEW ospf, NEW t, NEW u, NEW v, OspfList(ospf, t, u), OspfList(ospf, t, v)
  PROVE  OspfList(ospf, t, u \o v)
BY ListJoin DEF OspfList

LEMMA OspfHeadSays ==
  ASSUME NEW ospf, NEW t
  PROVE  OspfList(ospf, t, <<OspfProcess(ospf)>> \o RidCommands("ospf", ospf.rid))
<1> DEFINE process == <<<<"ospf", "process">>, IF ospf.pid = None THEN 1 ELSE Number(ospf.pid)>>
           rid == <<<<"ospf", "rid">>, ospf.rid>>
<1>1. OspfList(ospf, t, <<OspfProcess(ospf)>>)
  <2>1. SaysOspf(ospf, t, process) /\ OspfProcess(ospf) = process
    BY DEF SaysOspf, OspfProcess, Process
  <2> HIDE DEF process
  <2> QED BY <2>1, OneCommand DEF OspfList
<1>2. OspfList(ospf, t, RidCommands("ospf", ospf.rid))
  <2>1. CASE ospf.rid = None
    BY <2>1, NoCommand DEF RidCommands, OspfList
  <2>2. CASE ospf.rid # None
    <3>1. SaysOspf(ospf, t, rid) /\ RidCommands("ospf", ospf.rid) = <<rid>>
      BY <2>2 DEF SaysOspf, RidCommands
    <3> HIDE DEF rid
    <3> QED BY <3>1, OneCommand DEF OspfList
  <2> QED BY <2>1, <2>2
<1> QED BY <1>1, <1>2, OspfJoin

LEMMA MembersFinite ==
  ASSUME NEW s, IsList(s)
  PROVE  IsFiniteSet(ToSet(s))
<1>1. DOMAIN s = 1 .. Len(s) /\ Len(s) \in Nat
  BY DEF IsList
<1>2. IsFiniteSet(DOMAIN s)
  BY <1>1, FS_Interval
<1> DEFINE f == [i \in DOMAIN s |-> s[i]]
<1>3. f \in [DOMAIN s -> ToSet(s)] /\ \A x \in ToSet(s) : \E i \in DOMAIN s : f[i] = x
  BY DEF ToSet
<1> HIDE DEF f
<1>4. f \in Surjection(DOMAIN s, ToSet(s))
  BY <1>3, Fun_IsSurj
<1> QED BY <1>2, <1>4, FS_Surjection

LEMMA AreaSays ==
  ASSUME NEW ospf, NEW t, NEW a \in ToSet(ospf.areas), NEW what, NEW items, IsFiniteSet(items),
         \/ what = "net" /\ items = ToSet(SentNets(a.nets, t)) /\ t # "junos"
         \/ what = "interface" /\ items = a.ifs /\ t \in {"cisco_xr", "junos"}
  PROVE  OspfList(ospf, t, AreaCommands(NumberOf(a, t), what, items))
<1> DEFINE S == {<<<<"ospf", "area", NumberOf(a, t), what, x>>, "on">> : x \in items}
           f == [x \in items |-> <<<<"ospf", "area", NumberOf(a, t), what, x>>, "on">>]
<1>1. f \in [items -> S] /\ \A y \in S : \E x \in items : f[x] = y
  OBVIOUS
<1>2. \A s \in S : SaysOspf(ospf, t, s)
  <2>1. CASE what = "net" /\ items = ToSet(SentNets(a.nets, t)) /\ t # "junos"
    BY <2>1 DEF SaysOspf
  <2>2. CASE what = "interface" /\ items = a.ifs /\ t \in {"cisco_xr", "junos"}
    BY <2>2 DEF SaysOspf
  <2> QED BY <2>1, <2>2
<1>3. AreaCommands(NumberOf(a, t), what, items) = SetToSeq(S)
  BY DEF AreaCommands
<1> HIDE DEF S, f
<1>4. IsFiniteSet(S)
  <2>1. f \in Surjection(items, S)
    BY <1>1, Fun_IsSurj
  <2> QED BY <2>1, FS_Surjection
<1> QED BY <1>2, <1>3, <1>4, ListOfSet, ListIn DEF OspfList

LEMMA TypeSays ==
  ASSUME NEW ospf, NEW t, NEW a \in ToSet(ospf.areas)
  PROVE  OspfList(ospf, t, TypeCommands(NumberOf(a, t), a))
<1> DEFINE s == <<<<"ospf", "type", NumberOf(a, t)>>, a.type>>
<1>1. CASE a.type \in {"stub", "nssa"}
  <2>1. SaysOspf(ospf, t, s) /\ TypeCommands(NumberOf(a, t), a) = <<s>>
    BY <1>1 DEF SaysOspf, TypeCommands
  <2> HIDE DEF s
  <2> QED BY <2>1, OneCommand DEF OspfList
<1>2. CASE a.type \notin {"stub", "nssa"}
  BY <1>2, NoCommand DEF TypeCommands, OspfList
<1> QED BY <1>1, <1>2

IsAreas(ospf) ==
  IsList(ospf.areas) /\ \A a \in ToSet(ospf.areas) : IsList(a.nets) /\ IsFiniteSet(a.ifs)

(* What an area's commands are, as far as the vendor's function emits them.*)
Covers(a, t, cmds) ==
  /\ t \in {"cisco_ios", "junos"} => ToSet(TypeCommands(NumberOf(a, t), a)) \subseteq ToSet(cmds)
  /\ t # "junos" =>
       ToSet(AreaCommands(NumberOf(a, t), "net", ToSet(SentNets(a.nets, t)))) \subseteq ToSet(cmds)
  /\ t \in {"cisco_xr", "junos"} =>
       ToSet(AreaCommands(NumberOf(a, t), "interface", a.ifs)) \subseteq ToSet(cmds)

LEMMA CoversMore ==
  ASSUME NEW a, NEW t, NEW u, NEW v, Covers(a, t, u), ToSet(u) \subseteq ToSet(v)
  PROVE  Covers(a, t, v)
BY DEF Covers

LEMMA AreasCover ==
  ASSUME NEW ospf, NEW t, IsList(ospf.areas), NEW head, IsList(head),
         NEW f, f = [i \in DOMAIN ospf.areas |-> f[i]],
         \A i \in DOMAIN ospf.areas : OspfList(ospf, t, f[i]) /\ Covers(ospf.areas[i], t, f[i])
  PROVE  \A a \in ToSet(ospf.areas) : Covers(a, t, FlattenSeq(f)) /\ Covers(a, t, head \o FlattenSeq(f))
<1> SUFFICES ASSUME NEW a \in ToSet(ospf.areas)
             PROVE  Covers(a, t, FlattenSeq(f)) /\ Covers(a, t, head \o FlattenSeq(f))
  OBVIOUS
<1>1. PICK i \in DOMAIN ospf.areas : a = ospf.areas[i]
  BY DEF ToSet
<1>2. IsList(FlattenSeq(f)) /\ ToSet(f[i]) \subseteq ToSet(FlattenSeq(f))
  BY EachHas DEF OspfList
<1>3. ToSet(FlattenSeq(f)) \subseteq ToSet(head \o FlattenSeq(f))
  BY <1>2, ListJoin
<1>4. Covers(a, t, FlattenSeq(f))
  BY <1>1, <1>2, CoversMore
<1> QED BY <1>3, <1>4, CoversMore

LEMMA AreasSay ==
  ASSUME NEW ospf, NEW t, IsList(ospf.areas), NEW f, f = [i \in DOMAIN ospf.areas |-> f[i]],
         \A i \in DOMAIN ospf.areas : OspfList(ospf, t, f[i])
  PROVE  OspfList(ospf, t, FlattenSeq(f))
BY EachHas DEF OspfList

(* On every vendor the OSPF commands say what the OSPF section says.       *)
LEMMA OspfSays ==
  ASSUME NEW ospf, IsAreas(ospf), NEW t \in Vendors
  PROVE  /\ OspfList(ospf, t, OspfCommands(ospf, t))
         /\ t # "nokia_sros" =>
              \A a \in ToSet(ospf.areas) : Covers(a, t, OspfCommands(ospf, t))
<1> DEFINE head == <<OspfProcess(ospf)>> \o RidCommands("ospf", ospf.rid)
           nets(a) == AreaCommands(NumberOf(a, t), "net", ToSet(SentNets(a.nets, t)))
           ifs(a) == AreaCommands(NumberOf(a, t), "interface", a.ifs)
           type1(a) == TypeCommands(NumberOf(a, t), a)
<1>1. OspfList(ospf, t, head)
  BY OspfHeadSays
<1>2. ASSUME NEW i \in DOMAIN ospf.areas
      PROVE  /\ t # "junos" => OspfList(ospf, t, nets(ospf.areas[i]))
             /\ t \in {"cisco_xr", "junos"} => OspfList(ospf, t, ifs(ospf.areas[i]))
             /\ OspfList(ospf, t, type1(ospf.areas[i]))
  <2> DEFINE a == ospf.areas[i]
  <2>1. a \in ToSet(ospf.areas)
    BY DEF ToSet
  <2>2. IsFiniteSet(ToSet(SentNets(a.nets, t))) /\ IsFiniteSet(a.ifs)
    <3>1. IsList(SentNets(a.nets, t)) /\ IsFiniteSet(a.ifs)
      BY <2>1, SentAre DEF IsAreas
    <3> QED BY <3>1, MembersFinite
  <2> HIDE DEF a
  <2>3. /\ t # "junos" => OspfList(ospf, t, nets(a))
        /\ t \in {"cisco_xr", "junos"} => OspfList(ospf, t, ifs(a))
        /\ OspfList(ospf, t, type1(a))
    BY <2>1, <2>2, AreaSays, TypeSays
  <2> QED BY <2>3 DEF a
<1>3. IsList(ospf.areas)
  BY DEF IsAreas
<1>4. CASE t = "cisco_xr"
  <2> DEFINE f == [i \in DOMAIN ospf.areas |-> nets(ospf.areas[i]) \o ifs(ospf.areas[i])]
  <2>1. OspfCommands(ospf, t) = head \o FlattenSeq(f)
    BY <1>4 DEF OspfCommands, XrOspf, Each, NumberOf, SentNets
  <2>2. /\ f = [i \in DOMAIN ospf.areas |-> f[i]]
        /\ \A i \in DOMAIN ospf.areas : f[i] = nets(ospf.areas[i]) \o ifs(ospf.areas[i])
    OBVIOUS
  <2> HIDE DEF f, head
  <2>3. ASSUME NEW i \in DOMAIN ospf.areas
        PROVE  OspfList(ospf, t, f[i]) /\ Covers(ospf.areas[i], t, f[i])
    <3> DEFINE u == nets(ospf.areas[i])
               v == ifs(ospf.areas[i])
    <3>1. OspfList(ospf, t, u) /\ OspfList(ospf, t, v)
      BY <1>2, <1>4
    <3>2. f[i] = u \o v
      BY <2>2
    <3> HIDE DEF u, v
    <3>3. OspfList(ospf, t, f[i]) /\ ToSet(f[i]) = ToSet(u) \cup ToSet(v)
      BY <3>1, <3>2, OspfJoin, ListJoin DEF OspfList
    <3>4. Covers(ospf.areas[i], t, f[i])
      BY <1>4, <3>3 DEF Covers, u, v
    <3> QED BY <3>3, <3>4
  <2> HIDE DEF nets, ifs, type1
  <2>4. OspfList(ospf, t, FlattenSeq(f))
    BY <1>3, <2>2, <2>3, AreasSay
  <2>5. OspfList(ospf, t, head \o FlattenSeq(f))
    BY <1>1, <2>4, OspfJoin
  <2>6. \A a \in ToSet(ospf.areas) : Covers(a, t, head \o FlattenSeq(f))
    BY <1>1, <1>3, <2>2, <2>3, AreasCover DEF OspfList
  <2> QED BY <2>1, <2>5, <2>6
<1>5. CASE t = "cisco_ios"
  <2> DEFINE f == [i \in DOMAIN ospf.areas |-> type1(ospf.areas[i]) \o nets(ospf.areas[i])]
  <2>1. OspfCommands(ospf, t) = head \o FlattenSeq(f)
    BY <1>5 DEF OspfCommands, IosOspf, Each, NumberOf, SentNets
  <2>2. /\ f = [i \in DOMAIN ospf.areas |-> f[i]]
        /\ \A i \in DOMAIN ospf.areas : f[i] = type1(ospf.areas[i]) \o nets(ospf.areas[i])
    OBVIOUS
  <2> HIDE DEF f, head
  <2>3. ASSUME NEW i \in DOMAIN ospf.areas
        PROVE  OspfList(ospf, t, f[i]) /\ Covers(ospf.areas[i], t, f[i])
    <3> DEFINE u == type1(ospf.areas[i])
               v == nets(ospf.areas[i])
    <3>1. OspfList(ospf, t, u) /\ OspfList(ospf, t, v)
      BY <1>2, <1>5
    <3>2. f[i] = u \o v
      BY <2>2
    <3> HIDE DEF u, v
    <3>3. OspfList(ospf, t, f[i]) /\ ToSet(f[i]) = ToSet(u) \cup ToSet(v)
      BY <3>1, <3>2, OspfJoin, ListJoin DEF OspfList
    <3>4. Covers(ospf.areas[i], t, f[i])
      BY <1>5, <3>3 DEF Covers, u, v
    <3> QED BY <3>3, <3>4
  <2> HIDE DEF nets, ifs, type1
  <2>4. OspfList(ospf, t, FlattenSeq(f))
    BY <1>3, <2>2, <2>3, AreasSay
  <2>5. OspfList(ospf, t, head \o FlattenSeq(f))
    BY <1>1, <2>4, OspfJoin
  <2>6. \A a \in ToSet(ospf.areas) : Covers(a, t, head \o FlattenSeq(f))
    BY <1>1, <1>3, <2>2, <2>3, AreasCover DEF OspfList
  <2> QED BY <2>1, <2>5, <2>6
<1>6. CASE t = "junos"
  <2> DEFINE f == [i \in DOMAIN ospf.areas |-> type1(ospf.areas[i]) \o ifs(ospf.areas[i])]
  <2>1. OspfCommands(ospf, t) = FlattenSeq(f)
    BY <1>6 DEF OspfCommands, JunosOspf, Each, NumberOf
  <2>2. /\ f = [i \in DOMAIN ospf.areas |-> f[i]]
        /\ \A i \in DOMAIN ospf.areas : f[i] = type1(ospf.areas[i]) \o ifs(ospf.areas[i])
    OBVIOUS
  <2> HIDE DEF f, head
  <2>3. ASSUME NEW i \in DOMAIN ospf.areas
        PROVE  OspfList(ospf, t, f[i]) /\ Covers(ospf.areas[i], t, f[i])
    <3> DEFINE u == type1(ospf.areas[i])
               v == ifs(ospf.areas[i])
    <3>1. OspfList(ospf, t, u) /\ OspfList(ospf, t, v)
      BY <1>2, <1>6
    <3>2. f[i] = u \o v
      BY <2>2
    <3> HIDE DEF u, v
    <3>3. OspfList(ospf, t, f[i]) /\ ToSet(f[i]) = ToSet(u) \cup ToSet(v)
      BY <3>1, <3>2, OspfJoin, ListJoin DEF OspfList
    <3>4. Covers(ospf.areas[i], t, f[i])
      BY <1>6, <3>3 DEF Covers, u, v
    <3> QED BY <3>3, <3>4
  <2> HIDE DEF nets, ifs, type1
  <2>4. OspfList(ospf, t, FlattenSeq(f))
    BY <1>3, <2>2, <2>3, AreasSay
  <2>5. \A a \in ToSet(ospf.areas) : Covers(a, t, FlattenSeq(f))
    BY <1>1, <1>3, <2>2, <2>3, AreasCover DEF OspfList
  <2> QED BY <2>1, <2>4, <2>5
<1>7. CASE t = "arista_eos"
  <2> DEFINE f == [i \in DOMAIN ospf.areas |-> nets(ospf.areas[i])]
  <2>1. OspfCommands(ospf, t) = head \o FlattenSeq(f)
    BY <1>7 DEF OspfCommands, EosOspf, Each, NumberOf, SentNets
  <2>2. /\ f = [i \in DOMAIN ospf.areas |-> f[i]]
        /\ \A i \in DOMAIN ospf.areas : f[i] = nets(ospf.areas[i])
    OBVIOUS
  <2> HIDE DEF f, head
  <2>3. ASSUME NEW i \in DOMAIN ospf.areas
        PROVE  OspfList(ospf, t, f[i]) /\ Covers(ospf.areas[i], t, f[i])
    <3>1. f[i] = nets(ospf.areas[i])
      BY <2>2
    <3> QED BY <1>2, <1>7, <3>1 DEF Covers
  <2> HIDE DEF nets, ifs, type1
  <2>4. OspfList(ospf, t, FlattenSeq(f))
    BY <1>3, <2>2, <2>3, AreasSay
  <2>5. OspfList(ospf, t, head \o FlattenSeq(f))
    BY <1>1, <2>4, OspfJoin
  <2>6. \A a \in ToSet(ospf.areas) : Covers(a, t, head \o FlattenSeq(f))
    BY <1>1, <1>3, <2>2, <2>3, AreasCover DEF OspfList
  <2> QED BY <2>1, <2>5, <2>6
<1>8. CASE t = "nokia_sros"
  BY <1>8, NoCommand DEF OspfCommands, OspfList
<1> QED BY <1>4, <1>5, <1>6, <1>7, <1>8 DEF Vendors

(* And of both sections together.                                          *)
Says(c, t, s) ==
  \/ Given(c.bgp) /\ SaysBgp(c.bgp, t, s)
  \/ Given(c.ospf) /\ SaysOspf(c.ospf, t, s)

LEMMA BuildSays ==
  ASSUME NEW c, IsConfig(c), NEW t \in Vendors
  PROVE  IsList(Build(c, t)) /\ \A s \in ToSet(Build(c, t)) : Says(c, t, s)
<1> DEFINE u == IF Given(c.bgp) THEN BgpCommands(c.bgp, t) ELSE <<>>
           v == IF Given(c.ospf) THEN OspfCommands(c.ospf, t) ELSE <<>>
<1>1. IsList(u) /\ \A s \in ToSet(u) : Given(c.bgp) /\ SaysBgp(c.bgp, t, s)
  BY BgpSays, NoCommand DEF IsConfig, BgpList
<1>2. IsList(v) /\ \A s \in ToSet(v) : Given(c.ospf) /\ SaysOspf(c.ospf, t, s)
  BY OspfSays, NoCommand DEF IsConfig, IsAreas, OspfList
<1>3. Build(c, t) = u \o v
  BY DEF Build
<1> HIDE DEF u, v
<1> QED BY <1>1, <1>2, <1>3, ListJoin DEF Says

-----------------------------------------------------------------------------
(* What commands that say this can and cannot do.                          *)

LEMMA SetAtFrom ==
  ASSUME NEW cmds, NEW positions \in SUBSET DOMAIN cmds
  PROVE  SetAt(cmds, positions) \subseteq ToSet(cmds)
BY DEF SetAt, ToSet

LEMMA TypeKnown == IInv => type \in Vendors
BY PipelineAssumption DEF IInv, TypeOK

-----------------------------------------------------------------------------
(* Sessions that a deployment takes down.                                  *)

LEMMA TakenAreCommands ==
  ASSUME NEW cmds, IsList(cmds), NEW t, NEW outcome \in PushOutcomes(cmds, t)
  PROVE  outcome.taken \subseteq DOMAIN cmds
<1>1. DOMAIN cmds = 1 .. Len(cmds) /\ Len(cmds) \in Nat
  BY DEF IsList
<1>2. \A n \in 0 .. Len(cmds) : Taken(cmds, t, n) \subseteq DOMAIN cmds
  BY <1>1 DEF Taken
<1>3. Len(cmds) \in 0 .. Len(cmds)
  BY <1>1
<1>4. \E n \in 0 .. Len(cmds) : outcome.taken = Taken(cmds, t, n)
  <2>1. CASE \E n \in 0 .. Len(cmds) : outcome = [taken |-> Taken(cmds, t, n), ok |-> FALSE]
    BY <2>1
  <2>2. CASE \E ok \in BOOLEAN : outcome = [taken |-> Taken(cmds, t, Len(cmds)), ok |-> ok]
    BY <1>3, <2>2
  <2> QED BY <2>1, <2>2 DEF PushOutcomes
<1> QED BY <1>2, <1>4

LEMMA ShutIsSaid ==
  ASSUME NEW c, NEW t, NEW s, Says(c, t, s), s[1][2] = "knob", s[1][5] = "shutdown"
  PROVE  \E n \in ToSet(Neighbors(c)) : n.ip = s[1][4] /\ "shutdown" \in n.knobs
<1>1. ~ SaysOspf(c.ospf, t, s)
  BY DEF SaysOspf
<1>2. Given(c.bgp) /\ SaysBgp(c.bgp, t, s)
  BY <1>1 DEF Says
<1>3. PICK n \in ToSet(c.bgp.nbrs), g \in Groups :
        \E k \in n.knobs : s = <<<<"bgp", "knob", g, n.ip, k>>, "on">>
  BY <1>2 DEF SaysBgp
<1>4. PICK k \in n.knobs : s = <<<<"bgp", "knob", g, n.ip, k>>, "on">>
  BY <1>3
<1>5. n.ip = s[1][4] /\ "shutdown" \in n.knobs
  BY <1>4
<1> QED BY <1>2, <1>5 DEF Neighbors

LEMMA PasswordIsSaid ==
  ASSUME NEW c, NEW t, NEW s, Says(c, t, s), s[1][2] = "knob", s[1][5] = "password"
  PROVE  \E n \in ToSet(Neighbors(c)) : n.ip = s[1][4] /\ "password" \in n.knobs
<1>1. ~ SaysOspf(c.ospf, t, s)
  BY DEF SaysOspf
<1>2. Given(c.bgp) /\ SaysBgp(c.bgp, t, s)
  BY <1>1 DEF Says
<1>3. PICK n \in ToSet(c.bgp.nbrs), g \in Groups :
        \E k \in n.knobs : s = <<<<"bgp", "knob", g, n.ip, k>>, "on">>
  BY <1>2 DEF SaysBgp
<1>4. PICK k \in n.knobs : s = <<<<"bgp", "knob", g, n.ip, k>>, "on">>
  BY <1>3
<1>5. n.ip = s[1][4] /\ "password" \in n.knobs
  BY <1>4
<1> QED BY <1>2, <1>5 DEF Neighbors

(* A setting sessions are made with that is said and is new on the device. *)
LEMMA NewIsSaid ==
  ASSUME NEW c, NEW p, NEW s, Says(c, type, s), s \notin run, s \in Session({s}, p)
  PROVE  SaysNewOf(c, p, run)
<1>1. /\ s[1][1] = "bgp"
      /\ \/ s[1][2] \in {"process", "rid"}
         \/ s[1][2] = "peer" /\ s[1][4] = p
         \/ s[1][2] = "knob" /\ s[1][4] = p /\ s[1][5] \in {"shutdown", "password"}
  BY DEF Session
<1>2. Given(c.bgp) /\ SaysBgp(c.bgp, type, s) /\ Neighbors(c) = c.bgp.nbrs
  <2>1. ~ SaysOspf(c.ospf, type, s)
    BY <1>1 DEF SaysOspf
  <2> QED BY <2>1 DEF Says, Neighbors
<1>3. CASE s = <<<<"bgp", "process">>, Number(c.bgp.asn)>>
  BY <1>2, <1>3 DEF SaysNewOf
<1>4. CASE c.bgp.rid # None /\ s = <<<<"bgp", "rid">>, c.bgp.rid>>
  BY <1>2, <1>4 DEF SaysNewOf
<1>5. ASSUME NEW x, s = <<<<"bgp", "net", x>>, "on">> PROVE FALSE
  <2>1. s[1][2] = "net"
    BY <1>5
  <2> QED BY <1>1, <2>1
<1>6. ASSUME NEW g, s = <<<<"bgp", "group", g>>, "on">> PROVE FALSE
  <2>1. s[1][2] = "group"
    BY <1>6
  <2> QED BY <1>1, <2>1
<1>7. ASSUME NEW n \in ToSet(c.bgp.nbrs),
             s = <<<<"bgp", "peer", PeerGroup(c.bgp, n, type), n.ip>>, Number(n.asn)>>
      PROVE  SaysNewOf(c, p, run)
  <2>1. s[1][2] = "peer" /\ s[1][4] = n.ip
    BY <1>7
  <2>2. n.ip = p
    BY <1>1, <2>1
  <2> QED BY <1>2, <1>7, <2>2 DEF SaysNewOf, PeerGroup
<1>8. CASE s[1][2] = "knob"
  <2>1. s[1][4] = p /\ s[1][5] \in {"shutdown", "password"}
    BY <1>1, <1>8
  <2>2. \E n \in ToSet(Neighbors(c)) : n.ip = p /\ n.knobs \cap {"shutdown", "password"} # {}
    BY <1>8, <2>1, ShutIsSaid, PasswordIsSaid
  <2> QED BY <2>2 DEF SaysNewOf
<1>9. ASSUME NEW g, NEW n, NEW k, s = <<<<"bgp", "knob", g, n.ip, k>>, "on">>
      PROVE  SaysNewOf(c, p, run)
  <2>1. s[1][2] = "knob"
    BY <1>9
  <2> QED BY <1>8, <2>1
<1> QED BY <1>2, <1>3, <1>4, <1>5, <1>6, <1>7, <1>9, Zenon DEF SaysBgp

(* No key has two settings.                                                *)
OneEach(settings) == \A r, s \in settings : r[1] = s[1] => r = s

LEMMA SetAtOneEach ==
  ASSUME NEW cmds, IsList(cmds), NEW positions \in SUBSET DOMAIN cmds
  PROVE  OneEach(SetAt(cmds, positions))
<1> SUFFICES ASSUME NEW r \in SetAt(cmds, positions), NEW s \in SetAt(cmds, positions), r[1] = s[1]
             PROVE  r = s
  BY DEF OneEach
<1>1. PICK i \in positions : r = cmds[i] /\ \A j \in positions : i < j => cmds[j][1] # cmds[i][1]
  BY DEF SetAt
<1>2. PICK j \in positions : s = cmds[j] /\ \A k \in positions : j < k => cmds[k][1] # cmds[j][1]
  BY DEF SetAt
<1>3. i \in Nat /\ j \in Nat
  BY DEF IsList
<1> QED BY <1>1, <1>2, <1>3

LEMMA MergeOneEach ==
  ASSUME NEW old, OneEach(old), NEW new, OneEach(new)
  PROVE  OneEach(Merge(old, new))
BY DEF OneEach, Merge, KeysOf

(* What a push applies is part of what was built.                          *)
LEMMA PushApplies ==
  ASSUME CInv, IInv, Push, up' # up \/ run' # run
  PROVE  \E lines : /\ Apply(lines) /\ OneEach(lines)
                    /\ \A s \in lines : Says(deployed, type, s)
<1> DEFINE cmds == Build(deployed, type)
<1>1. IsConfig(deployed) /\ type \in Vendors
  <2>1. deployed # None
    BY DEF CInv, Push
  <2> QED BY <2>1, TypeKnown DEF CInv
<1>2. IsList(cmds) /\ \A s \in ToSet(cmds) : Says(deployed, type, s)
  BY <1>1, BuildSays
<1> HIDE DEF cmds
<1>3. PICK outcome \in PushOutcomes(cmds, type) : Apply(SetAt(cmds, outcome.taken))
  BY DEF Push, deviceVars, cmds
<1>4. outcome.taken \in SUBSET DOMAIN cmds
  BY <1>2, TakenAreCommands
<1>5. SetAt(cmds, outcome.taken) \subseteq ToSet(cmds) /\ OneEach(SetAt(cmds, outcome.taken))
  BY <1>2, <1>4, SetAtFrom, SetAtOneEach
<1> QED BY <1>2, <1>3, <1>5

LEMMA PushOneEach ==
  ASSUME CInv, IInv, Push, OneEach(run)
  PROVE  OneEach(run')
<1>1. CASE run' = run
  BY <1>1
<1>2. CASE run' # run
  <2>1. PICK lines : Apply(lines) /\ OneEach(lines)
    BY <1>2, PushApplies
  <2>2. run' = Merge(run, lines) \/ run' = Merge(run, {})
    BY <2>1 DEF Apply
  <2>3. OneEach({})
    BY DEF OneEach
  <2> QED BY <2>1, <2>2, <2>3, MergeOneEach
<1> QED BY <1>1, <1>2

RunOneEach == OneEach(run)

LEMMA StepOneEach == CInv /\ IInv /\ RunOneEach /\ [Next]_vars => RunOneEach'
<1> SUFFICES ASSUME CInv, IInv, RunOneEach, [Next]_vars PROVE RunOneEach'
  OBVIOUS
<1>1. CASE Push
  BY <1>1, PushOneEach DEF RunOneEach
<1>2. CASE run' = run
  BY <1>2 DEF RunOneEach
<1>3. Push \/ run' = run
  BY DEF Next, Ask, Store, Start, Verify, Flap, vars, deviceVars
<1> QED BY <1>1, <1>2, <1>3

LEMMA EachOnce == Spec => []RunOneEach
<1>1. Init => RunOneEach
  BY DEF Init, RunOneEach, OneEach
<1> QED BY <1>1, StepOneEach, Arrivals, Invariance, PTL DEF Spec

(* Settings that lose a session have a new one that shuts it down.         *)
LEMMA CutByShut ==
  ASSUME NEW old, NEW new, NEW p \in CanBeUp(old), p \notin CanBeUp(Merge(old, new))
  PROVE  \E s \in new \ old : s[1][2] = "knob" /\ s[1][5] = "shutdown" /\ s[1][4] = p
<1>1. p \in Peers(Merge(old, new))
  <2>1. PICK s \in old : s[1][1] = "bgp" /\ s[1][2] = "peer" /\ s[1][4] = p
    BY DEF CanBeUp, Peers
  <2>2. CASE s[1] \in KeysOf(new)
    <3>1. PICK r \in new : r[1] = s[1]
      BY <2>2 DEF KeysOf
    <3> QED BY <2>1, <3>1 DEF Merge, Peers
  <2>3. CASE s[1] \notin KeysOf(new)
    BY <2>1, <2>3 DEF Merge, Peers
  <2> QED BY <2>2, <2>3
<1>2. p \in Shut(Merge(old, new)) /\ p \notin Shut(old)
  BY <1>1 DEF CanBeUp
<1> QED BY <1>2 DEF Shut, Merge

(* A session that is made with something else is made with a new line.     *)
LEMMA ChangedByNew ==
  ASSUME NEW old, OneEach(old), NEW new, NEW p, Session(Merge(old, new), p) # Session(old, p)
  PROVE  \E s \in new \ old : s \in Session({s}, p)
<1>1. CASE \E s \in Session(Merge(old, new), p) : s \notin Session(old, p)
  BY <1>1 DEF Session, Merge
<1>2. CASE \E s \in Session(old, p) : s \notin Session(Merge(old, new), p)
  <2>1. PICK s \in Session(old, p) : s \notin Session(Merge(old, new), p)
    BY <1>2
  <2>2. s \in old /\ s \notin Merge(old, new)
    BY <2>1 DEF Session
  <2>3. PICK r \in new : r[1] = s[1] /\ s \notin new
    BY <2>2 DEF Merge, KeysOf
  <2>4. r \notin old
    BY <2>2, <2>3 DEF OneEach
  <2>5. r \in Session({r}, p)
    BY <2>1, <2>3 DEF Session
  <2> QED BY <2>3, <2>4, <2>5
<1> QED BY <1>1, <1>2

LEMMA PushCuts ==
  ASSUME CInv, IInv, RunOneEach, Push, NEW p \in up \ up'
  PROVE  SaysNewOf(deployed, p, run)
<1>1. PICK lines : Apply(lines) /\ \A s \in lines : Says(deployed, type, s)
  BY PushApplies
<1> DEFINE new == IF type \in NeedsCommit THEN {} ELSE lines
<1>2. \A s \in new : Says(deployed, type, s)
  BY <1>1
<1>3. PICK reset \in SUBSET WithPassword(new) :
        /\ run' = Merge(run, new)
        /\ up' = {q \in (up \ reset) \cap CanBeUp(run') : Session(run', q) = Session(run, q)}
  BY <1>1 DEF Apply
<1> HIDE DEF new
<1>4. p \in CanBeUp(run)
  BY DEF IInv, TypeOK
<1>5. CASE p \in reset
  <2>1. PICK s \in new : s[1][2] = "knob" /\ s[1][5] = "password" /\ s[1][4] = p
    BY <1>3, <1>5 DEF WithPassword
  <2>2. \E n \in ToSet(Neighbors(deployed)) : n.ip = p /\ "password" \in n.knobs
    BY <1>2, <2>1, PasswordIsSaid
  <2> QED BY <2>2 DEF SaysNewOf
<1>6. CASE p \notin CanBeUp(run')
  <2>1. PICK s \in new : s[1][2] = "knob" /\ s[1][5] = "shutdown" /\ s[1][4] = p
    BY <1>3, <1>4, <1>6, CutByShut
  <2>2. \E n \in ToSet(Neighbors(deployed)) : n.ip = p /\ "shutdown" \in n.knobs
    BY <1>2, <2>1, ShutIsSaid
  <2> QED BY <2>2 DEF SaysNewOf
<1>7. CASE Session(run', p) # Session(run, p)
  <2>1. PICK s \in new \ run : s \in Session({s}, p)
    BY <1>3, <1>7, ChangedByNew DEF RunOneEach
  <2> QED BY <1>2, <2>1, NewIsSaid
<1> QED BY <1>3, <1>5, <1>6, <1>7

(* A deployment resets the sessions of those neighbours only that its      *)
(* configuration says something new of, wherever it breaks off.            *)
THEOREM OnlyChangedIsCut == Spec => CutsOnlyChanged
<1>1. CInv /\ IInv /\ RunOneEach /\ [Next]_vars =>
        [phase' # phase => \A p \in up \ up' : SaysNewOf(deployed, p, run)]_vars
  <2> SUFFICES ASSUME CInv, IInv, RunOneEach, [Next]_vars, phase' # phase, NEW p \in up \ up'
               PROVE  SaysNewOf(deployed, p, run)
    OBVIOUS
  <2>1. CASE Push
    BY <2>1, PushCuts
  <2>2. up' # up
    OBVIOUS
  <2>3. ~ Start /\ ~ Verify /\ ~ Flap /\ vars' # vars
    BY <2>2 DEF Start, Verify, Flap, vars, deviceVars
  <2>4. /\ ~ \E c \in Drafts : Ask(<<c>>)
        /\ ~ \E c, d \in {r.config : r \in Requests} \cup {None} : Ask(<<c, d>>)
        /\ ~ \E r \in Requests : Store(r)
    BY <2>2 DEF Ask, Store, deviceVars
  <2> QED BY <2>1, <2>3, <2>4 DEF Next
<1> QED BY <1>1, Arrivals, Invariance, EachOnce, PTL DEF Spec, CutsOnlyChanged

-----------------------------------------------------------------------------
(* Vetted configurations.                                                  *)

LEMMA NumberIs ==
  ASSUME NEW x, NEW low, NEW high, Reads(x, low, high)
  PROVE  Number(x) = x[2] /\ Number(x) \in low .. high
BY DEF Reads, Number

LEMMA VettedAreas ==
  ASSUME NEW c, Vetted(c), NEW t, AreasFit(c, t), Given(c.ospf), NEW a \in ToSet(c.ospf.areas)
  PROVE  /\ NumberOf(a, t) \in 0 .. MaxArea
         /\ a.type \in {"normal", "stub", "nssa"}
<1>1. SchemaTakesArea(a) /\ a \in ToSet(Areas(c))
  BY DEF Vetted, SchemaTakes, SchemaTakesOspf, Areas
<1>2. a.id # None
  BY <1>1 DEF SchemaTakesArea
<1>3. AreaIdErrors(a.id) = {}
  <2>1. OspfErrors(c.ospf) = {}
    BY DEF Vetted, Verdict, Errors
  <2> DEFINE faults == UNION {AreaIdErrors(b.id) : b \in {b \in ToSet(c.ospf.areas) : b.id # None}}
             repeats == {<<"repeated_area", id>> :
                           id \in Repeated(c.ospf.areas, LAMBDA b : b.id) \ {None}}
  <2>2. OspfErrors(c.ospf) = repeats \cup faults
    BY Zenon DEF OspfErrors
  <2> HIDE DEF repeats
  <2>3. faults = {}
    <3> HIDE DEF faults
    <3> QED BY <2>1, <2>2
  <2> QED BY <1>2, <2>3
<1>4. a.id[1] # "word" /\ a.id[2] \in 0 .. MaxArea
  BY <1>3, EmptyIf DEF AreaIdErrors
<1>5. AreaNumber(a) \in 0 .. MaxArea
  BY <1>2, <1>4 DEF AreaNumber, Number
<1>6. NumberOf(a, t) \in 0 .. MaxArea
  <2>1. CASE t = "junos"
    BY <1>1, <1>5, <2>1 DEF NumberOf, AreasFit, JunosAreaNumber
  <2>2. CASE t # "junos"
    BY <1>5, <2>2 DEF NumberOf
  <2> QED BY <2>1, <2>2
<1> QED BY <1>1, <1>6 DEF SchemaTakesArea

(* A prefix as it is sent is in a notation devices read.                   *)
LEMMA SentIsRead ==
  ASSUME NEW nets, IsList(nets), NEW t, t # "cisco_ios" => \A x \in ToSet(nets) : x[1] = "cidr"
  PROVE  \A x \in ToSet(SentNets(nets, t)) : x[1] \in DeviceNotations
<1>1. "cidr" \in DeviceNotations
  BY PipelineAssumption
<1>2. \A x \in ToSet(nets) : SentNet(x, t)[1] = "cidr"
  BY DEF SentNet, Normal
<1> QED BY <1>1, <1>2, SentAre

(* No command that says what a vetted section says is malformed.           *)
LEMMA BgpWellFormed ==
  ASSUME NEW bgp, NEW t, SchemaTakesBgp(bgp), NEW s, SaysBgp(bgp, t, s),
         \A x \in ToSet(SentNets(bgp.nets, t)) : x[1] \in DeviceNotations
  PROVE  ~ Malformed(s)
<1>1. CASE s = <<<<"bgp", "process">>, Number(bgp.asn)>>
  <2>1. Number(bgp.asn) \in 1 .. MaxAsn
    BY NumberIs DEF SchemaTakesBgp
  <2> QED BY <1>1, <2>1 DEF Malformed
<1>2. CASE bgp.rid # None /\ s = <<<<"bgp", "rid">>, bgp.rid>>
  BY <1>2 DEF Malformed, SchemaTakesBgp
<1>3. ASSUME NEW x \in ToSet(SentNets(bgp.nets, t)), s = <<<<"bgp", "net", x>>, "on">>
      PROVE  ~ Malformed(s)
  BY <1>3 DEF Malformed
<1>4. ASSUME NEW g, s = <<<<"bgp", "group", g>>, "on">>
      PROVE  ~ Malformed(s)
  BY <1>4 DEF Malformed
<1>5. ASSUME NEW n \in ToSet(bgp.nbrs), NEW g, s = <<<<"bgp", "peer", g, n.ip>>, Number(n.asn)>>
      PROVE  ~ Malformed(s)
  <2>1. n.ip \notin BadAddress /\ Number(n.asn) \in 1 .. MaxAsn
    BY NumberIs DEF SchemaTakesBgp, SchemaTakesNeighbor
  <2> QED BY <1>5, <2>1 DEF Malformed
<1>6. ASSUME NEW g, NEW n, NEW k, s = <<<<"bgp", "knob", g, n.ip, k>>, "on">>
      PROVE  ~ Malformed(s)
  BY <1>6 DEF Malformed
<1> QED BY <1>1, <1>2, <1>3, <1>4, <1>5, <1>6, Zenon DEF SaysBgp

LEMMA OspfWellFormed ==
  ASSUME NEW c, Vetted(c), NEW t, AreasFit(c, t), Given(c.ospf), NEW s, SaysOspf(c.ospf, t, s),
         t # "junos" => \A a \in ToSet(c.ospf.areas) :
                          \A x \in ToSet(SentNets(a.nets, t)) : x[1] \in DeviceNotations
  PROVE  ~ Malformed(s)
<1>1. SchemaTakesOspf(c.ospf)
  BY DEF Vetted, SchemaTakes
<1>2. CASE s = <<<<"ospf", "process">>, IF c.ospf.pid = None THEN 1 ELSE Number(c.ospf.pid)>>
  <2>1. c.ospf.pid # None /\ Number(c.ospf.pid) \in 1 .. MaxShort
    BY <1>1, NumberIs DEF SchemaTakesOspf, Reads
  <2> QED BY <1>2, <2>1 DEF Malformed
<1>3. CASE c.ospf.rid # None /\ s = <<<<"ospf", "rid">>, c.ospf.rid>>
  BY <1>1, <1>3 DEF Malformed, SchemaTakesOspf
<1>4. ASSUME NEW a \in ToSet(c.ospf.areas), a.type \in {"stub", "nssa"},
             s = <<<<"ospf", "type", NumberOf(a, t)>>, a.type>>
      PROVE  ~ Malformed(s)
  <2>1. NumberOf(a, t) \in 0 .. MaxArea
    BY VettedAreas
  <2> QED BY <1>4, <2>1 DEF Malformed
<1>5. ASSUME NEW a \in ToSet(c.ospf.areas), NEW x \in ToSet(SentNets(a.nets, t)), t # "junos",
             s = <<<<"ospf", "area", NumberOf(a, t), "net", x>>, "on">>
      PROVE  ~ Malformed(s)
  <2>1. NumberOf(a, t) \in 0 .. MaxArea /\ x[1] \in DeviceNotations
    BY <1>5, VettedAreas
  <2> QED BY <1>5, <2>1 DEF Malformed
<1>6. ASSUME NEW a \in ToSet(c.ospf.areas), NEW x,
             s = <<<<"ospf", "area", NumberOf(a, t), "interface", x>>, "on">>
      PROVE  ~ Malformed(s)
  <2>1. NumberOf(a, t) \in 0 .. MaxArea
    BY VettedAreas
  <2> QED BY <1>6, <2>1 DEF Malformed
<1> QED BY <1>2, <1>3, <1>4, <1>5, <1>6, Zenon DEF SaysOspf

LEMMA VettedTaken ==
  ASSUME NEW c, IsConfig(c), NEW t \in Vendors, Vetted(c), Fits(c, t)
  PROVE  ~ BuildRaises(c, t) /\ Refused(Build(c, t), t) = {}
<1>1. ~ RulesRaise(c) /\ AllCidrErrors(c) = {}
  BY DEF Vetted, Verdict, Errors
<1>2. ~ BuildRaises(c, t)
  <2>1. ASSUME NEW p \in ToSet(Networks(c)) \cup AreaNetworks(c)
        PROVE  ~ IsBad(p)
    <3>1. PrefixErrors(p) = {}
      BY <1>1 DEF AllCidrErrors
    <3>2. If(IsBad(p), <<"prefix", p>>) = {}
      BY <3>1 DEF PrefixErrors
    <3> QED BY <3>2, EmptyIf
  <2> QED BY <1>1, <2>1 DEF BuildRaises, RulesRaise
<1> DEFINE bad == {s \in ToSet(Build(c, t)) : Malformed(s)}
<1>3. bad = {}
  <2>1. ASSUME NEW s \in ToSet(Build(c, t))
        PROVE  ~ Malformed(s)
    <3>1. Says(c, t, s)
      BY BuildSays
    <3>2. CASE Given(c.bgp) /\ SaysBgp(c.bgp, t, s)
      <4>1. t # "cisco_ios" => \A x \in ToSet(c.bgp.nets) : x[1] = "cidr"
        BY <3>2 DEF Fits, PrefixesFit, Networks
      <4>2. \A x \in ToSet(SentNets(c.bgp.nets, t)) : x[1] \in DeviceNotations
        BY <3>2, <4>1, SentIsRead DEF IsConfig
      <4> QED BY <3>2, <4>2, BgpWellFormed DEF Vetted, SchemaTakes
    <3>3. CASE Given(c.ospf) /\ SaysOspf(c.ospf, t, s)
      <4>1. ASSUME NEW a \in ToSet(c.ospf.areas), t # "junos"
            PROVE  \A x \in ToSet(SentNets(a.nets, t)) : x[1] \in DeviceNotations
        <5>1. t # "cisco_ios" => \A x \in ToSet(a.nets) : x[1] = "cidr"
          BY <3>3, <4>1 DEF Fits, PrefixesFit, AreaNetworks, Areas
        <5> QED BY <3>3, <5>1, SentIsRead DEF IsConfig
      <4>2. AreasFit(c, t)
        BY DEF Fits
      <4> QED BY <3>3, <4>1, <4>2, OspfWellFormed
    <3> QED BY <3>1, <3>2, <3>3 DEF Says
  <2> QED BY <2>1
<1>4. KeysOf(bad) = {}
  BY <1>3 DEF KeysOf
<1>5. Refused(Build(c, t), t) =
        IF t = "junos" THEN bad
        ELSE {s \in ToSet(Build(c, t)) : s \in bad \/ <<s[1][1], "process">> \in KeysOf(bad)}
  BY DEF Refused
<1> HIDE DEF bad
<1> QED BY <1>2, <1>3, <1>4, <1>5

(* Building the commands of a vetted configuration does not raise, and the *)
(* device takes their operands, in whatever notation a prefix is given to  *)
(* IOS and if it is written as devices write it elsewhere.                 *)
THEOREM VettedTakes == Spec => []VettedIsTaken
<1>1. CInv /\ IInv => VettedIsTaken
  BY AskedIsConfig, TypeKnown, VettedTaken DEF VettedIsTaken
<1> QED BY <1>1, Arrivals, Invariance, PTL

-----------------------------------------------------------------------------
(* What is running after a deployment.                                     *)

(* From the push on, all that was built is running.                        *)
SInv ==
  /\ phase \in {"pushed", "SUCCESS"} /\ type \notin NeedsCommit
  /\ Vetted(deployed) /\ Fits(deployed, type)
  => Settings(Build(deployed, type)) \subseteq run

LEMMA PushRuns ==
  ASSUME CInv, IInv, Push
  PROVE  SInv'
<1> SUFFICES ASSUME phase' = "pushed", type \notin NeedsCommit,
                    Vetted(deployed), Fits(deployed, type)
             PROVE  Settings(Build(deployed, type)) \subseteq run'
  BY DEF SInv, Push, Vetted, Fits, AreasFit, PrefixesFit
<1> DEFINE cmds == Build(deployed, type)
<1>1. IsConfig(deployed) /\ type \in Vendors
  <2>1. deployed # None
    BY DEF CInv, Push
  <2> QED BY <2>1, TypeKnown DEF CInv
<1>2. Refused(cmds, type) = {} /\ IsList(cmds)
  BY <1>1, VettedTaken, BuildSays
<1> HIDE DEF cmds
<1>3. PICK outcome \in PushOutcomes(cmds, type) :
        /\ Apply(SetAt(cmds, outcome.taken))
        /\ outcome.ok
  BY DEF Push, cmds
<1>4. outcome.taken = DOMAIN cmds
  <2>1. outcome.taken = Taken(cmds, type, Len(cmds))
    <3>1. CASE \E n \in 0 .. Len(cmds) : outcome = [taken |-> Taken(cmds, type, n), ok |-> FALSE]
      BY <1>3, <3>1
    <3>2. CASE \E ok \in BOOLEAN : outcome = [taken |-> Taken(cmds, type, Len(cmds)), ok |-> ok]
      BY <3>2
    <3> QED BY <3>1, <3>2 DEF PushOutcomes
  <2>2. DOMAIN cmds = 1 .. Len(cmds)
    BY <1>2 DEF IsList
  <2> QED BY <1>2, <2>1, <2>2 DEF Taken
<1>5. run' = Merge(run, Settings(cmds))
  BY <1>3, <1>4 DEF Apply, Settings
<1> QED BY <1>5 DEF Merge, cmds

LEMMA StepRuns == CInv /\ IInv /\ SInv /\ [Next]_vars => SInv'
<1> SUFFICES ASSUME CInv, IInv, SInv, [Next]_vars PROVE SInv'
  OBVIOUS
<1>1. CASE Push
  BY <1>1, PushRuns
<1>2. ASSUME UNCHANGED <<type, deployed, run>>,
             phase' = phase \/ phase = "pushed" \/ phase' \notin {"pushed", "SUCCESS"}
      PROVE  SInv'
  BY <1>2 DEF SInv, Vetted, Fits, AreasFit, PrefixesFit
<1>3. CASE \/ \E c \in Drafts : Ask(<<c>>)
           \/ \E c, d \in {r.config : r \in Requests} \cup {None} : Ask(<<c, d>>)
           \/ \E r \in Requests : Store(r)
  <2>1. UNCHANGED <<type, deployed, run, phase>>
    BY <1>3 DEF Ask, Store, deviceVars
  <2> QED BY <1>2, <2>1
<1>4. CASE Start
  <2>1. phase' \in {"FAILED", "backed up"}
    BY <1>4 DEF Start
  <2> QED BY <2>1 DEF SInv
<1>5. CASE Verify
  <2>1. UNCHANGED <<type, deployed, run>> /\ phase = "pushed"
    BY <1>5 DEF Verify, deviceVars
  <2> QED BY <1>2, <2>1
<1>6. CASE Flap \/ UNCHANGED vars
  <2>1. UNCHANGED <<type, deployed, run, phase>>
    BY <1>6 DEF Flap, vars
  <2> QED BY <1>2, <2>1
<1> QED BY <1>1, <1>3, <1>4, <1>5, <1>6 DEF Next

(* SUCCESS of a vetted configuration, on a device that takes lines without *)
(* a commit, means that all of it is running.                              *)
THEOREM SuccessRuns == Spec => []SuccessTakes
<1>1. Init => SInv
  BY DEF Init, SInv
<1>2. SInv => SuccessTakes
  BY DEF SInv, SuccessTakes
<1> QED BY <1>1, <1>2, StepRuns, Arrivals, Invariance, PTL DEF Spec

-----------------------------------------------------------------------------
(* What is built, all of it together.                                      *)

(* For every key that is set there is a last command that sets it.         *)
LEMMA LastOfKey ==
  ASSUME NEW cmds, IsList(cmds), NEW s \in ToSet(cmds)
  PROVE  \E r \in Settings(cmds) : r[1] = s[1]
<1>1. DOMAIN cmds = 1 .. Len(cmds) /\ Len(cmds) \in Nat
  BY DEF IsList
<1> DEFINE T == {n \in Nat : \E i \in DOMAIN cmds : n = Len(cmds) - i /\ cmds[i][1] = s[1]}
<1>2. T \subseteq Nat /\ T # {}
  <2>1. PICK i \in DOMAIN cmds : s = cmds[i]
    BY DEF ToSet
  <2>2. Len(cmds) - i \in Nat
    BY <1>1
  <2> QED BY <2>1, <2>2
<1> HIDE DEF T
<1>3. PICK n \in T : \A k \in T : n <= k
  BY <1>2, Least
<1>4. PICK i \in DOMAIN cmds : n = Len(cmds) - i /\ cmds[i][1] = s[1]
  BY <1>3 DEF T
<1>5. ASSUME NEW j \in DOMAIN cmds, i < j
      PROVE  cmds[j][1] # cmds[i][1]
  <2> SUFFICES ASSUME cmds[j][1] = cmds[i][1] PROVE FALSE
    OBVIOUS
  <2>1. Len(cmds) - j \in Nat
    BY <1>1
  <2>2. Len(cmds) - j \in T
    BY <1>4, <2>1 DEF T
  <2>3. n <= Len(cmds) - j
    BY <1>3, <2>2
  <2> QED BY <1>1, <1>4, <1>5, <2>3
<1>6. cmds[i] \in Settings(cmds)
  BY <1>5 DEF Settings, SetAt
<1> QED BY <1>4, <1>6

LEMMA BuildHas ==
  ASSUME NEW c, IsConfig(c), NEW t \in Vendors \ {"nokia_sros"}
  PROVE  /\ Given(c.bgp) => BgpHas(c.bgp, t, Build(c, t))
         /\ Given(c.ospf) => \A a \in ToSet(c.ospf.areas) : Covers(a, t, Build(c, t))
<1> DEFINE u == IF Given(c.bgp) THEN BgpCommands(c.bgp, t) ELSE <<>>
           v == IF Given(c.ospf) THEN OspfCommands(c.ospf, t) ELSE <<>>
<1>1. IsList(u) /\ (Given(c.bgp) => BgpHas(c.bgp, t, u))
  BY BgpSays, BgpHolds, NoCommand DEF IsConfig, BgpList
<1>2. IsList(v) /\ (Given(c.ospf) => \A a \in ToSet(c.ospf.areas) : Covers(a, t, v))
  BY OspfSays, NoCommand DEF IsConfig, IsAreas, OspfList
<1>3. Build(c, t) = u \o v
  BY DEF Build
<1> HIDE DEF u, v
<1>4. ToSet(u) \subseteq ToSet(Build(c, t)) /\ ToSet(v) \subseteq ToSet(Build(c, t))
  BY <1>1, <1>2, <1>3, ListJoin
<1>5. Given(c.bgp) => BgpHas(c.bgp, t, Build(c, t))
  BY <1>1, <1>4 DEF BgpHas
<1> QED BY <1>2, <1>4, <1>5, CoversMore

LEMMA PeerIsSaid ==
  ASSUME NEW c, NEW t, NEW s, Says(c, t, s), s[1][2] = "peer"
  PROVE  \E n \in ToSet(Neighbors(c)) : n.ip = s[1][4] /\ Number(n.asn) = s[2]
<1>1. ~ SaysOspf(c.ospf, t, s)
  BY DEF SaysOspf
<1>2. Given(c.bgp) /\ SaysBgp(c.bgp, t, s)
  BY <1>1 DEF Says
<1>3. PICK n \in ToSet(c.bgp.nbrs) :
        s = <<<<"bgp", "peer", PeerGroup(c.bgp, n, t), n.ip>>, Number(n.asn)>>
  BY <1>2 DEF SaysBgp
<1>4. n.ip = s[1][4] /\ Number(n.asn) = s[2]
  BY <1>3
<1> QED BY <1>2, <1>4 DEF Neighbors

LEMMA NetIsSaid ==
  ASSUME NEW c, NEW t, NEW s, Says(c, t, s), s[1][2] = "net"
  PROVE  \E x \in ToSet(SentNets(Networks(c), t)) : s[1][3] = x
<1>1. ~ SaysOspf(c.ospf, t, s)
  BY DEF SaysOspf
<1>2. Given(c.bgp) /\ SaysBgp(c.bgp, t, s)
  BY <1>1 DEF Says
<1>3. PICK x \in ToSet(SentNets(c.bgp.nets, t)) : s = <<<<"bgp", "net", x>>, "on">>
  BY <1>2 DEF SaysBgp
<1>4. s[1][3] = x
  BY <1>3
<1> QED BY <1>2, <1>4 DEF Networks

LEMMA TypeIsSaid ==
  ASSUME NEW c, NEW t, NEW s, Says(c, t, s), s[1][2] = "type"
  PROVE  \E a \in ToSet(Areas(c)) :
           s[1][3] = NumberOf(a, t) /\ s[2] = a.type /\ a.type \in {"stub", "nssa"}
<1>1. ~ SaysBgp(c.bgp, t, s)
  BY DEF SaysBgp
<1>2. Given(c.ospf) /\ SaysOspf(c.ospf, t, s)
  BY <1>1 DEF Says
<1>3. PICK a \in ToSet(c.ospf.areas) :
        a.type \in {"stub", "nssa"} /\ s = <<<<"ospf", "type", NumberOf(a, t)>>, a.type>>
  BY <1>2 DEF SaysOspf
<1>4. s[1][3] = NumberOf(a, t) /\ s[2] = a.type
  BY <1>3
<1> QED BY <1>2, <1>3, <1>4 DEF Areas

LEMMA AreaIsSaid ==
  ASSUME NEW c, NEW t, NEW s, Says(c, t, s), s[1][2] = "area"
  PROVE  \E a \in ToSet(Areas(c)) :
           /\ s[1][3] = NumberOf(a, t)
           /\ \/ s[1][4] = "net" /\ t # "junos" /\ s[1][5] \in ToSet(SentNets(a.nets, t))
              \/ s[1][4] = "interface" /\ t \in {"cisco_xr", "junos"} /\ s[1][5] \in a.ifs
<1>1. ~ SaysBgp(c.bgp, t, s)
  BY DEF SaysBgp
<1>2. Given(c.ospf) /\ SaysOspf(c.ospf, t, s)
  BY <1>1 DEF Says
<1>3. PICK a \in ToSet(c.ospf.areas) :
        \/ \E x \in ToSet(SentNets(a.nets, t)) :
             t # "junos" /\ s = <<<<"ospf", "area", NumberOf(a, t), "net", x>>, "on">>
        \/ \E x \in a.ifs :
             /\ t \in {"cisco_xr", "junos"}
             /\ s = <<<<"ospf", "area", NumberOf(a, t), "interface", x>>, "on">>
  BY <1>2 DEF SaysOspf
<1>4. /\ s[1][3] = NumberOf(a, t)
      /\ \/ s[1][4] = "net" /\ t # "junos" /\ s[1][5] \in ToSet(SentNets(a.nets, t))
         \/ s[1][4] = "interface" /\ t \in {"cisco_xr", "junos"} /\ s[1][5] \in a.ifs
  BY <1>3
<1> QED BY <1>2, <1>4 DEF Areas

LEMMA AreaHas ==
  ASSUME NEW number, NEW what, NEW items, IsFiniteSet(items), NEW x \in items
  PROVE  <<<<"ospf", "area", number, what, x>>, "on">> \in ToSet(AreaCommands(number, what, items))
<1> DEFINE S == {<<<<"ospf", "area", number, what, y>>, "on">> : y \in items}
           f == [y \in items |-> <<<<"ospf", "area", number, what, y>>, "on">>]
<1>1. f \in [items -> S] /\ \A z \in S : \E y \in items : f[y] = z
  OBVIOUS
<1>2. <<<<"ospf", "area", number, what, x>>, "on">> \in S
  OBVIOUS
<1>3. AreaCommands(number, what, items) = SetToSeq(S)
  BY DEF AreaCommands
<1> HIDE DEF S, f
<1>4. IsFiniteSet(S)
  <2>1. f \in Surjection(items, S)
    BY <1>1, Fun_IsSurj
  <2> QED BY <2>1, FS_Surjection
<1> QED BY <1>2, <1>3, <1>4, ListOfSet

(* What holds of all commands holds of what is set, and every key a        *)
(* command has is set.                                                     *)
LEMMA BuiltSays ==
  ASSUME NEW c, IsConfig(c), NEW t \in Vendors
  PROVE  /\ \A s \in Settings(Build(c, t)) : Says(c, t, s)
         /\ \A x \in ToSet(Build(c, t)) : \E r \in Settings(Build(c, t)) : r[1] = x[1]
<1>1. IsList(Build(c, t)) /\ \A s \in ToSet(Build(c, t)) : Says(c, t, s)
  BY BuildSays
<1>2. Settings(Build(c, t)) \subseteq ToSet(Build(c, t))
  BY SetAtFrom DEF Settings
<1> QED BY <1>1, <1>2, LastOfKey

LEMMA PeersDesired ==
  ASSUME NEW c, IsConfig(c), NEW t \in Vendors \ {"nokia_sros"}, Vetted(c),
         NEW n \in ToSet(Neighbors(c))
  PROVE  LET built == Settings(Build(c, t))
         IN  /\ {s[2] : s \in {s \in {s \in built : s[1][2] = "peer"} : s[1][4] = n.ip}} = {n.asn[2]}
             /\ t \in {"cisco_xr", "cisco_ios"} => ("shutdown" \in n.knobs <=> n.ip \in Shut(built))
<1> DEFINE built == Settings(Build(c, t))
<1>1. Given(c.bgp) /\ Neighbors(c) = c.bgp.nbrs
  BY DEF Neighbors, ToSet
<1>2. \A m \in ToSet(Neighbors(c)) : m.ip = n.ip => m = n
  <2>1. Sound(c)
    BY ValidSound DEF Vetted
  <2> QED BY <2>1 DEF Sound, ToSet
<1>3. /\ \A s \in built : Says(c, t, s)
      /\ \A x \in ToSet(Build(c, t)) : \E r \in built : r[1] = x[1]
  BY BuiltSays
<1>4. BgpHas(c.bgp, t, Build(c, t))
  BY <1>1, BuildHas
<1> HIDE DEF built
<1>5. ASSUME NEW s \in built, s[1][2] = "peer", s[1][4] = n.ip
      PROVE  s[2] = n.asn[2]
  <2>1. s[2] = Number(n.asn)
    BY <1>2, <1>3, <1>5, PeerIsSaid
  <2>2. Reads(n.asn, 1, MaxAsn)
    BY <1>1 DEF Vetted, SchemaTakes, SchemaTakesBgp, SchemaTakesNeighbor
  <2> QED BY <2>1, <2>2, NumberIs
<1>6. \E s \in built : s[1][2] = "peer" /\ s[1][4] = n.ip
  <2>1. PICK g \in Groups : <<<<"bgp", "peer", g, n.ip>>, Number(n.asn)>> \in ToSet(Build(c, t))
    BY <1>1, <1>4 DEF BgpHas
  <2>2. PICK s \in built : s[1] = <<"bgp", "peer", g, n.ip>>
    BY <1>3, <2>1
  <2> QED BY <2>2
<1>7. {s[2] : s \in {s \in {s \in built : s[1][2] = "peer"} : s[1][4] = n.ip}} = {n.asn[2]}
  BY <1>5, <1>6
<1>8. ASSUME t \in {"cisco_xr", "cisco_ios"}, "shutdown" \in n.knobs
      PROVE  n.ip \in Shut(built)
  <2>1. \E g \in Groups : <<<<"bgp", "knob", g, n.ip, "shutdown">>, "on">> \in ToSet(Build(c, t))
    BY <1>1, <1>4, <1>8 DEF BgpHas, Groups
  <2>2. PICK g \in Groups, s \in built : s[1] = <<"bgp", "knob", g, n.ip, "shutdown">>
    BY <1>3, <2>1
  <2>3. s[1][2] = "knob" /\ s[1][4] = n.ip /\ s[1][5] = "shutdown"
    BY <2>2
  <2> QED BY <2>3 DEF Shut
<1>9. ASSUME n.ip \in Shut(built)
      PROVE  "shutdown" \in n.knobs
  <2>1. PICK s \in built : s[1][2] = "knob" /\ s[1][5] = "shutdown" /\ s[1][4] = n.ip
    BY <1>9 DEF Shut
  <2>2. PICK m \in ToSet(Neighbors(c)) : m.ip = s[1][4] /\ "shutdown" \in m.knobs
    BY <1>3, <2>1, ShutIsSaid
  <2> QED BY <1>2, <2>1, <2>2
<1> QED BY <1>7, <1>8, <1>9 DEF built

LEMMA SentNetworks ==
  ASSUME NEW nets, IsList(nets), NEW t
  PROVE  {x[2] : x \in ToSet(SentNets(nets, t))} = {x[2] : x \in ToSet(nets)}
<1>1. \A x : SentNet(x, t)[2] = x[2]
  BY DEF SentNet, Normal
<1> QED BY <1>1, SentAre

LEMMA NetsDesired ==
  ASSUME NEW c, IsConfig(c), NEW t \in Vendors \ {"nokia_sros"}
  PROVE  {x[2] : x \in ToSet(Networks(c))}
           = {x[2] : x \in {s[1][3] : s \in {s \in Settings(Build(c, t)) : s[1][2] = "net"}}}
<1> DEFINE built == Settings(Build(c, t))
           sent == ToSet(SentNets(Networks(c), t))
<1>1. /\ \A s \in built : Says(c, t, s)
      /\ \A x \in ToSet(Build(c, t)) : \E r \in built : r[1] = x[1]
  BY BuiltSays
<1>2. {x[2] : x \in ToSet(Networks(c))} = {x[2] : x \in sent}
  <2>1. IsList(Networks(c))
    BY NoCommand DEF Networks, IsConfig
  <2> QED BY <2>1, SentNetworks
<1> HIDE DEF built
<1>3. ASSUME NEW x \in sent
      PROVE  \E s \in built : s[1][2] = "net" /\ s[1][3] = x
  <2>0. ToSet(Networks(c)) # {}
    <3>1. IsList(Networks(c))
      BY NoCommand DEF Networks, IsConfig
    <3> QED BY <3>1, SentAre
  <2>1. Given(c.bgp) /\ Networks(c) = c.bgp.nets
    BY <2>0, NoCommand DEF Networks
  <2>2. <<<<"bgp", "net", x>>, "on">> \in ToSet(Build(c, t))
    BY <2>1, BuildHas DEF BgpHas
  <2>3. PICK s \in built : s[1] = <<"bgp", "net", x>>
    BY <1>1, <2>2
  <2> QED BY <2>3
<1>4. \A s \in built : s[1][2] = "net" => s[1][3] \in sent
  BY <1>1, NetIsSaid
<1> HIDE DEF sent
<1>5. sent = {s[1][3] : s \in {s \in built : s[1][2] = "net"}}
  BY <1>3, <1>4
<1> QED BY <1>2, <1>5 DEF built

AreaDesired(c, t, a) ==
  LET built == Settings(Build(c, t))
      Items(kind) == {s[1][5] : s \in {s \in {s \in built : s[1][2] = "area"} :
                                         s[1][3] = AreaNumber(a) /\ s[1][4] = kind}}
  IN  /\ t \in {"cisco_ios", "junos"} =>
           {s[2] : s \in {s \in {s \in built : s[1][2] = "type"} :
                           s[1][3] = AreaNumber(a)}} = {a.type} \ {"normal"}
      /\ {x[2] : x \in Items("net")} = IF t = "junos" THEN {} ELSE {x[2] : x \in ToSet(a.nets)}
      /\ Items("interface") = IF t \in {"cisco_xr", "junos"} THEN a.ifs ELSE {}

LEMMA AreasDesired ==
  ASSUME NEW c, IsConfig(c), NEW t \in Vendors \ {"nokia_sros"}, Vetted(c), AreasFit(c, t),
         DistinctAreas(c), NEW a \in ToSet(Areas(c))
  PROVE  AreaDesired(c, t, a)
<1> DEFINE built == Settings(Build(c, t))
           number == AreaNumber(a)
           Items(kind) == {s[1][5] : s \in {s \in {s \in built : s[1][2] = "area"} :
                                              s[1][3] = number /\ s[1][4] = kind}}
<1>1. Given(c.ospf) /\ Areas(c) = c.ospf.areas
  BY DEF Areas, ToSet
<1>2. \A b \in ToSet(Areas(c)) : NumberOf(b, t) = AreaNumber(b)
  BY DEF NumberOf, AreasFit, JunosAreaNumber
<1>3. \A b \in ToSet(Areas(c)) : AreaNumber(b) = AreaNumber(a) => b = a
  BY DEF DistinctAreas, ToSet
<1>4. /\ \A s \in built : Says(c, t, s)
      /\ \A x \in ToSet(Build(c, t)) : \E r \in built : r[1] = x[1]
  BY BuiltSays
<1>5. Covers(a, t, Build(c, t))
  BY <1>1, BuildHas
<1>6. a.type \in {"normal", "stub", "nssa"}
  BY <1>1, VettedAreas
<1>7. NumberOf(a, t) = number
  BY <1>2
<1> HIDE DEF built, number
<1>8. ASSUME t \in {"cisco_ios", "junos"}
      PROVE  {s[2] : s \in {s \in {s \in built : s[1][2] = "type"} : s[1][3] = number}}
               = {a.type} \ {"normal"}
  <2>1. ASSUME NEW s \in built, s[1][2] = "type", s[1][3] = number
        PROVE  s[2] = a.type /\ a.type \in {"stub", "nssa"}
    <3>1. PICK b \in ToSet(Areas(c)) :
            s[1][3] = NumberOf(b, t) /\ s[2] = b.type /\ b.type \in {"stub", "nssa"}
      BY <1>4, <2>1, TypeIsSaid
    <3>2. b = a
      BY <1>2, <1>3, <2>1, <3>1 DEF number
    <3> QED BY <3>1, <3>2
  <2>2. ASSUME a.type \in {"stub", "nssa"}
        PROVE  \E s \in built : s[1][2] = "type" /\ s[1][3] = number
    <3>1. TypeCommands(number, a) = <<<<<<"ospf", "type", number>>, a.type>>>>
      BY <2>2 DEF TypeCommands
    <3>2. <<<<"ospf", "type", number>>, a.type>> \in ToSet(TypeCommands(number, a))
      BY <3>1 DEF ToSet
    <3>3. <<<<"ospf", "type", number>>, a.type>> \in ToSet(Build(c, t))
      BY <1>5, <1>7, <1>8, <3>2 DEF Covers
    <3>4. PICK s \in built : s[1] = <<"ospf", "type", number>>
      BY <1>4, <3>3
    <3> QED BY <3>4
  <2> QED BY <1>6, <2>1, <2>2
<1>9. IsList(a.nets) /\ IsFiniteSet(a.ifs) /\ IsFiniteSet(ToSet(SentNets(a.nets, t)))
  <2>1. IsList(a.nets) /\ IsFiniteSet(a.ifs)
    BY <1>1 DEF IsConfig
  <2> QED BY <2>1, SentAre, MembersFinite
<1>10. ASSUME NEW s \in built, s[1][2] = "area", s[1][3] = number
       PROVE  \/ s[1][4] = "net" /\ t # "junos" /\ s[1][5] \in ToSet(SentNets(a.nets, t))
              \/ s[1][4] = "interface" /\ t \in {"cisco_xr", "junos"} /\ s[1][5] \in a.ifs
  <2>1. PICK b \in ToSet(Areas(c)) :
           /\ s[1][3] = NumberOf(b, t)
           /\ \/ s[1][4] = "net" /\ t # "junos" /\ s[1][5] \in ToSet(SentNets(b.nets, t))
              \/ s[1][4] = "interface" /\ t \in {"cisco_xr", "junos"} /\ s[1][5] \in b.ifs
    BY <1>4, <1>10, AreaIsSaid
  <2>2. b = a
    BY <1>2, <1>3, <1>10, <2>1 DEF number
  <2> QED BY <2>1, <2>2
<1>11. ASSUME NEW kind, NEW x, <<<<"ospf", "area", number, kind, x>>, "on">> \in ToSet(Build(c, t))
       PROVE  x \in Items(kind)
  <2>1. PICK s \in built : s[1] = <<"ospf", "area", number, kind, x>>
    BY <1>4, <1>11
  <2>2. s[1][2] = "area" /\ s[1][3] = number /\ s[1][4] = kind /\ s[1][5] = x
    BY <2>1
  <2> QED BY <2>2
<1>12. Items("net") = IF t = "junos" THEN {} ELSE ToSet(SentNets(a.nets, t))
  <2>1. ASSUME t # "junos", NEW x \in ToSet(SentNets(a.nets, t))
        PROVE  x \in Items("net")
    <3>1. <<<<"ospf", "area", number, "net", x>>, "on">> \in ToSet(Build(c, t))
      BY <1>5, <1>7, <1>9, <2>1, AreaHas DEF Covers
    <3> QED BY <1>11, <3>1
  <2> QED BY <1>10, <2>1
<1>13. Items("interface") = IF t \in {"cisco_xr", "junos"} THEN a.ifs ELSE {}
  <2>1. ASSUME t \in {"cisco_xr", "junos"}, NEW x \in a.ifs
        PROVE  x \in Items("interface")
    <3>1. <<<<"ospf", "area", number, "interface", x>>, "on">> \in ToSet(Build(c, t))
      BY <1>5, <1>7, <1>9, <2>1, AreaHas DEF Covers
    <3> QED BY <1>11, <3>1
  <2> QED BY <1>10, <2>1
<1>14. {x[2] : x \in Items("net")} = IF t = "junos" THEN {} ELSE {x[2] : x \in ToSet(a.nets)}
  <2> HIDE DEF Items
  <2> QED BY <1>9, <1>12, SentNetworks
<1> QED BY <1>8, <1>13, <1>14 DEF AreaDesired, built, number

(* The commands of a vetted configuration say what it desires, whatever    *)
(* the number of its neighbours, networks and areas.                       *)
THEOREM BuildIsDesired == Spec => []BuildSaysDesired
<1>1. CInv /\ IInv => BuildSaysDesired
  <2> SUFFICES ASSUME CInv, IInv, NEW c \in Asked, Vetted(c), AreasFit(c, type),
                      type # "nokia_sros"
               PROVE  LET built == Settings(Build(c, type))
                          Of(what) == {s \in built : s[1][2] = what}
                          Items(kind, k) ==
                            {s[1][5] : s \in {s \in Of("area") : s[1][3] = k /\ s[1][4] = kind}}
                          number(a) == AreaNumber(a)
                          networks(ps) == {p[2] : p \in ps}
                      IN  /\ \A n \in ToSet(Neighbors(c)) :
                               {s[2] : s \in {s \in Of("peer") : s[1][4] = n.ip}} = {n.asn[2]}
                          /\ networks(ToSet(Networks(c))) = networks({s[1][3] : s \in Of("net")})
                          /\ type \in {"cisco_xr", "cisco_ios"} =>
                               \A n \in ToSet(Neighbors(c)) :
                                 "shutdown" \in n.knobs <=> n.ip \in Shut(built)
                          /\ DistinctAreas(c) =>
                               \A a \in ToSet(Areas(c)) :
                                 /\ type \in {"cisco_ios", "junos"} =>
                                      {s[2] : s \in {s \in Of("type") : s[1][3] = number(a)}}
                                        = {a.type} \ {"normal"}
                                 /\ networks(Items("net", number(a)))
                                      = IF type = "junos" THEN {} ELSE networks(ToSet(a.nets))
                                 /\ Items("interface", number(a))
                                      = IF type \in {"cisco_xr", "junos"} THEN a.ifs ELSE {}
    BY DEF BuildSaysDesired
  <2>1. IsConfig(c) /\ type \in Vendors \ {"nokia_sros"}
    BY AskedIsConfig, TypeKnown
  <2> DEFINE built == Settings(Build(c, type))
             Of(what) == {s \in built : s[1][2] = what}
             Items(kind, k) ==
               {s[1][5] : s \in {s \in Of("area") : s[1][3] = k /\ s[1][4] = kind}}
             number(a) == AreaNumber(a)
             networks(ps) == {p[2] : p \in ps}
  <2>2. ASSUME NEW n \in ToSet(Neighbors(c))
        PROVE  /\ {s[2] : s \in {s \in Of("peer") : s[1][4] = n.ip}} = {n.asn[2]}
               /\ type \in {"cisco_xr", "cisco_ios"} => ("shutdown" \in n.knobs <=> n.ip \in Shut(built))
    BY <2>1, PeersDesired
  <2>3. networks(ToSet(Networks(c))) = networks({s[1][3] : s \in Of("net")})
    BY <2>1, NetsDesired
  <2>4. ASSUME DistinctAreas(c), NEW a \in ToSet(Areas(c))
        PROVE  /\ type \in {"cisco_ios", "junos"} =>
                    {s[2] : s \in {s \in Of("type") : s[1][3] = number(a)}} = {a.type} \ {"normal"}
               /\ networks(Items("net", number(a)))
                    = IF type = "junos" THEN {} ELSE networks(ToSet(a.nets))
               /\ Items("interface", number(a))
                    = IF type \in {"cisco_xr", "junos"} THEN a.ifs ELSE {}
    <3>1. AreaDesired(c, type, a)
      BY <2>1, <2>4, AreasDesired
    <3> QED BY <3>1 DEF AreaDesired
  <2> QED BY <2>2, <2>3, <2>4, Zenon
<1> QED BY <1>1, Arrivals, Invariance, PTL
===============================================================================
