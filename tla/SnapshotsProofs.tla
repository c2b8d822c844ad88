--------------------------- MODULE SnapshotsProofs ---------------------------
(***************************************************************************)
(* What Snapshots promises of the earliest row of a deployment, for any    *)
(* attempts, deployments, configurations and bounds.                       *)
(*                                                                         *)
(* A row read when the device had lines of its deployment (or an AFTER row)*)
(* has a fresh one with an earlier stamp, because a push comes only after  *)
(* the commit of a row, and that row is fresh or has in its turn an        *)
(* earlier fresh one (Preceded).                                           *)
(***************************************************************************)
EXTENDS Snapshots, TLAPS

(* A committed row of k with a configuration of before any push of k, and  *)
(* with a stamp before t.                                                  *)
HasFresh(k, t) == \E q \in rows : q.deployment = k /\ Fresh(q) /\ q.stamp < t

HeldOK ==
  \A a \in Attempt :
    /\ at[a] \in {"captured", "stamped", "recaptured", "restamped"} =>
         held[a] \in Snapshot /\ held[a].deployment = DeploymentOf[a]
    /\ at[a] \in {"captured", "recaptured"} =>
         Fresh(held[a]) \/ HasFresh(DeploymentOf[a], clock)
    /\ at[a] \in {"stamped", "restamped"} =>
         /\ held[a].stamp < clock
         /\ Fresh(held[a]) \/ HasFresh(DeploymentOf[a], held[a].stamp)
    /\ at[a] \in {"saved", "pushed"} => HasFresh(DeploymentOf[a], clock)

Preceded ==
  \A r \in rows : (Fresh(r) \/ HasFresh(r.deployment, r.stamp))

TouchedOK == \A k \in Deployment : taken[k] # {} => HasFresh(k, clock)

(* The row a restore works from.                                           *)
RestoreOK == restore # NoSnapshot => restore.before \in Config /\ Fresh(restore)

IInv == TypeOK /\ HeldOK /\ Preceded /\ TouchedOK /\ RestoreOK

-----------------------------------------------------------------------------
(* Rows are never taken back, and the clock runs forward.                  *)
LEMMA FreshStays ==
  ASSUME IInv, rows \subseteq rows', clock <= clock', clock' \in Nat
  PROVE  /\ \A k, t : HasFresh(k, t) => HasFresh(k, t)'
         /\ \A k : HasFresh(k, clock) => HasFresh(k, clock)'
<1>1. clock \in Nat /\ \A q \in rows : q \in Snapshot /\ q.stamp \in Nat
  BY DEF IInv, TypeOK, Snapshot
<1> QED BY <1>1 DEF HasFresh

(* What is left to show of a step of attempt a, if it is not of the rows   *)
(* or of what was taken.                                                   *)
LEMMA OthersHeld ==
  ASSUME IInv, rows \subseteq rows', clock <= clock', clock' \in Nat,
         NEW a \in Attempt,
         \A b \in Attempt : b # a => at'[b] = at[b] /\ held'[b] = held[b],
         /\ at'[a] \in {"captured", "stamped", "recaptured", "restamped"} =>
              /\ held'[a] \in Snapshot /\ held'[a].deployment = DeploymentOf[a]
         /\ at'[a] \in {"captured", "recaptured"} =>
              Fresh(held'[a]) \/ HasFresh(DeploymentOf[a], clock)'
         /\ at'[a] \in {"stamped", "restamped"} =>
              /\ held'[a].stamp < clock'
              /\ Fresh(held'[a]) \/ HasFresh(DeploymentOf[a], held[a].stamp)'
         /\ at'[a] \in {"saved", "pushed"} => HasFresh(DeploymentOf[a], clock)'
  PROVE  HeldOK'
<1> SUFFICES ASSUME NEW b \in Attempt
             PROVE
    /\ at'[b] \in {"captured", "stamped", "recaptured", "restamped"} =>
         /\ held'[b] \in Snapshot /\ held'[b].deployment = DeploymentOf[b]
    /\ at'[b] \in {"captured", "recaptured"} =>
         Fresh(held'[b]) \/ HasFresh(DeploymentOf[b], clock)'
    /\ at'[b] \in {"stamped", "restamped"} =>
         /\ held'[b].stamp < clock'
         /\ Fresh(held'[b]) \/ HasFresh(DeploymentOf[b], held[b].stamp)'
    /\ at'[b] \in {"saved", "pushed"} => HasFresh(DeploymentOf[b], clock)'
  BY DEF HeldOK, Fresh
<1>1. CASE b = a
  BY <1>1
<1>2. CASE b # a
  <2>1. at'[b] = at[b] /\ held'[b] = held[b]
    BY <1>2
  <2>2. /\ HasFresh(DeploymentOf[b], clock) => HasFresh(DeploymentOf[b], clock)'
        /\ HasFresh(DeploymentOf[b], held[b].stamp) => HasFresh(DeploymentOf[b], held[b].stamp)'
    <3>1. ASSUME NEW q \in rows
          PROVE  q \in rows' /\ q.stamp \in Nat
      BY DEF IInv, TypeOK, Snapshot
    <3>2. clock \in Nat
      BY DEF IInv, TypeOK
    <3> QED BY <2>1, <3>1, <3>2 DEF HasFresh
  <2>3. at[b] \in {"stamped", "restamped"} => held[b].stamp \in Nat
    BY DEF IInv, HeldOK, Snapshot
  <2>4. clock \in Nat
    BY DEF IInv, TypeOK
  <2> QED BY <2>1, <2>2, <2>3, <2>4 DEF IInv, HeldOK
<1> QED BY <1>1, <1>2

LEMMA MergeType ==
  ASSUME NEW config \in Config, NEW lines \in Config
  PROVE  Merge(config, lines) \in Config
BY DEF Merge, Config

LEMMA SomeType ==
  ASSUME NEW lines \in Config, NEW S
  PROVE  Some(lines, S) \in Config
BY DEF Some, Config

-----------------------------------------------------------------------------
LEMMA CaptureBeforeKeeps ==
  ASSUME IInv, NEW a \in Attempt, CaptureBefore(a)
  PROVE  IInv'
<1> USE DEF IInv
<1>1. PICK read \in {running, Unread} :
        /\ Outcome(read = running)
        /\ held' = [held EXCEPT ![a] = Reading(a, read, Null)]
  BY DEF CaptureBefore
<1>2. /\ at' = [at EXCEPT ![a] = "captured"]
      /\ UNCHANGED <<running, rows, clock, taken, disturbed, restore, restores>>
  BY DEF CaptureBefore, Goto
<1> DEFINE r == Reading(a, read, Null)
<1>3. /\ r \in Snapshot /\ r.deployment = DeploymentOf[a] /\ r.before # Null
      /\ Fresh(r) \/ taken[DeploymentOf[a]] # {}
  <2>1. DeploymentOf[a] \in Deployment /\ read \in Saved /\ running \in Config
    BY AttemptAssumption DEF TypeOK, Saved
  <2>2. read # Null
    BY <2>1, MarkAssumption DEF Config
  <2>3. taken[DeploymentOf[a]] \subseteq Key
    BY <2>1 DEF TypeOK
  <2>4. r \in Snapshot
    BY <2>1, <2>3 DEF Reading, Snapshot
  <2> QED BY <2>2, <2>4 DEF Reading, Fresh
<1>4. held'[a] = r /\ at'[a] = "captured"
  BY <1>1, <1>2 DEF TypeOK
<1>5. TypeOK'
  <2>1. held' \in [Attempt -> Snapshot \cup {NoSnapshot}]
    BY <1>1, <1>3 DEF TypeOK
  <2>2. at' \in [Attempt -> Places]
    BY <1>2 DEF TypeOK, Places
  <2>3. faults' \in 0 .. MaxFaults
    BY <1>1, BoundAssumption DEF Outcome, TypeOK
  <2> QED BY <1>2, <2>1, <2>2, <2>3 DEF TypeOK
<1>6. HeldOK'
  <2>1. Fresh(r) \/ HasFresh(DeploymentOf[a], clock)
    BY <1>3, AttemptAssumption DEF TouchedOK
  <2>2. \A b \in Attempt : b # a => at'[b] = at[b] /\ held'[b] = held[b]
    BY <1>1, <1>2 DEF TypeOK
  <2>3. clock \in Nat /\ clock' = clock /\ rows' = rows
    BY <1>2 DEF TypeOK
  <2>4. HasFresh(DeploymentOf[a], clock) => HasFresh(DeploymentOf[a], clock)'
    BY <2>3 DEF HasFresh
  <2> QED BY <1>3, <1>4, <2>1, <2>2, <2>3, <2>4, OthersHeld
<1>7. Preceded' /\ TouchedOK' /\ RestoreOK'
  BY <1>2 DEF Preceded, TouchedOK, RestoreOK, HasFresh, Fresh
<1> QED BY <1>5, <1>6, <1>7

LEMMA StampKeeps ==
  ASSUME IInv, NEW a \in Attempt, Stamp(a)
  PROVE  IInv'
<1> USE DEF IInv
<1>1. /\ at[a] \in {"captured", "recaptured"}
      /\ held' = [held EXCEPT ![a] = Stamped(held[a])]
      /\ clock' = clock + 1 /\ clock \in Nat
      /\ at' = [at EXCEPT ![a] = IF at[a] = "captured" THEN "stamped" ELSE "restamped"]
      /\ UNCHANGED <<running, rows, taken, disturbed, restore, restores, faults>>
  BY DEF Stamp, Goto, TypeOK
<1>2. /\ held[a] \in Snapshot /\ held[a].deployment = DeploymentOf[a]
      /\ Fresh(held[a]) \/ HasFresh(DeploymentOf[a], clock)
  BY <1>1 DEF HeldOK
<1>3. /\ Stamped(held[a]) \in Snapshot /\ Stamped(held[a]).stamp = clock
      /\ Stamped(held[a]).deployment = held[a].deployment
      /\ Fresh(Stamped(held[a])) <=> Fresh(held[a])
      /\ Stamped(held[a]).before = held[a].before
  BY <1>1, <1>2 DEF Stamped, Snapshot, Fresh
<1>4. held'[a] = Stamped(held[a]) /\ at'[a] \in {"stamped", "restamped"}
  BY <1>1 DEF TypeOK
<1>5. TypeOK'
  <2>1. held' \in [Attempt -> Snapshot \cup {NoSnapshot}]
    BY <1>1, <1>3 DEF TypeOK
  <2>2. at' \in [Attempt -> Places]
    BY <1>1 DEF TypeOK, Places
  <2>3. \A r \in rows : r.stamp < clock'
    BY <1>1 DEF TypeOK, Snapshot
  <2> QED BY <1>1, <2>1, <2>2, <2>3 DEF TypeOK
<1>6. HeldOK'
  <2>1. \A b \in Attempt : b # a => at'[b] = at[b] /\ held'[b] = held[b]
    BY <1>1 DEF TypeOK
  <2>2. HasFresh(DeploymentOf[a], clock) => HasFresh(DeploymentOf[a], held[a].stamp)'
    BY <1>1, <1>3, <1>4 DEF HasFresh
  <2>4. Fresh(held'[a]) \/ HasFresh(DeploymentOf[a], held[a].stamp)'
    BY <1>2, <1>3, <1>4, <2>2
  <2>5. held'[a].stamp < clock' /\ clock <= clock' /\ clock' \in Nat
    BY <1>1, <1>3, <1>4
  <2>6. rows \subseteq rows' /\ held'[a] \in Snapshot /\ held'[a].deployment = DeploymentOf[a]
    BY <1>1, <1>2, <1>3, <1>4
  <2>7. at'[a] \notin {"captured", "recaptured", "saved", "pushed"}
    BY <1>4
  <2> HIDE DEF IInv
  <2> QED BY <2>1, <2>4, <2>5, <2>6, <2>7, OthersHeld
<1>7. Preceded' /\ TouchedOK' /\ RestoreOK'
  <2>1. \A k : HasFresh(k, clock) => HasFresh(k, clock)'
    BY <1>1, FreshStays
  <2> QED BY <1>1, <2>1 DEF Preceded, TouchedOK, RestoreOK, HasFresh, Fresh
<1> QED BY <1>5, <1>6, <1>7

(* A row is committed, or not, and nothing is held any more.               *)
LEMMA CommitEither ==
  ASSUME IInv, NEW a \in Attempt,
         at[a] \in {"stamped", "restamped"},
         rows' \in {rows, rows \cup {held[a]}},
         held' = [held EXCEPT ![a] = NoSnapshot],
         faults' \in 0 .. MaxFaults,
         UNCHANGED <<running, clock, taken, disturbed, restore, restores>>,
         \/ at' = [at EXCEPT ![a] = "ended"]
         \/ at' = [at EXCEPT ![a] = "saved"] /\ rows' = rows \cup {held[a]}
  PROVE  IInv'
<1>1. TypeOK /\ HeldOK /\ Preceded /\ TouchedOK /\ RestoreOK
  BY DEF IInv
<1>2. /\ held[a] \in Snapshot /\ held[a].deployment = DeploymentOf[a]
      /\ held[a].stamp < clock
      /\ Fresh(held[a]) \/ HasFresh(DeploymentOf[a], held[a].stamp)
  BY <1>1 DEF HeldOK
<1>3. /\ clock \in Nat /\ clock' = clock /\ held[a].stamp \in Nat
      /\ rows \subseteq rows' /\ rows \subseteq Snapshot
  BY <1>1, <1>2 DEF TypeOK, Snapshot
<1>4. /\ \A k, t : HasFresh(k, t) => HasFresh(k, t)'
      /\ \A k : HasFresh(k, clock) => HasFresh(k, clock)'
  BY <1>3 DEF HasFresh
<1>5. TypeOK'
  <2>1. at' \in [Attempt -> Places] /\ held' \in [Attempt -> Snapshot \cup {NoSnapshot}]
    BY <1>1 DEF TypeOK, Places
  <2>2. rows' \subseteq Snapshot /\ \A r \in rows' : r.stamp < clock
    BY <1>1, <1>2 DEF TypeOK
  <2> QED BY <1>1, <2>1, <2>2 DEF TypeOK
<1>6. HeldOK'
  <2>1. \A b \in Attempt : b # a => at'[b] = at[b] /\ held'[b] = held[b]
    BY <1>1 DEF TypeOK
  <2>2. \/ at'[a] = "ended"
        \/ at'[a] = "saved" /\ rows' = rows \cup {held[a]}
    <3>1. a \in DOMAIN at
      BY <1>1 DEF TypeOK
    <3>2. CASE at' = [at EXCEPT ![a] = "ended"]
      BY <3>1, <3>2
    <3>3. CASE at' = [at EXCEPT ![a] = "saved"] /\ rows' = rows \cup {held[a]}
      BY <3>1, <3>3
    <3> QED BY <3>2, <3>3
  <2>3. rows' = rows \cup {held[a]} => HasFresh(DeploymentOf[a], clock)'
    <3> SUFFICES ASSUME rows' = rows \cup {held[a]}
                 PROVE  \E q \in rows' : q.deployment = DeploymentOf[a] /\ Fresh(q) /\ q.stamp < clock
      BY <1>3 DEF HasFresh
    <3>1. CASE Fresh(held[a])
      BY <1>2, <3>1
    <3>2. CASE HasFresh(DeploymentOf[a], held[a].stamp)
      <4>1. PICK q \in rows : q.deployment = DeploymentOf[a] /\ Fresh(q) /\ q.stamp < held[a].stamp
        BY <3>2 DEF HasFresh
      <4>2. q.stamp < clock
        BY <4>1, <1>1 DEF TypeOK
      <4> QED BY <4>1, <4>2
    <3> QED BY <1>2, <3>1, <3>2
  <2> QED BY <1>3, <2>1, <2>2, <2>3, OthersHeld
<1>7. Preceded'
  <2> SUFFICES ASSUME NEW r \in rows'
               PROVE  (Fresh(r) \/ HasFresh(r.deployment, r.stamp)')
    BY DEF Preceded, Fresh, HasFresh
  <2>1. (Fresh(r) \/ HasFresh(r.deployment, r.stamp))
    BY <1>1, <1>2 DEF Preceded
  <2>2. HasFresh(r.deployment, r.stamp) => HasFresh(r.deployment, r.stamp)'
    BY <1>3 DEF HasFresh
  <2> QED BY <2>1, <2>2
<1>8. TouchedOK' /\ RestoreOK'
  BY <1>1, <1>4 DEF TouchedOK, RestoreOK
<1> QED BY <1>5, <1>6, <1>7, <1>8 DEF IInv

LEMMA CommitKeeps ==
  ASSUME IInv, NEW a \in Attempt, Commit(a) \/ CommitFails(a)
  PROVE  IInv'
<1>1. faults \in 0 .. MaxFaults /\ MaxFaults \in Nat
  BY BoundAssumption DEF IInv, TypeOK
<1>2. CASE Commit(a)
  <2>1. /\ at[a] \in {"stamped", "restamped"}
        /\ rows' = rows \cup {held[a]}
        /\ held' = [held EXCEPT ![a] = NoSnapshot]
        /\ faults' = faults
        /\ UNCHANGED <<running, clock, taken, disturbed, restore, restores>>
        /\ \/ at' = [at EXCEPT ![a] = "ended"]
           \/ at' = [at EXCEPT ![a] = "saved"]
    BY <1>2 DEF Commit, Goto
  <2> QED BY <1>1, <2>1, CommitEither
<1>3. CASE CommitFails(a)
  <2>1. faults' \in 0 .. MaxFaults
    BY <1>1, <1>3 DEF CommitFails, Outcome
  <2>2. /\ at[a] \in {"stamped", "restamped"}
        /\ rows' \in {rows, rows \cup {held[a]}}
        /\ held' = [held EXCEPT ![a] = NoSnapshot]
        /\ UNCHANGED <<running, clock, taken, disturbed, restore, restores>>
        /\ at' = [at EXCEPT ![a] = "ended"]
    BY <1>3 DEF CommitFails, Goto
  <2> QED BY <2>1, <2>2, CommitEither
<1> QED BY <1>2, <1>3

LEMMA DeviceTakesKeeps ==
  ASSUME IInv, NEW a \in Attempt, DeviceTakes(a)
  PROVE  IInv'
<1> DEFINE k == DeploymentOf[a]
<1>1. TypeOK /\ HeldOK /\ Preceded /\ TouchedOK /\ RestoreOK
  BY DEF IInv
<1>2. PICK x \in Key :
        /\ running' = Merge(running, Some(Pushes[k], {x}))
        /\ taken' = [taken EXCEPT ![k] = @ \cup {x}]
  BY DEF DeviceTakes
<1>3. /\ at[a] = "saved"
      /\ disturbed' = disturbed \cup (Begun \ {k})
      /\ UNCHANGED <<at, held, rows, clock, restore, restores, faults>>
  BY DEF DeviceTakes
<1>4. k \in Deployment /\ clock \in Nat /\ HasFresh(k, clock)
  BY <1>1, <1>3, AttemptAssumption DEF TypeOK, HeldOK
<1>5. TypeOK'
  <2>1. running' \in Config
    <3>1. Pushes[k] \in Config
      BY <1>4, ValueAssumption DEF Config
    <3> QED BY <1>1, <1>2, <3>1, SomeType, MergeType DEF TypeOK
  <2>2. taken' \in [Deployment -> SUBSET Key]
    BY <1>1, <1>2 DEF TypeOK
  <2>3. disturbed' \subseteq Deployment
    BY <1>1, <1>3, <1>4, AttemptAssumption DEF Begun, TypeOK
  <2> QED BY <1>1, <1>3, <2>1, <2>2, <2>3 DEF TypeOK
<1>6. HeldOK' /\ Preceded' /\ RestoreOK'
  BY <1>1, <1>3 DEF HeldOK, Preceded, RestoreOK, HasFresh, Fresh
<1>7. TouchedOK'
  <2>1. \A j \in Deployment : j # k => taken'[j] = taken[j]
    BY <1>1, <1>2 DEF TypeOK
  <2>2. \A j : HasFresh(j, clock) => HasFresh(j, clock)'
    BY <1>3 DEF HasFresh, Fresh
  <2> QED BY <1>1, <1>4, <2>1, <2>2 DEF TouchedOK
<1> QED BY <1>5, <1>6, <1>7 DEF IInv

LEMMA PushKeeps ==
  ASSUME IInv, NEW a \in Attempt, Push(a)
  PROVE  IInv'
<1>1. TypeOK /\ HeldOK /\ Preceded /\ TouchedOK /\ RestoreOK
  BY DEF IInv
<1>2. PICK noticed \in BOOLEAN :
        /\ Outcome(~noticed)
        /\ at' = [at EXCEPT ![a] = IF noticed THEN "ended" ELSE "pushed"]
  BY DEF Push, Goto
<1>3. /\ at[a] = "saved"
      /\ UNCHANGED <<running, held, rows, clock, taken, disturbed, restore, restores>>
  BY DEF Push
<1>4. TypeOK'
  <2>1. at' \in [Attempt -> Places]
    BY <1>1, <1>2 DEF TypeOK, Places
  <2>2. faults' \in 0 .. MaxFaults
    BY <1>1, <1>2, BoundAssumption DEF Outcome, TypeOK
  <2> QED BY <1>1, <1>3, <2>1, <2>2 DEF TypeOK
<1>5. HeldOK'
  <2>1. \A b \in Attempt : b # a => at'[b] = at[b] /\ held'[b] = held[b]
    BY <1>1, <1>2, <1>3 DEF TypeOK
  <2>2. at'[a] \in {"pushed", "ended"}
    BY <1>1, <1>2 DEF TypeOK
  <2>3. HasFresh(DeploymentOf[a], clock)'
    BY <1>1, <1>3 DEF HeldOK, HasFresh
  <2>4. rows \subseteq rows' /\ clock <= clock' /\ clock' \in Nat
    BY <1>1, <1>3 DEF TypeOK
  <2> QED BY <2>1, <2>2, <2>3, <2>4, OthersHeld
<1>6. Preceded' /\ TouchedOK' /\ RestoreOK'
  BY <1>1, <1>3 DEF Preceded, TouchedOK, RestoreOK, HasFresh, Fresh
<1> QED BY <1>4, <1>5, <1>6 DEF IInv

LEMMA VerifyFailsKeeps ==
  ASSUME IInv, NEW a \in Attempt, VerifyFails(a)
  PROVE  IInv'
<1>1. TypeOK /\ HeldOK /\ Preceded /\ TouchedOK /\ RestoreOK
  BY DEF IInv
<1>2. /\ at' = [at EXCEPT ![a] = "ended"] /\ Outcome(FALSE)
      /\ UNCHANGED <<running, held, rows, clock, taken, disturbed, restore, restores>>
  BY DEF VerifyFails, Goto
<1>3. TypeOK'
  <2>1. at' \in [Attempt -> Places]
    BY <1>1, <1>2 DEF TypeOK, Places
  <2>2. faults' \in 0 .. MaxFaults
    BY <1>1, <1>2, BoundAssumption DEF Outcome, TypeOK
  <2> QED BY <1>1, <1>2, <2>1, <2>2 DEF TypeOK
<1>4. HeldOK'
  <2>1. at'[a] = "ended" /\ \A b \in Attempt : b # a => at'[b] = at[b] /\ held'[b] = held[b]
    BY <1>1, <1>2 DEF TypeOK
  <2>2. rows \subseteq rows' /\ clock <= clock' /\ clock' \in Nat
    BY <1>1, <1>2 DEF TypeOK
  <2> QED BY <2>1, <2>2, OthersHeld
<1>5. Preceded' /\ TouchedOK' /\ RestoreOK'
  BY <1>1, <1>2 DEF Preceded, TouchedOK, RestoreOK, HasFresh, Fresh
<1> QED BY <1>3, <1>4, <1>5 DEF IInv

LEMMA CaptureAfterKeeps ==
  ASSUME IInv, NEW a \in Attempt, CaptureAfter(a)
  PROVE  IInv'
<1>1. TypeOK /\ HeldOK /\ Preceded /\ TouchedOK /\ RestoreOK
  BY DEF IInv
<1>2. PICK read \in {running, Unread} :
        /\ Outcome(read = running)
        /\ held' = [held EXCEPT ![a] = Reading(a, Null, read)]
  BY DEF CaptureAfter
<1>3. /\ at[a] = "pushed" /\ at' = [at EXCEPT ![a] = "recaptured"]
      /\ UNCHANGED <<running, rows, clock, taken, disturbed, restore, restores>>
  BY DEF CaptureAfter, Goto
<1> DEFINE r == Reading(a, Null, read)
<1>4. r \in Snapshot /\ r.deployment = DeploymentOf[a]
  <2>1. DeploymentOf[a] \in Deployment /\ read \in Saved
    BY <1>1, AttemptAssumption DEF TypeOK, Saved
  <2>2. taken[DeploymentOf[a]] \subseteq Key
    BY <1>1, <2>1 DEF TypeOK
  <2> QED BY <2>1, <2>2 DEF Reading, Snapshot
<1>5. held'[a] = r /\ at'[a] = "recaptured"
  BY <1>1, <1>2, <1>3 DEF TypeOK
<1>6. TypeOK'
  <2>1. held' \in [Attempt -> Snapshot \cup {NoSnapshot}]
    BY <1>1, <1>2, <1>4 DEF TypeOK
  <2>2. at' \in [Attempt -> Places]
    BY <1>1, <1>3 DEF TypeOK, Places
  <2>3. faults' \in 0 .. MaxFaults
    BY <1>1, <1>2, BoundAssumption DEF Outcome, TypeOK
  <2> QED BY <1>1, <1>3, <2>1, <2>2, <2>3 DEF TypeOK
<1>7. HeldOK'
  <2>1. \A b \in Attempt : b # a => at'[b] = at[b] /\ held'[b] = held[b]
    BY <1>1, <1>2, <1>3 DEF TypeOK
  <2>2. HasFresh(DeploymentOf[a], clock)'
    BY <1>1, <1>3 DEF HeldOK, HasFresh
  <2>3. rows \subseteq rows' /\ clock <= clock' /\ clock' \in Nat
    BY <1>1, <1>3 DEF TypeOK
  <2> QED BY <1>4, <1>5, <2>1, <2>2, <2>3, OthersHeld
<1>8. Preceded' /\ TouchedOK' /\ RestoreOK'
  BY <1>1, <1>3 DEF Preceded, TouchedOK, RestoreOK, HasFresh, Fresh
<1> QED BY <1>6, <1>7, <1>8 DEF IInv

(* Steps that leave the attempts, the rows and the clock alone.            *)
LEMMA RestoreKeeps ==
  ASSUME IInv, UNCHANGED <<at, held, rows, clock, taken, faults>>,
         running' \in Config, disturbed' \subseteq Deployment,
         restore' \in Snapshot \cup {NoSnapshot}, restores' \in 0 .. MaxRestores,
         RestoreOK'
  PROVE  IInv'
<1>1. TypeOK'
  BY DEF IInv, TypeOK
<1>2. HeldOK' /\ Preceded' /\ TouchedOK'
  BY DEF IInv, HeldOK, Preceded, TouchedOK, HasFresh, Fresh
<1> QED BY <1>1, <1>2 DEF IInv

(* The earliest row is fresh: a row that is not has an earlier one.        *)
LEMMA EarliestIsFresh ==
  ASSUME IInv, NEW k \in Deployment, NEW r \in rows, IsEarliest(k, r)
  PROVE  Fresh(r)
<1>1. (Fresh(r) \/ HasFresh(r.deployment, r.stamp))
  BY DEF IInv, Preceded
<1>2. ASSUME NEW q \in rows, q.deployment = r.deployment
      PROVE  ~ (q.stamp < r.stamp)
  <2>1. q.stamp \in Nat /\ r.stamp \in Nat
    BY DEF IInv, TypeOK, Snapshot
  <2>2. r.stamp <= q.stamp
    BY <1>2 DEF IsEarliest, RowsOf
  <2> QED BY <2>1, <2>2
<1>3. ~ HasFresh(r.deployment, r.stamp)
  BY <1>2 DEF HasFresh
<1> QED BY <1>1, <1>3

LEMMA FindRowKeeps ==
  ASSUME IInv, NEW k \in Deployment, FindRow(k)
  PROVE  IInv'
<1>1. PICK r \in rows : IsEarliest(k, r) /\ Usable(r) /\ restore' = r
  BY DEF FindRow
<1>2. r \in Snapshot /\ r.before \in Config /\ Fresh(r)
  BY <1>1, EarliestIsFresh DEF IInv, TypeOK, Snapshot, Saved, Usable
<1>3. /\ restores' \in 0 .. MaxRestores /\ restore' \in Snapshot /\ RestoreOK'
      /\ running' \in Config /\ disturbed' \subseteq Deployment
      /\ UNCHANGED <<at, held, rows, clock, taken, faults>>
  BY <1>1, <1>2, BoundAssumption DEF FindRow, IInv, TypeOK, RestoreOK
<1> QED BY <1>3, RestoreKeeps

LEMMA ReplayKeeps ==
  ASSUME IInv, Replay
  PROVE  IInv'
<1>1. PICK S \in SUBSET Key : running' = Merge(running, Some(restore.before, S))
  BY DEF Replay
<1>2. /\ running \in Config /\ restore.before \in Config
      /\ disturbed \subseteq Deployment /\ restores \in 0 .. MaxRestores
  BY DEF IInv, TypeOK, RestoreOK, Replay
<1>3. /\ disturbed' \subseteq Deployment /\ restore' = NoSnapshot /\ restores' = restores
      /\ UNCHANGED <<at, held, rows, clock, taken, faults>>
  BY <1>2, AttemptAssumption DEF Replay, Begun
<1>4. running' \in Config
  BY <1>1, <1>2, SomeType, MergeType
<1>5. RestoreOK'
  BY <1>3 DEF RestoreOK
<1> QED BY <1>2, <1>3, <1>4, <1>5, RestoreKeeps

LEMMA StepKeeps ==
  ASSUME IInv, [Next]_vars
  PROVE  IInv'
<1>1. CASE UNCHANGED vars
  BY <1>1 DEF vars, IInv, TypeOK, HeldOK, Preceded, TouchedOK, RestoreOK, HasFresh,
              Fresh
<1>2. ASSUME NEW a \in Attempt, Deploy(a)
      PROVE  IInv'
  BY <1>2, CaptureBeforeKeeps, StampKeeps, CommitKeeps, DeviceTakesKeeps, PushKeeps,
     VerifyFailsKeeps, CaptureAfterKeeps DEF Deploy
<1> QED BY <1>1, <1>2, FindRowKeeps, ReplayKeeps DEF Next

LEMMA InitHolds == Init => IInv
<1> SUFFICES ASSUME Init PROVE IInv
  OBVIOUS
<1>1. Initial \in Config
  BY ValueAssumption DEF Config
<1>2. TypeOK
  BY <1>1, BoundAssumption DEF Init, TypeOK, Places
<1> QED BY <1>2 DEF Init, IInv, HeldOK, Preceded, TouchedOK, RestoreOK

LEMMA Invariance == Spec => []IInv
<1> QED BY InitHolds, StepKeeps, PTL DEF Spec

-----------------------------------------------------------------------------
(* TypeOK, for any constants.                                              *)
THEOREM TypeCorrect == Spec => []TypeOK
<1>1. IInv => TypeOK
  BY DEF IInv
<1> QED BY <1>1, Invariance, PTL

(* The row restore_snapshot reads is the configuration of before the push, *)
(* however attempts overlap, repeat, fail to commit or break off.          *)
THEOREM PreImage == Spec => []EarliestIsPreImage
<1>1. IInv => EarliestIsPreImage
  BY EarliestIsFresh DEF EarliestIsPreImage
<1> QED BY <1>1, Invariance, PTL

-----------------------------------------------------------------------------
(* What the rows tell of the change.  A row's contents, and those of the   *)
(* snapshots in hand, are looked at together: stamping and committing      *)
(* changes nothing of them.                                                *)

Content(r) ==
  [k |-> r.deployment, before |-> r.before, after |-> r.after, taken |-> r.taken]

Known ==
  {Content(r) : r \in rows}
    \cup {Content(held[a]) : a \in {b \in Attempt : held[b] # NoSnapshot}}

Undisturbed(c) == c.k \notin disturbed

(* What a configuration comes to with those of k's lines that are in S.    *)
Grown(k, x, S, value) == IF x \in S THEN Pushes[k][x] ELSE value

(* Since a configuration was read only its deployment changed it, and by   *)
(* the lines that the device has taken.                                    *)
Traced ==
  \A c \in Known : Undisturbed(c) =>
    \A v \in {c.before, c.after} \cap Config :
      \A x \in Key : running[x] = Grown(c.k, x, taken[c.k], v[x])

(* The lines it has taken are there.                                       *)
Landed ==
  \A k \in Deployment : k \notin disturbed =>
    \A x \in taken[k] : running[x] = Pushes[k][x]

Pairs ==
  \A c, e \in Known :
    /\ c.k = e.k /\ e.taken = {} /\ Undisturbed(c)
    /\ {e.before, c.after} \subseteq Config
    => \A x \in Key : c.after[x] = Grown(c.k, x, c.taken, e.before[x])

Begotten ==
  /\ \A c \in Known : c.k \in Begun /\ c.taken \subseteq taken[c.k]
  /\ \A k \in Deployment : \A x \in taken[k] : k \in Begun /\ Pushes[k][x] # NoLine

Replayed ==
  restore # NoSnapshot => restore \in rows

Trail == Traced /\ Landed /\ Pairs /\ Begotten /\ Replayed

LEMMA KnownNext ==
  ASSUME NEW X,
         \A r \in rows' : Content(r) \in X,
         \A b \in Attempt : held'[b] # NoSnapshot => Content(held'[b]) \in X
  PROVE  Known' \subseteq X
BY DEF Known, Content

LEMMA BegunGrows ==
  ASSUME IInv, NEW a \in Attempt, NEW place, place # "begin",
         at' = [at EXCEPT ![a] = place]
  PROVE  Begun \subseteq Begun'
<1>1. \A b \in Attempt : at[b] # "begin" => at'[b] # "begin"
  BY DEF IInv, TypeOK
<1> QED BY <1>1 DEF Begun

(* A step that reads nothing and changes nothing on the device.            *)
LEMMA QuietKeepsTrail ==
  ASSUME IInv, Trail, UNCHANGED <<running, taken, disturbed>>,
         Known' \subseteq Known, Begun \subseteq Begun',
         restore' # NoSnapshot => restore' \in rows'
  PROVE  Trail'
<1>1. Traced' /\ Landed'
  BY DEF Trail, Traced, Landed, Undisturbed, Grown
<1>2. Pairs'
  BY DEF Trail, Pairs, Undisturbed, Grown
<1>3. Begotten'
  BY DEF Trail, Begotten
<1>4. Replayed'
  BY DEF Replayed
<1> QED BY <1>1, <1>2, <1>3, <1>4 DEF Trail

(* A step that reads the device's configuration: what was read is told     *)
(* from what was known by what the device has taken since.                 *)
LEMMA ReadingKeepsTrail ==
  ASSUME IInv, Trail, NEW a \in Attempt,
         UNCHANGED <<running, rows, taken, disturbed, restore>>,
         NEW place, place # "begin", at' = [at EXCEPT ![a] = place],
         NEW before, NEW after,
         held' = [held EXCEPT ![a] = Reading(a, before, after)],
         {before, after} \cap Config \subseteq {running}
  PROVE  Trail'
<1> DEFINE n == Content(Reading(a, before, after))
<1>1. /\ held \in [Attempt -> Snapshot \cup {NoSnapshot}]
      /\ at \in [Attempt -> Places] /\ running \in Config
      /\ DeploymentOf[a] \in Deployment
  BY AttemptAssumption DEF IInv, TypeOK
<1>n. /\ n.k = DeploymentOf[a] /\ n.before = before /\ n.after = after
      /\ n.taken = taken[DeploymentOf[a]]
  BY DEF Content, Reading
<1>2. Known' \subseteq Known \cup {n}
  <2>1. ASSUME NEW b \in Attempt, held'[b] # NoSnapshot
        PROVE  Content(held'[b]) \in Known \cup {n}
    <3>1. CASE b = a
      BY <1>1, <3>1
    <3>2. CASE b # a
      <4>1. held'[b] = held[b]
        BY <1>1, <3>2
      <4> QED BY <2>1, <4>1 DEF Known
    <3> QED BY <3>1, <3>2
  <2>2. \A r \in rows' : Content(r) \in Known \cup {n}
    BY DEF Known
  <2> QED BY <2>1, <2>2, KnownNext
<1>3. Begun \subseteq Begun' /\ DeploymentOf[a] \in Begun'
  <2>1. Begun \subseteq Begun'
    BY BegunGrows
  <2>2. at'[a] # "begin"
    BY <1>1
  <2> QED BY <2>1, <2>2 DEF Begun
<1> HIDE DEF n
<1>4. ASSUME DeploymentOf[a] \notin disturbed, NEW x \in Key
      PROVE  running[x] = Grown(DeploymentOf[a], x, taken[DeploymentOf[a]], running[x])
  BY <1>1, <1>4 DEF Trail, Landed, Grown
<1>5. Traced'
  <2> SUFFICES ASSUME NEW c \in Known', c.k \notin disturbed,
                      NEW v \in {c.before, c.after} \cap Config, NEW x \in Key
               PROVE  running[x] = Grown(c.k, x, taken[c.k], v[x])
    BY DEF Traced, Undisturbed, Grown
  <2>1. CASE c = n
    <3>1. v = running /\ c.k = DeploymentOf[a]
      BY <1>n, <2>1
    <3> QED BY <1>4, <3>1
  <2>2. CASE c \in Known
    BY <2>2 DEF Trail, Traced, Undisturbed
  <2> QED BY <1>2, <2>1, <2>2
<1>6. Landed'
  BY DEF Trail, Landed
<1>7. Pairs'
  <2> SUFFICES ASSUME NEW c \in Known', NEW e \in Known', c.k = e.k, e.taken = {},
                      c.k \notin disturbed, {e.before, c.after} \subseteq Config,
                      NEW x \in Key
               PROVE  c.after[x] = Grown(c.k, x, c.taken, e.before[x])
    BY DEF Pairs, Undisturbed, Grown
  <2>1. CASE c = n /\ e = n
    BY <1>n, <2>1 DEF Grown
  <2>2. CASE c = n /\ e \in Known
    <3>1. running[x] = Grown(e.k, x, taken[e.k], e.before[x])
      BY <2>2 DEF Trail, Traced, Undisturbed
    <3> QED BY <1>n, <2>2, <3>1
  <2>3. CASE c \in Known /\ e = n
    <3>1. running[x] = Grown(c.k, x, taken[c.k], c.after[x])
      BY <2>3 DEF Trail, Traced, Undisturbed
    <3>2. taken[c.k] = {} /\ c.taken = {}
      BY <1>n, <2>3 DEF Trail, Begotten
    <3> QED BY <1>n, <2>3, <3>1, <3>2 DEF Grown
  <2>4. CASE c \in Known /\ e \in Known
    BY <2>4 DEF Trail, Pairs, Undisturbed
  <2> QED BY <1>2, <2>1, <2>2, <2>3, <2>4
<1>8. Begotten'
  BY <1>2, <1>3, <1>n DEF Trail, Begotten
<1>9. Replayed'
  BY DEF Trail, Replayed
<1> QED BY <1>5, <1>6, <1>7, <1>8, <1>9 DEF Trail

LEMMA CaptureTrail ==
  ASSUME IInv, Trail, NEW a \in Attempt, CaptureBefore(a) \/ CaptureAfter(a)
  PROVE  Trail'
<1>1. Null \notin Config /\ Unread \notin Config
  BY MarkAssumption DEF Config
<1>2. UNCHANGED <<running, rows, taken, disturbed, restore>>
  BY DEF CaptureBefore, CaptureAfter
<1>3. CASE CaptureBefore(a)
  <2>1. PICK read \in {running, Unread} :
          held' = [held EXCEPT ![a] = Reading(a, read, Null)]
    BY <1>3 DEF CaptureBefore
  <2>2. at' = [at EXCEPT ![a] = "captured"]
    BY <1>3 DEF CaptureBefore, Goto
  <2>3. {read, Null} \cap Config \subseteq {running}
    BY <1>1
  <2> QED BY <1>2, <2>1, <2>2, <2>3, ReadingKeepsTrail
<1>4. CASE CaptureAfter(a)
  <2>1. PICK read \in {running, Unread} :
          held' = [held EXCEPT ![a] = Reading(a, Null, read)]
    BY <1>4 DEF CaptureAfter
  <2>2. at' = [at EXCEPT ![a] = "recaptured"]
    BY <1>4 DEF CaptureAfter, Goto
  <2>3. {Null, read} \cap Config \subseteq {running}
    BY <1>1
  <2> QED BY <1>2, <2>1, <2>2, <2>3, ReadingKeepsTrail
<1> QED BY <1>3, <1>4

LEMMA StampTrail ==
  ASSUME IInv, Trail, NEW a \in Attempt, Stamp(a)
  PROVE  Trail'
<1>1. /\ held' = [held EXCEPT ![a] = Stamped(held[a])]
      /\ UNCHANGED <<running, rows, taken, disturbed, restore>>
  BY DEF Stamp
<1>2. PICK place \in {"stamped", "restamped"} : at' = [at EXCEPT ![a] = place]
  BY DEF Stamp, Goto
<1>3. /\ held \in [Attempt -> Snapshot \cup {NoSnapshot}] /\ at \in [Attempt -> Places]
      /\ held[a] \in Snapshot
  BY DEF IInv, TypeOK, HeldOK, Stamp
<1>4. Content(held'[a]) \in Known
  <2>1. Content(Stamped(held[a])) = Content(held[a])
    BY <1>3 DEF Content, Stamped, Snapshot
  <2>2. held'[a] = Stamped(held[a])
    BY <1>1, <1>3
  <2>3. Content(held[a]) \in Known
    BY <1>3, NoSnapshotAssumption DEF Known
  <2> QED BY <2>1, <2>2, <2>3
<1>5. ASSUME NEW b \in Attempt, b # a, held'[b] # NoSnapshot
      PROVE  Content(held'[b]) \in Known
  <2>1. held'[b] = held[b]
    BY <1>1, <1>3, <1>5
  <2> QED BY <1>5, <2>1 DEF Known
<1>6. \A r \in rows' : Content(r) \in Known
  BY <1>1 DEF Known
<1>7. Known' \subseteq Known
  BY <1>4, <1>5, <1>6, KnownNext
<1>8. Begun \subseteq Begun'
  BY <1>2, BegunGrows
<1>10. restore' # NoSnapshot => restore' \in rows'
  BY <1>1 DEF Trail, Replayed
<1> QED BY <1>1, <1>7, <1>8, <1>10, QuietKeepsTrail

(* Whether the commit goes through or not.                                 *)
LEMMA CommitTrail ==
  ASSUME IInv, Trail, NEW a \in Attempt, Commit(a) \/ CommitFails(a)
  PROVE  Trail'
<1>1. /\ held' = [held EXCEPT ![a] = NoSnapshot]
      /\ rows \subseteq rows' /\ rows' \subseteq rows \cup {held[a]}
      /\ UNCHANGED <<running, taken, disturbed, restore>>
  BY DEF Commit, CommitFails
<1>2. PICK place \in {"saved", "ended"} : at' = [at EXCEPT ![a] = place]
  BY DEF Commit, CommitFails, Goto
<1>3. /\ held \in [Attempt -> Snapshot \cup {NoSnapshot}] /\ at \in [Attempt -> Places]
      /\ held[a] \in Snapshot
  BY DEF IInv, TypeOK, HeldOK, Commit, CommitFails
<1>4. Content(held[a]) \in Known
  BY <1>3, NoSnapshotAssumption DEF Known
<1>5. \A r \in rows' : Content(r) \in Known
  BY <1>1, <1>4 DEF Known
<1>6. ASSUME NEW b \in Attempt, held'[b] # NoSnapshot
      PROVE  Content(held'[b]) \in Known
  <2>1. held'[b] = held[b]
    BY <1>1, <1>3, <1>6
  <2> QED BY <1>6, <2>1 DEF Known
<1>7. Known' \subseteq Known
  BY <1>5, <1>6, KnownNext
<1>8. Begun \subseteq Begun'
  BY <1>2, BegunGrows
<1>10. restore' # NoSnapshot => restore' \in rows'
  BY <1>1 DEF Trail, Replayed
<1> QED BY <1>1, <1>7, <1>8, <1>10, QuietKeepsTrail

(* What the push or the verification says changes only the attempt.        *)
LEMMA OutcomeTrail ==
  ASSUME IInv, Trail, NEW a \in Attempt, Push(a) \/ VerifyFails(a)
  PROVE  Trail'
<1>1. UNCHANGED <<running, held, rows, taken, disturbed, restore>>
  BY DEF Push, VerifyFails
<1>2. PICK place \in {"pushed", "ended"} : at' = [at EXCEPT ![a] = place]
  BY DEF Push, VerifyFails, Goto
<1>3. Known' \subseteq Known
  BY <1>1 DEF Known
<1>4. Begun \subseteq Begun'
  BY <1>2, BegunGrows
<1>5. restore' # NoSnapshot => restore' \in rows'
  BY <1>1 DEF Trail, Replayed
<1> QED BY <1>1, <1>3, <1>4, <1>5, QuietKeepsTrail

LEMMA FindRowTrail ==
  ASSUME IInv, Trail, NEW k \in Deployment, FindRow(k)
  PROVE  Trail'
<1>1. UNCHANGED <<running, at, held, rows, taken, disturbed>> /\ restore' \in rows
  BY DEF FindRow
<1>2. Known' \subseteq Known /\ Begun \subseteq Begun'
  BY <1>1 DEF Known, Begun
<1> QED BY <1>1, <1>2, QuietKeepsTrail

(* A replay disturbs all that have begun, so nothing is left to show.      *)
LEMMA ReplayTrail ==
  ASSUME IInv, Trail, Replay
  PROVE  Trail'
<1>1. /\ UNCHANGED <<at, held, rows, taken>>
      /\ disturbed' = disturbed \cup Begun /\ restore' = NoSnapshot
  BY DEF Replay
<1>2. Known' = Known /\ Begun' = Begun
  BY <1>1 DEF Known, Begun
<1>3. \A c \in Known' : ~ Undisturbed(c)'
  BY <1>1, <1>2 DEF Trail, Begotten, Undisturbed
<1>4. Traced' /\ Pairs'
  BY <1>3 DEF Traced, Pairs
<1>5. Landed'
  BY <1>1 DEF Trail, Landed, Begotten
<1>6. Begotten'
  BY <1>1, <1>2 DEF Trail, Begotten
<1>7. Replayed'
  BY <1>1 DEF Replayed
<1> QED BY <1>4, <1>5, <1>6, <1>7 DEF Trail

(* A line taken of k disturbs all that have begun but k, so only what was  *)
(* read for k is left to show.                                             *)
LEMMA DeviceTakesTrail ==
  ASSUME IInv, Trail, NEW a \in Attempt, DeviceTakes(a)
  PROVE  Trail'
<1> DEFINE k == DeploymentOf[a]
<1>1. PICK y \in Key :
        /\ Pushes[k][y] # NoLine
        /\ running' = Merge(running, Some(Pushes[k], {y}))
        /\ taken' = [taken EXCEPT ![k] = @ \cup {y}]
  BY DEF DeviceTakes
<1>2. /\ disturbed' = disturbed \cup (Begun \ {k})
      /\ UNCHANGED <<at, held, rows, restore>> /\ at[a] = "saved"
  BY DEF DeviceTakes
<1>3. k \in Deployment /\ k \in Begun
  BY <1>2, AttemptAssumption DEF Begun
<1>4. Known' = Known /\ Begun' = Begun
  BY <1>2 DEF Known, Begun
<1>5. taken'[k] = taken[k] \cup {y} /\ \A j \in Deployment : j # k => taken'[j] = taken[j]
  BY <1>1, <1>3 DEF IInv, TypeOK
<1>6. \A x \in Key : running'[x] = IF x = y THEN Pushes[k][x] ELSE running[x]
  BY <1>1 DEF Merge, Some
<1> HIDE DEF k
<1>7. Traced'
  <2> SUFFICES ASSUME NEW c \in Known', c.k \notin disturbed',
                      NEW v \in {c.before, c.after} \cap Config, NEW x \in Key
               PROVE  running'[x] = Grown(c.k, x, taken'[c.k], v[x])
    BY DEF Traced, Undisturbed, Grown
  <2>1. c.k = k /\ c.k \notin disturbed
    BY <1>2, <1>4 DEF Trail, Begotten
  <2>2. running[x] = Grown(k, x, taken[k], v[x])
    BY <1>4, <2>1 DEF Trail, Traced, Undisturbed
  <2> QED BY <1>5, <1>6, <2>1, <2>2 DEF Grown
<1>8. Landed'
  <2> SUFFICES ASSUME NEW j \in Deployment, j \notin disturbed', NEW x \in taken'[j]
               PROVE  running'[x] = Pushes[j][x]
    BY DEF Landed
  <2>1. j = k
    BY <1>2, <1>5 DEF Trail, Begotten
  <2>2. x \in Key
    BY <1>5, <2>1 DEF IInv, TypeOK
  <2>3. x = y \/ running[x] = Pushes[k][x]
    BY <1>2, <1>5, <2>1 DEF Trail, Landed
  <2> QED BY <1>6, <2>1, <2>2, <2>3
<1>9. Pairs'
  <2>1. \A c : Undisturbed(c)' => Undisturbed(c)
    BY <1>2 DEF Undisturbed
  <2> QED BY <1>4, <2>1 DEF Trail, Pairs, Grown
<1>10. Begotten'
  <2>1. \A j \in Deployment : taken[j] \subseteq taken'[j]
    BY <1>5
  <2>2. \A c \in Known : c.k \in Deployment
    BY AttemptAssumption DEF Trail, Begotten, Begun
  <2> QED BY <1>1, <1>3, <1>4, <1>5, <2>1, <2>2 DEF Trail, Begotten
<1>11. Replayed'
  BY <1>2 DEF Trail, Replayed
<1> QED BY <1>7, <1>8, <1>9, <1>10, <1>11 DEF Trail

LEMMA StepKeepsTrail ==
  ASSUME IInv, Trail, [Next]_vars
  PROVE  Trail'
<1>1. CASE UNCHANGED vars
  BY <1>1 DEF vars, Trail, Traced, Landed, Pairs, Begotten, Replayed, Known, Content,
              Undisturbed, Begun, Grown
<1>2. ASSUME NEW a \in Attempt, Deploy(a)
      PROVE  Trail'
  BY <1>2, CaptureTrail, StampTrail, CommitTrail, DeviceTakesTrail, OutcomeTrail
     DEF Deploy
<1> QED BY <1>1, <1>2, FindRowTrail, ReplayTrail DEF Next

LEMMA TrailInvariance == Spec => [](IInv /\ Trail)
<1>1. Init => Trail
  BY DEF Init, Trail, Traced, Landed, Pairs, Begotten, Replayed, Known
<1>2. (IInv /\ Trail) /\ [Next]_vars => (IInv /\ Trail)'
  BY StepKeeps, StepKeepsTrail
<1> QED BY <1>1, <1>2, InitHolds, PTL DEF Spec

-----------------------------------------------------------------------------
(* Whatever attempts a deployment has: where nobody else changed the       *)
(* device since it began, its earliest row and any AFTER row differ by the *)
(* lines of it that the device had taken, however many those were.         *)
THEOREM ChangeTold == Spec => []RowsTellChange
<1>1. ASSUME IInv, Trail
      PROVE  RowsTellChange
  <2> SUFFICES ASSUME NEW r \in rows, NEW q \in rows,
                      r.deployment = q.deployment, IsEarliest(r.deployment, r),
                      {r.before, q.after} \subseteq Config, r.deployment \notin disturbed
               PROVE  q.after = Merge(r.before, Some(Pushes[r.deployment], q.taken))
    BY DEF RowsTellChange
  <2> DEFINE k == r.deployment
  <2>1. /\ r \in Snapshot /\ q \in Snapshot /\ k \in Deployment
        /\ q.taken \subseteq Key
    BY <1>1 DEF IInv, TypeOK, Snapshot
  <2>2. r.taken = {}
    BY <1>1, <2>1, EarliestIsFresh DEF Fresh
  <2>3. Content(r) \in Known /\ Content(q) \in Known
    BY DEF Known
  <2>4. /\ Content(r).k = k /\ Content(r).before = r.before /\ Content(r).taken = r.taken
        /\ Content(q).k = q.deployment /\ Content(q).after = q.after
        /\ Content(q).taken = q.taken
    BY DEF Content
  <2>5. Undisturbed(Content(q))
    BY <2>4 DEF Undisturbed
  <2>6. \A x \in Key : q.after[x] = Grown(k, x, q.taken, r.before[x])
    BY <1>1, <2>2, <2>3, <2>4, <2>5 DEF Trail, Pairs
  <2>7. \A x \in q.taken : Pushes[k][x] # NoLine
    BY <1>1, <2>1, <2>3, <2>4 DEF Trail, Begotten
  <2> HIDE DEF k
  <2>8. ASSUME NEW x \in Key
        PROVE  q.after[x] = Merge(r.before, Some(Pushes[k], q.taken))[x]
    <3>1. q.after[x] = Grown(k, x, q.taken, r.before[x])
      BY <2>6
    <3> QED BY <2>7, <3>1 DEF Grown, Merge, Some
  <2>9. q.after = [x \in Key |-> q.after[x]]
    BY DEF Config
  <2>10. Merge(r.before, Some(Pushes[k], q.taken)) =
           [x \in Key |-> Merge(r.before, Some(Pushes[k], q.taken))[x]]
    BY DEF Merge
  <2> QED BY <2>8, <2>9, <2>10 DEF k
<1> QED BY <1>1, TrailInvariance, PTL

(* A restore that only its own deployment preceded leaves nothing else     *)
(* different from what was before.                                         *)
THEOREM RestoreUndoes == Spec => RestoreUndoesOwn
<1> DEFINE Undone ==
      restore # NoSnapshot /\ restore' = NoSnapshot =>
        /\ Fresh(restore)
        /\ restore.deployment \notin disturbed =>
             \A x \in Key : running'[x] # restore.before[x] =>
               Pushes[restore.deployment][x] # NoLine
<1>1. ASSUME IInv, Trail, [Next]_vars
      PROVE  [Undone]_vars
  <2> SUFFICES ASSUME restore # NoSnapshot, restore' = NoSnapshot
               PROVE  /\ Fresh(restore)
                      /\ restore.deployment \notin disturbed =>
                           \A x \in Key : running'[x] # restore.before[x] =>
                             Pushes[restore.deployment][x] # NoLine
    OBVIOUS
  <2>1. Replay
    BY <1>1 DEF Next, Deploy, CaptureBefore, Stamp, Commit, CommitFails, DeviceTakes, Push, VerifyFails,
                CaptureAfter, FindRow, vars
  <2>2. restore \in rows /\ restore \in Snapshot /\ Fresh(restore) /\ restore.before \in Config
    BY <1>1 DEF IInv, TypeOK, RestoreOK, Trail, Replayed
  <2>3. ASSUME restore.deployment \notin disturbed, NEW x \in Key,
               running'[x] # restore.before[x]
        PROVE  Pushes[restore.deployment][x] # NoLine
    <3>1. PICK S \in SUBSET Key : running' = Merge(running, Some(restore.before, S))
      BY <2>1 DEF Replay
    <3>2. running'[x] = running[x]
      BY <2>3, <3>1 DEF Merge, Some
    <3>3. Content(restore) \in Known
      BY <2>2 DEF Known
    <3>4. /\ Content(restore).k = restore.deployment
          /\ Content(restore).before = restore.before
      BY DEF Content
    <3>5. Undisturbed(Content(restore))
      BY <2>3, <3>4 DEF Undisturbed
    <3>6. running[x] =
            Grown(restore.deployment, x, taken[restore.deployment], restore.before[x])
      BY <1>1, <2>2, <3>3, <3>4, <3>5 DEF Trail, Traced
    <3>7. x \in taken[restore.deployment]
      BY <2>3, <3>2, <3>6 DEF Grown
    <3>8. restore.deployment \in Deployment
      BY <2>2 DEF Snapshot
    <3> QED BY <1>1, <3>7, <3>8 DEF Trail, Begotten
  <2> QED BY <2>2, <2>3
<1> QED BY <1>1, TrailInvariance, PTL DEF Spec, RestoreUndoesOwn
=============================================================================
