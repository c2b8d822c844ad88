-------------------------- MODULE BatchDeployProofs --------------------------
(***************************************************************************)
(* Theorems about BatchDeploy for every list of devices, every set of      *)
(* devices that need a commit, and every bound on retries, failing         *)
(* database calls and crashes.                                             *)
(***************************************************************************)
EXTENDS BatchDeploy, TLAPS

(* What the assumptions say of the positions of the batch.                 *)
LEMMA Positions ==
  /\ N \in Nat \ {0} /\ 1 \in Pos
  /\ \A i \in Pos : i \in Nat /\ Order[i] \in Device
BY OrderAssumption DEF N, Pos

LEMMA TypeInit == Init => TypeOK
BY Positions, BoundAssumption
   DEF Init, TypeOK, Status, Terminal, Config, Place, Suspended, Busy, Finished

(* The type invariant is inductive: one step per action.                   *)
LEMMA TypeNext == TypeOK /\ [Next]_vars => TypeOK'
<1> SUFFICES ASSUME TypeOK, [Next]_vars PROVE TypeOK'
  OBVIOUS
<1> USE Positions, BoundAssumption
    DEF TypeOK, request, tables, network, counters, stage, link, loop
<1> USE DEF Goto, SetRow, DbReturns, DbRaises, SaveReturns, At
<1> USE DEF Status, Terminal, Config, Place, Suspended, Busy, Finished, RowsOf
<1>1. CASE Begin
  BY <1>1 DEF Begin
<1>2. CASE StartRest
  BY <1>2 DEF StartRest, CanaryPassed
<1>3. CASE JudgeCanary
  BY <1>3 DEF JudgeCanary, Conclude, CanaryPassed
<1>4. CASE JudgeRolling
  BY <1>4 DEF JudgeRolling, Conclude
<1>5. CASE JudgeAtomic
  BY <1>5 DEF JudgeAtomic, Conclude
<1>6. CASE RollBackNext
  <2>1. /\ audit' \in SUBSET ({"DEPLOY", "ROLLBACK"} \X Device)
        /\ session' \in {"ok", "bad"} /\ faults' \in 0 .. MaxFaults
    BY <1>6 DEF RollBackNext
  <2>2. /\ undoAt' \in 0 .. (N + 1)
        /\ \/ job' = "sweeping" /\ result' = "ROLLBACK"
           \/ job' = "rollingBack" /\ result' = result
    BY <1>6 DEF RollBackNext, Pos
  <2>3. UNCHANGED <<request, row, backup, after, network, counters, loop>>
    BY <1>6 DEF RollBackNext
  <2> QED
    BY <2>1, <2>2, <2>3
<1>7. CASE Sweep
  BY <1>7 DEF Sweep, Swept, SweepStatus
<1>8. CASE AttemptRaises
  BY <1>8 DEF AttemptRaises, MayRetry
<1>9. CASE Ack
  BY <1>9 DEF Ack
<1>10. CASE Crash
  BY <1>10 DEF Crash
<1>11. ASSUME NEW i \in Pos, Coroutine(i) PROVE TypeOK'
  <2>1. CASE Claim(i)
    BY <2>1 DEF Claim, Pos
  <2>2. CASE NoConfig(i)
    BY <2>2 DEF NoConfig
  <2>3. CASE DryRun(i)
    BY <2>3 DEF DryRun
  <2>4. CASE Connect(i)
    BY <2>4 DEF Connect
  <2>5. CASE Connected(i)
    BY <2>5 DEF Connected
  <2>6. CASE SaveBefore(i)
    BY <2>6 DEF SaveBefore
  <2>7. CASE Build(i)
    BY <2>7 DEF Build, TypeFetched
  <2>8. CASE Applied(i)
    BY <2>8 DEF Applied
  <2>9. CASE Verified(i)
    BY <2>9 DEF Verified
  <2>10. CASE SaveAfter(i)
    BY <2>10 DEF SaveAfter
  <2>11. CASE RecordSuccess(i)
    BY <2>11 DEF RecordSuccess
  <2>12. CASE AuditDeploy(i)
    BY <2>12 DEF AuditDeploy
  <2>13. CASE SshFails(i)
    BY <2>13 DEF SshFails
  <2>14. CASE TryRaises(i)
    BY <2>14 DEF TryRaises
  <2>15. CASE Undo(i)
    BY <2>15 DEF Undo
  <2>16. CASE Mark(i)
    BY <2>16 DEF Mark
  <2>17. CASE Raises(i)
    BY <2>17 DEF Raises
  <2> QED
    BY <1>11, <2>1, <2>2, <2>3, <2>4, <2>5, <2>6, <2>7, <2>8, <2>9, <2>10,
       <2>11, <2>12, <2>13, <2>14, <2>15, <2>16, <2>17 DEF Coroutine
<1>12. ASSUME NEW i \in Pos, DeviceTakes(i) PROVE TypeOK'
  BY <1>12 DEF DeviceTakes
<1>13. CASE UNCHANGED vars
  BY <1>13 DEF vars
<1> QED
  BY <1>1, <1>2, <1>3, <1>4, <1>5, <1>6, <1>7, <1>8, <1>9, <1>10, <1>11,
     <1>12, <1>13 DEF Next, Worker

(* The variables keep their types in every reachable state.                *)
THEOREM TypeCorrect == Spec => []TypeOK
BY TypeInit, TypeNext, PTL DEF Spec

-----------------------------------------------------------------------------
(* Frames: which actions write which variable.                             *)

LEMMA Frames ==
  ASSUME [Next]_vars
  PROVE  /\ UNCHANGED request
         /\ backup' = backup \/ \E i \in Pos : SaveBefore(i)
         /\ after' = after \/ \E i \in Pos : SaveAfter(i)
         /\ running' = running \/ \E i \in Pos : DeviceTakes(i)
         /\ verified' = verified \/ \E i \in Pos : Verified(i)
         /\ audit' = audit \/ (\E i \in Pos : AuditDeploy(i) \/ Undo(i))
              \/ RollBackNext
<1> USE DEF request, tables, network, counters, stage, link, loop
<1>1. CASE Begin
  BY <1>1 DEF Begin
<1>2. CASE StartRest
  BY <1>2 DEF StartRest
<1>3. CASE JudgeCanary
  BY <1>3 DEF JudgeCanary, Conclude
<1>4. CASE JudgeRolling
  BY <1>4 DEF JudgeRolling, Conclude
<1>5. CASE JudgeAtomic
  BY <1>5 DEF JudgeAtomic, Conclude
<1>6. CASE RollBackNext
  BY <1>6 DEF RollBackNext
<1>7. CASE Sweep
  BY <1>7 DEF Sweep
<1>8. CASE AttemptRaises \/ Ack \/ Crash
  BY <1>8 DEF AttemptRaises, Ack, Crash
<1>9. ASSUME NEW i \in Pos,
             Claim(i) \/ NoConfig(i) \/ DryRun(i) \/ RecordSuccess(i) \/ Mark(i)
      PROVE  UNCHANGED <<request, backup, after, running, verified, audit>>
  BY <1>9 DEF Claim, NoConfig, DryRun, RecordSuccess, Mark
<1>10. ASSUME NEW i \in Pos,
              Connect(i) \/ Connected(i) \/ Build(i) \/ Applied(i)
       PROVE  UNCHANGED <<request, backup, after, running, verified, audit>>
  BY <1>10 DEF Connect, Connected, Build, Applied
<1>11. ASSUME NEW i \in Pos, SshFails(i) \/ TryRaises(i) \/ Raises(i)
       PROVE  UNCHANGED <<request, backup, after, running, verified, audit>>
  BY <1>11 DEF SshFails, TryRaises, Raises
<1>12. ASSUME NEW i \in Pos, SaveBefore(i)
       PROVE  UNCHANGED <<request, after, running, verified, audit>>
  BY <1>12 DEF SaveBefore
<1>13. ASSUME NEW i \in Pos, SaveAfter(i)
       PROVE  UNCHANGED <<request, backup, running, verified, audit>>
  BY <1>13 DEF SaveAfter
<1>14. ASSUME NEW i \in Pos, AuditDeploy(i) \/ Undo(i)
       PROVE  UNCHANGED <<request, backup, after, running, verified>>
  BY <1>14 DEF AuditDeploy, Undo
<1>15. ASSUME NEW i \in Pos, DeviceTakes(i)
       PROVE  UNCHANGED <<request, backup, after, verified, audit>>
  BY <1>15 DEF DeviceTakes
<1>16. ASSUME NEW i \in Pos, Verified(i)
       PROVE  UNCHANGED <<request, backup, after, running, audit>>
  BY <1>16 DEF Verified
<1>17. CASE UNCHANGED vars
  BY <1>17 DEF vars
<1> QED
  BY <1>1, <1>2, <1>3, <1>4, <1>5, <1>6, <1>7, <1>8, <1>9, <1>10, <1>11,
     <1>12, <1>13, <1>14, <1>15, <1>16, <1>17 DEF Next, Worker, Coroutine

(* What was achieved stays: a stored backup is never replaced, a capture   *)
(* or an audit entry never removed, what was verified never forgotten.     *)
LEMMA Monotone ==
  ASSUME TypeOK, AttemptInv, [Next]_vars
  PROVE  /\ \A r \in Pos : backup[r] # "none" => backup'[r] = backup[r]
         /\ after \subseteq after' /\ audit \subseteq audit'
         /\ \A d \in Device : running[d] # "old" => running'[d] # "old"
         /\ verified \subseteq verified'
         /\ \A d \in Device : Vouched(d) => Vouched(d)'
<1> USE Positions
<1>1. \A r \in Pos : backup[r] # "none" => backup'[r] = backup[r]
  BY Frames DEF SaveBefore, TypeOK
<1>2. after \subseteq after'
  BY Frames DEF SaveAfter
<1>3. audit \subseteq audit'
  BY Frames DEF AuditDeploy, Undo, RollBackNext
<1>4. \A d \in Device : running[d] # "old" => running'[d] # "old"
  BY Frames DEF DeviceTakes, TypeOK
<1>5. verified \subseteq verified'
  BY Frames DEF Verified
<1>6. \A d \in Device : Vouched(d) => Vouched(d)'
  BY <1>1, <1>2, <1>5 DEF Vouched, BackedUp, Captured, RowsOf
<1> QED
  BY <1>1, <1>2, <1>3, <1>4, <1>5, <1>6

-----------------------------------------------------------------------------
(* The inductive invariant, conjunct by conjunct.                          *)

LEMMA InvInit == Init => Inv
<1> SUFFICES ASSUME Init PROVE Inv
  OBVIOUS
<1> USE Positions DEF Init
<1>1. TypeOK
  BY TypeInit
<1>2. AttemptInv /\ OrderInv
  BY DEF AttemptInv, OrderInv, Settled, Ahead, Pos
<1>3. PlaceInv
  BY DEF PlaceInv, PlaceInvAt, Suspended, Busy
<1>5. StageInv
  BY DEF StageInv, Busy
<1>4. /\ BackupInv /\ QueuedInv
      /\ BackupPredatesPush /\ SuccessIsVerified /\ RollbackIsAudited
  BY DEF BackupInv, QueuedInv, BackupPredatesPush, SuccessIsVerified, RollbackIsAudited,
         RowsOf
<1> QED
  BY <1>1, <1>2, <1>3, <1>4, <1>5 DEF Inv

LEMMA AttemptNext == TypeOK /\ AttemptInv /\ [Next]_vars => AttemptInv'
<1> SUFFICES ASSUME TypeOK, AttemptInv, [Next]_vars PROVE AttemptInv'
  OBVIOUS
<1> USE Positions
    DEF TypeOK, AttemptInv, request, tables, network, counters, stage, link,
        loop, Settled, AllOk, Goto, At, Runs, Finished, Busy, Suspended
<1>1. CASE Begin
  BY <1>1 DEF Begin
<1>2. CASE StartRest
  BY <1>2 DEF StartRest, CanaryPassed
<1>3. CASE JudgeCanary
  BY <1>3 DEF JudgeCanary, Conclude, CanaryPassed
<1>4. CASE JudgeRolling
  BY <1>4 DEF JudgeRolling, Conclude
<1>5. CASE JudgeAtomic
  BY <1>5 DEF JudgeAtomic, Conclude
<1>6. CASE RollBackNext
  BY <1>6 DEF RollBackNext
<1>7. CASE Sweep
  BY <1>7 DEF Sweep
<1>8. CASE AttemptRaises
  BY <1>8 DEF AttemptRaises
<1>9. CASE Ack
  BY <1>9 DEF Ack
<1>10. CASE Crash
  BY <1>10 DEF Crash
<1>11. ASSUME NEW i \in Pos, Claim(i) PROVE AttemptInv'
  BY <1>11 DEF Claim, RowsOf
<1>12. ASSUME NEW i \in Pos, NoConfig(i) \/ DryRun(i) \/ Connect(i)
       PROVE AttemptInv'
  BY <1>12 DEF NoConfig, DryRun, Connect
<1>13. ASSUME NEW i \in Pos, Connected(i) \/ SaveBefore(i) \/ Build(i)
       PROVE AttemptInv'
  BY <1>13 DEF Connected, SaveBefore, Build
<1>14. ASSUME NEW i \in Pos, Applied(i) \/ Verified(i) \/ SaveAfter(i)
       PROVE AttemptInv'
  BY <1>14 DEF Applied, Verified, SaveAfter
<1>15. ASSUME NEW i \in Pos, RecordSuccess(i) \/ AuditDeploy(i) \/ SshFails(i)
       PROVE AttemptInv'
  BY <1>15 DEF RecordSuccess, AuditDeploy, SshFails
<1>16. ASSUME NEW i \in Pos, TryRaises(i) \/ Undo(i) \/ Mark(i) \/ Raises(i)
       PROVE AttemptInv'
  BY <1>16 DEF TryRaises, Undo, Mark, Raises
<1>17. ASSUME NEW i \in Pos, DeviceTakes(i) PROVE AttemptInv'
  BY <1>17 DEF DeviceTakes
<1>18. CASE UNCHANGED vars
  BY <1>18 DEF vars
<1> QED
  BY <1>1, <1>2, <1>3, <1>4, <1>5, <1>6, <1>7, <1>8, <1>9, <1>10, <1>11,
     <1>12, <1>13, <1>14, <1>15, <1>16, <1>17, <1>18
     DEF Next, Worker, Coroutine

(* A coroutine that is ok stays ok until the attempt ends, and no other    *)
(* step takes one out of "idle" than Begin and StartRest.                  *)
LEMMA PlaceSteps ==
  ASSUME TypeOK, [Next]_vars, NEW i \in Pos, Coroutine(i)
  PROVE  /\ pc[i] \notin {"idle"} \cup Finished /\ pc'[i] \in Place
         /\ pc' = [pc EXCEPT ![i] = pc'[i]]
<1> USE DEF TypeOK, At, Goto, Finished
<1>1. CASE Claim(i) \/ NoConfig(i) \/ DryRun(i) \/ Connect(i) \/ Connected(i)
  BY <1>1, TypeNext DEF Claim, NoConfig, DryRun, Connect, Connected
<1>2. CASE SaveBefore(i) \/ Build(i) \/ Applied(i) \/ Verified(i)
  BY <1>2, TypeNext DEF SaveBefore, Build, Applied, Verified
<1>3. CASE SaveAfter(i) \/ RecordSuccess(i) \/ AuditDeploy(i) \/ SshFails(i)
  BY <1>3, TypeNext DEF SaveAfter, RecordSuccess, AuditDeploy, SshFails
<1>4. CASE TryRaises(i) \/ Undo(i) \/ Mark(i) \/ Raises(i)
  BY <1>4, TypeNext DEF TryRaises, Undo, Mark, Raises
<1> QED
  BY <1>1, <1>2, <1>3, <1>4 DEF Coroutine

(* A coroutine and a device move only while the attempt is deploying.      *)
LEMMA CoroutineSteps ==
  ASSUME NEW i \in Pos, Coroutine(i) \/ DeviceTakes(i)
  PROVE  job = "deploying" /\ UNCHANGED <<job, result, tries, crashes>>
<1> USE DEF At, Runs, stage, counters
<1>1. CASE Claim(i) \/ NoConfig(i) \/ DryRun(i) \/ Connect(i) \/ Connected(i)
  BY <1>1 DEF Claim, NoConfig, DryRun, Connect, Connected
<1>2. CASE SaveBefore(i) \/ Build(i) \/ Applied(i) \/ Verified(i)
  BY <1>2 DEF SaveBefore, Build, Applied, Verified
<1>3. CASE SaveAfter(i) \/ RecordSuccess(i) \/ AuditDeploy(i) \/ SshFails(i)
  BY <1>3 DEF SaveAfter, RecordSuccess, AuditDeploy, SshFails
<1>4. CASE TryRaises(i) \/ Undo(i) \/ Mark(i) \/ Raises(i) \/ DeviceTakes(i)
  BY <1>4 DEF TryRaises, Undo, Mark, Raises, DeviceTakes
<1> QED
  BY <1>1, <1>2, <1>3, <1>4 DEF Coroutine

(* A coroutine only goes forward, and while it is in a stretch of code     *)
(* without suspension no other one is.                                     *)
LEMMA PlaceGrows ==
  ASSUME TypeOK, NEW i \in Pos, Coroutine(i)
  PROVE  /\ Runs(i) /\ Rank(pc'[i]) > Rank(pc[i])
         /\ pc'[i] \notin {"idle", "start"}
         /\ \A j \in Pos \ {i} : rowOf'[j] = rowOf[j]
<1> USE DEF TypeOK, At, Goto, Rank, loop
<1>1. CASE Claim(i) \/ NoConfig(i) \/ DryRun(i) \/ Connect(i) \/ Connected(i)
  BY <1>1 DEF Claim, NoConfig, DryRun, Connect, Connected
<1>2. CASE SaveBefore(i) \/ Build(i) \/ Applied(i) \/ Verified(i)
  BY <1>2 DEF SaveBefore, Build, Applied, Verified
<1>3. CASE SaveAfter(i) \/ RecordSuccess(i) \/ AuditDeploy(i) \/ SshFails(i)
  BY <1>3 DEF SaveAfter, RecordSuccess, AuditDeploy, SshFails
<1>4. CASE TryRaises(i) \/ Undo(i) \/ Mark(i) \/ Raises(i)
  BY <1>4 DEF TryRaises, Undo, Mark, Raises
<1> QED
  BY <1>1, <1>2, <1>3, <1>4 DEF Coroutine

LEMMA StageNext ==
  TypeOK /\ AttemptInv /\ StageInv /\ [Next]_vars => StageInv'
<1> SUFFICES ASSUME TypeOK, AttemptInv, StageInv, [Next]_vars PROVE StageInv'
  OBVIOUS
<1>0. strategy' = strategy
  BY Frames DEF request
<1> USE <1>0, Positions DEF TypeOK, StageInv, Busy
<1>1. CASE Begin
  BY <1>1 DEF Begin, StartsFirst
<1>2. CASE StartRest
  BY <1>2 DEF StartRest, CanaryPassed, Goto, stage
<1>3. CASE JudgeCanary
  BY <1>3 DEF JudgeCanary, Conclude, loop
<1>4. CASE JudgeRolling
  BY <1>4 DEF JudgeRolling, Conclude, loop, AllOk
<1>5. CASE JudgeAtomic
  BY <1>5 DEF JudgeAtomic, Conclude, loop, AllOk
<1>6. CASE RollBackNext
  BY <1>6 DEF RollBackNext, loop, Pos
<1>7. CASE Sweep \/ Ack
  BY <1>7 DEF Sweep, Ack, loop
<1>8. CASE AttemptRaises \/ Crash
  BY <1>8 DEF AttemptRaises, Crash
<1>9. ASSUME NEW i \in Pos, Coroutine(i) PROVE StageInv'
  <2>1. /\ pc[i] \notin {"idle"} /\ pc' = [pc EXCEPT ![i] = pc'[i]]
        /\ pc'[i] \notin {"idle", "start"}
        /\ \A j \in Pos \ {i} : rowOf'[j] = rowOf[j]
        /\ job = "deploying" /\ job' = job
        /\ \A j \in Pos \ {i} : pc[j] \notin Busy
    BY <1>9, PlaceSteps, PlaceGrows, CoroutineSteps DEF Runs
  <2>2. \A j \in Pos \ {i} : pc'[j] = pc[j]
    BY <2>1
  <2>3. \A j, k \in Pos : (pc'[j] \in Busy /\ pc'[k] \in Busy) => j = k
    BY <2>1, <2>2
  <2>4. (strategy = "canary" /\ \A k \in Pos \ {1} : pc[k] = "idle") => i = 1
    BY <2>1
  <2> QED
    BY <2>1, <2>2, <2>3, <2>4
<1>10. ASSUME NEW i \in Pos, DeviceTakes(i) PROVE StageInv'
  BY <1>10 DEF DeviceTakes, stage, loop
<1>11. CASE UNCHANGED vars
  BY <1>11 DEF vars, stage, loop, counters
<1> QED
  BY <1>1, <1>2, <1>3, <1>4, <1>5, <1>6, <1>7, <1>8, <1>9, <1>10, <1>11
     DEF Next, Worker

LEMMA OrderNext == TypeOK /\ OrderInv /\ [Next]_vars => OrderInv'
<1> SUFFICES ASSUME TypeOK, OrderInv, [Next]_vars PROVE OrderInv'
  OBVIOUS
<1> USE Positions DEF TypeOK, OrderInv, Ahead, Pos, request, loop
<1>1. CASE Begin
  BY <1>1 DEF Begin, StartsFirst
<1>2. CASE StartRest
  <2>1. strategy' = strategy
    BY Frames
  <2>2. CASE strategy = "canary" /\ pc[1] = "ok"
             /\ pc' = [i \in Pos |-> IF i = 1 THEN pc[1] ELSE "start"]
    BY <2>1, <2>2
  <2>3. ASSUME strategy = "rolling",
               NEW k \in Pos, \A j \in 1 .. (k - 1) : pc[j] = "ok",
               pc[k] = "idle", pc' = [pc EXCEPT ![k] = "start"]
        PROVE  OrderInv'
    <3>1. ASSUME NEW i \in Pos, pc'[i] # "idle", NEW j \in 1 .. (i - 1)
          PROVE  pc'[j] = "ok"
      <4>1. pc[j] = "ok"
        BY <2>3, <3>1
      <4> QED
        BY <2>3, <4>1
    <3> QED
      BY <2>1, <2>3, <3>1
  <2> QED
    BY <1>2, <2>2, <2>3 DEF StartRest, CanaryPassed, Goto
<1>3. CASE JudgeCanary \/ JudgeRolling \/ JudgeAtomic
  BY <1>3 DEF JudgeCanary, JudgeRolling, JudgeAtomic, Conclude
<1>4. CASE RollBackNext \/ Sweep \/ Ack
  BY <1>4 DEF RollBackNext, Sweep, Ack
<1>5. CASE AttemptRaises \/ Crash
  BY <1>5 DEF AttemptRaises, Crash
<1>6. ASSUME NEW i \in Pos, Coroutine(i) PROVE OrderInv'
  <2>1. pc[i] \notin {"idle", "ok"} /\ pc' = [pc EXCEPT ![i] = pc'[i]]
    BY <1>6, PlaceSteps DEF Finished
  <2>2. strategy' = strategy
    BY Frames
  <2>3. \A j \in Pos : /\ pc[j] = "ok" => pc'[j] = "ok"
                       /\ pc'[j] # "idle" => pc[j] # "idle"
    BY <2>1
  <2> QED
    BY <2>2, <2>3
<1>7. ASSUME NEW i \in Pos, DeviceTakes(i) PROVE OrderInv'
  BY <1>7 DEF DeviceTakes
<1>8. CASE UNCHANGED vars
  BY <1>8 DEF vars
<1> QED
  BY <1>1, <1>2, <1>3, <1>4, <1>5, <1>6, <1>7, <1>8 DEF Next, Worker

LEMMA BackupNext ==
  TypeOK /\ AttemptInv /\ BackupInv /\ [Next]_vars => BackupInv'
<1> SUFFICES ASSUME TypeOK, AttemptInv, BackupInv, [Next]_vars,
                    NEW d \in Device, running'[d] = "old",
                    NEW r \in RowsOf(d)
             PROVE  backup'[r] \in {"none", "empty", "old"}
  BY DEF BackupInv, RowsOf
<1>1. running[d] = "old"
  BY Monotone
<1>2. backup[r] \in {"none", "empty", "old"}
  BY <1>1 DEF BackupInv
<1>3. ASSUME NEW i \in Pos, SaveBefore(i)
      PROVE  backup'[r] \in {"none", "empty", "old"}
  <2>1. PICK stored \in BOOLEAN, c \in {"empty", running[Order[i]]} :
          backup' = [backup EXCEPT ![rowOf[i]] =
                       IF stored /\ @ = "none" THEN c ELSE @]
    BY <1>3 DEF SaveBefore
  <2>2. rowOf[i] = r => Order[i] = d
    BY <1>3 DEF SaveBefore, At, AttemptInv, RowsOf
  <2> QED
    BY <1>1, <1>2, <2>1, <2>2 DEF TypeOK, RowsOf
<1> QED
  BY <1>2, <1>3, Frames

(* One step per group of actions; another coroutine j keeps what it had    *)
(* because backups, captures, audit entries and deliveries are stable, a   *)
(* bad session stays bad, and a row of j's becomes ROLLBACK only in Mark,  *)
(* after an audit entry for the same device.                               *)
LEMMA PlaceNext ==
  TypeOK /\ AttemptInv /\ PlaceInv /\ [Next]_vars => PlaceInv'
<1> SUFFICES ASSUME TypeOK, AttemptInv, PlaceInv, [Next]_vars PROVE PlaceInv'
  OBVIOUS
<1>0. /\ UNCHANGED <<strategy, dryRun>>
      /\ \A r \in Pos : backup[r] # "none" => backup'[r] # "none"
      /\ after \subseteq after' /\ audit \subseteq audit'
      /\ verified \subseteq verified'
      /\ \A d \in Device : Vouched(d) => Vouched(d)'
  BY Monotone, Frames DEF request
<1>t. TypeOK'
  BY TypeNext
<1> USE <1>0, Positions DEF AttemptInv, PlaceInv, Suspended, Busy, Finished
<1>1. CASE Begin
  BY <1>1 DEF Begin, StartsFirst, PlaceInvAt
<1>2. CASE StartRest
  BY <1>2 DEF PlaceInvAt, StartRest, CanaryPassed, Goto, TypeOK, tables, DbReturns, link
<1>3. CASE JudgeCanary \/ JudgeRolling \/ JudgeAtomic
  BY <1>3 DEF PlaceInvAt, JudgeCanary, JudgeRolling, JudgeAtomic, Conclude, Settled, tables, loop
<1>4. CASE RollBackNext \/ Sweep \/ Ack
  BY <1>4 DEF PlaceInvAt, RollBackNext, Sweep, Ack, Settled, loop
<1>5. CASE AttemptRaises \/ Crash
  BY <1>5 DEF PlaceInvAt, AttemptRaises, Crash
<1>6. ASSUME NEW i \in Pos, Coroutine(i) PROVE PlaceInv'
  <2>1. /\ \A j \in Pos \ {i} : pc'[j] = pc[j] /\ rowOf'[j] = rowOf[j]
        /\ session = "bad" => session' = "bad"
        /\ \A q \in Pos : row'[q] = "ROLLBACK" =>
             \/ row[q] = "ROLLBACK"
             \/ Order[q] = Order[i] /\ <<"ROLLBACK", Order[i]>> \in audit
        /\ \A q \in Pos : row'[q] = "QUEUED" => row[q] = "QUEUED"
    <3> USE DEF At, Goto, SetRow, DbReturns, DbRaises, SaveReturns, link, tables,
                TypeOK
    <3>1. CASE Claim(i) \/ NoConfig(i) \/ DryRun(i)
      BY <3>1 DEF Claim, NoConfig, DryRun
    <3>2. CASE Connect(i) \/ Connected(i) \/ SaveBefore(i)
      BY <3>2 DEF Connect, Connected, SaveBefore
    <3>3. CASE Build(i) \/ Applied(i) \/ Verified(i)
      BY <3>3 DEF Build, TypeFetched, Applied, Verified
    <3>4. CASE SaveAfter(i) \/ RecordSuccess(i) \/ AuditDeploy(i)
      BY <3>4 DEF SaveAfter, RecordSuccess, AuditDeploy
    <3>5. CASE SshFails(i) \/ TryRaises(i) \/ Raises(i)
      BY <3>5 DEF SshFails, TryRaises, Raises
    <3>6. CASE Undo(i) \/ Mark(i)
      BY <3>6, PlaceInvAt(i) DEF Undo, Mark, PlaceInvAt
    <3> QED
      BY <1>6, <3>1, <3>2, <3>3, <3>4, <3>5, <3>6 DEF Coroutine
  <2>2. ASSUME NEW j \in Pos \ {i} PROVE PlaceInvAt(j)'
    BY <2>1, PlaceInvAt(j) DEF PlaceInvAt, TypeOK
  <2>3. PlaceInvAt(i)'
    <3> USE DEF PlaceInvAt, At, Goto, SetRow, DbReturns, DbRaises, SaveReturns, link,
                tables, TypeOK
    <3>1. CASE Claim(i)
      BY <3>1 DEF Claim, RowsOf
    <3>2. CASE NoConfig(i)
      BY <3>2 DEF NoConfig
    <3>3. CASE DryRun(i)
      BY <3>3 DEF DryRun
    <3>4. CASE Connect(i)
      BY <3>4 DEF Connect
    <3>5. CASE Connected(i)
      BY <3>5 DEF Connected
    <3>6. CASE SaveBefore(i)
      <4>1. session' = "bad" \/ backup'[rowOf[i]] # "none"
        BY <3>6 DEF SaveBefore, Config
      <4> QED
        BY <3>6, <4>1 DEF SaveBefore
    <3>7. CASE Build(i)
      BY <3>7 DEF Build, TypeFetched
    <3>8. CASE Applied(i)
      BY <3>8 DEF Applied
    <3>9. CASE Verified(i)
      BY <3>9 DEF Verified
    <3>10. CASE SaveAfter(i)
      BY <3>10 DEF SaveAfter
    <3>11. CASE RecordSuccess(i)
      <4>1. rowOf[i] \in RowsOf(Order[i])
        BY <3>11 DEF RecordSuccess, RowsOf
      <4>2. Vouched(Order[i])
        BY <3>11, <4>1 DEF RecordSuccess, Vouched, BackedUp, Captured
      <4> QED
        BY <3>11, <4>2 DEF RecordSuccess
    <3>12. CASE AuditDeploy(i)
      BY <3>12 DEF AuditDeploy
    <3>13. CASE SshFails(i)
      BY <3>13 DEF SshFails
    <3>14. CASE TryRaises(i)
      BY <3>14 DEF TryRaises
    <3>15. CASE Undo(i)
      BY <3>15 DEF Undo
    <3>16. CASE Mark(i)
      BY <3>16 DEF Mark
    <3>17. CASE Raises(i)
      BY <3>17 DEF Raises
    <3> QED
      BY <1>6, <3>1, <3>2, <3>3, <3>4, <3>5, <3>6, <3>7, <3>8, <3>9, <3>10, <3>11, <3>12, <3>13, <3>14, <3>15, <3>16, <3>17 DEF Coroutine
  <2> QED
    BY <2>2, <2>3
<1>7. ASSUME NEW i \in Pos, DeviceTakes(i) PROVE PlaceInv'
  BY <1>7 DEF PlaceInvAt, DeviceTakes, tables, link, loop
<1>8. CASE UNCHANGED vars
  BY <1>8 DEF PlaceInvAt, vars, tables, link, loop
<1> QED
  BY <1>1, <1>2, <1>3, <1>4, <1>5, <1>6, <1>7, <1>8 DEF Next, Worker

-----------------------------------------------------------------------------
(* The safety properties.                                                  *)

(* A device changes under a coroutine whose row has a backup; if the       *)
(* device was untouched until then, BackupInv says what that backup holds. *)
LEMMA PredatesNext ==
  Inv /\ [Next]_vars => BackupPredatesPush'
<1> SUFFICES ASSUME Inv, [Next]_vars, NEW d \in Device, running'[d] # "old"
             PROVE  \E r \in RowsOf(d) : backup'[r] \in {"empty", "old"}
  BY DEF BackupPredatesPush, RowsOf
<1>1. \E r \in RowsOf(d) : backup[r] \in {"empty", "old"}
  <2>1. CASE running[d] # "old"
    BY <2>1 DEF Inv, BackupPredatesPush
  <2>2. CASE running[d] = "old"
    <3>1. PICK i \in Pos : DeviceTakes(i)
      BY <2>2, Frames
    <3>2. Order[i] = d /\ pc[i] = "apply"
      BY <2>2, <3>1, Positions DEF DeviceTakes, Inv, TypeOK
    <3>3. rowOf[i] \in RowsOf(d) /\ backup[rowOf[i]] # "none"
      BY <3>2 DEF Inv, AttemptInv, PlaceInv, PlaceInvAt, TypeOK, RowsOf
    <3> QED
      BY <2>2, <3>3 DEF Inv, BackupInv
  <2> QED
    BY <2>1, <2>2
<1> QED
  BY <1>1, Monotone DEF Inv, RowsOf

(* What the steps can do to the status of a row.                           *)
LEMMA RowSteps ==
  ASSUME TypeOK, [Next]_vars, NEW r \in Pos, row'[r] # row[r]
  PROVE  \/ Sweep /\ row[r] = "QUEUED" /\ row'[r] = SweepStatus
         \/ \E i \in Pos :
              \/ Claim(i) /\ row'[r] = "IN_PROGRESS" /\ r \in RowsOf(Order[i])
              \/ NoConfig(i) /\ rowOf[i] = r /\ row'[r] = "FAILED"
              \/ DryRun(i) /\ rowOf[i] = r /\ row'[r] = "SUCCESS"
              \/ RecordSuccess(i) /\ rowOf[i] = r /\ row'[r] = "SUCCESS"
              \/ Mark(i) /\ rowOf[i] = r /\ row'[r] = "ROLLBACK"
<1> USE DEF TypeOK, tables, SetRow
<1>1. ASSUME NEW i \in Pos, Coroutine(i)
      PROVE  \/ Claim(i) /\ row'[r] = "IN_PROGRESS" /\ r \in RowsOf(Order[i])
             \/ NoConfig(i) /\ rowOf[i] = r /\ row'[r] = "FAILED"
             \/ DryRun(i) /\ rowOf[i] = r /\ row'[r] = "SUCCESS"
             \/ RecordSuccess(i) /\ rowOf[i] = r /\ row'[r] = "SUCCESS"
             \/ Mark(i) /\ rowOf[i] = r /\ row'[r] = "ROLLBACK"
  <2>1. CASE Claim(i) \/ NoConfig(i) \/ DryRun(i)
    BY <2>1 DEF Claim, NoConfig, DryRun, RowsOf
  <2>2. CASE RecordSuccess(i) \/ Mark(i)
    BY <2>2 DEF RecordSuccess, Mark
  <2>3. CASE Connect(i) \/ Connected(i) \/ SaveBefore(i) \/ Build(i)
    BY <2>3 DEF Connect, Connected, SaveBefore, Build
  <2>4. CASE Applied(i) \/ Verified(i) \/ SaveAfter(i) \/ AuditDeploy(i)
    BY <2>4 DEF Applied, Verified, SaveAfter, AuditDeploy
  <2>5. CASE SshFails(i) \/ TryRaises(i) \/ Undo(i) \/ Raises(i)
    BY <2>5 DEF SshFails, TryRaises, Undo, Raises
  <2> QED
    BY <1>1, <2>1, <2>2, <2>3, <2>4, <2>5 DEF Coroutine
<1>2. Sweep => row[r] = "QUEUED" /\ row'[r] = SweepStatus
  BY DEF Sweep, Swept
<1>3. ~(Begin \/ StartRest \/ JudgeCanary \/ JudgeRolling \/ JudgeAtomic)
  BY DEF Begin, StartRest, JudgeCanary, JudgeRolling, JudgeAtomic, Conclude
<1>4. ~(RollBackNext \/ AttemptRaises \/ Ack \/ Crash \/ UNCHANGED vars)
  BY DEF RollBackNext, AttemptRaises, Ack, Crash, vars
<1>5. ~\E i \in Pos : DeviceTakes(i)
  BY DEF DeviceTakes
<1> QED
  BY <1>1, <1>2, <1>3, <1>4, <1>5 DEF Next, Worker

(* A row becomes SUCCESS in RecordSuccess, in a dry run, or in the sweep   *)
(* of a batch all of whose coroutines are ok.                              *)
LEMMA SuccessNext ==
  Inv /\ [Next]_vars => SuccessIsVerified'
<1> SUFFICES ASSUME Inv, [Next]_vars, NEW r \in Pos, row'[r] = "SUCCESS",
                    ~dryRun'
             PROVE  Vouched(Order[r])'
  BY DEF SuccessIsVerified, Vouched, BackedUp, Captured, RowsOf
<1> USE Positions DEF SetRow
<1>1. ~dryRun
  BY Frames DEF request
<1>2. CASE row[r] = "SUCCESS"
  BY <1>1, <1>2, Monotone
     DEF Inv, SuccessIsVerified, Vouched, BackedUp, Captured
<1>3. ASSUME NEW i \in Pos, RecordSuccess(i), row[r] # "SUCCESS"
      PROVE  Vouched(Order[r])'
  <2>1. rowOf[i] = r /\ pc[i] = "record" /\ session = "ok"
    BY <1>3 DEF RecordSuccess, At, DbReturns, Inv, TypeOK
  <2>2. Order[r] = Order[i] /\ r \in RowsOf(Order[i])
    BY <2>1 DEF Inv, AttemptInv, RowsOf
  <2>3. Vouched(Order[i])
    BY <2>1, <2>2
       DEF Inv, PlaceInv, PlaceInvAt, Vouched, BackedUp, Captured
  <2> QED
    BY <2>2, <2>3, Monotone DEF Inv
<1>4. ASSUME Sweep, row[r] # "SUCCESS" PROVE Vouched(Order[r])'
  <2>1. result = "SUCCESS" /\ job = "sweeping"
    BY <1>4 DEF Sweep, Swept, SweepStatus, Inv, TypeOK
  <2>2. Vouched(Order[r])
    BY <1>1, <2>1 DEF Inv, AttemptInv, AllOk, PlaceInv, PlaceInvAt
  <2> QED
    BY <2>2, Monotone DEF Inv
<1>5. ~\E i \in Pos : DryRun(i)
  BY <1>1 DEF DryRun
<1> QED
  BY <1>2, <1>3, <1>4, <1>5, RowSteps DEF Inv

(* A backup is stored for a claimed row only.                              *)
LEMMA QueuedNext == Inv /\ [Next]_vars => QueuedInv'
<1> SUFFICES ASSUME Inv, [Next]_vars, NEW r \in Pos, row'[r] = "QUEUED"
             PROVE  backup'[r] = "none"
  BY DEF QueuedInv
<1>1. row[r] = "QUEUED"
  BY RowSteps DEF Inv, SweepStatus, TypeOK, Sweep, Terminal
<1>2. backup[r] = "none"
  BY <1>1 DEF Inv, QueuedInv
<1>3. ASSUME NEW i \in Pos, SaveBefore(i) PROVE rowOf[i] # r
  BY <1>1, <1>3
     DEF SaveBefore, At, Inv, PlaceInv, PlaceInvAt, Suspended
<1> QED
  BY <1>2, <1>3, Frames DEF SaveBefore, Inv, TypeOK

(* A row becomes ROLLBACK in Mark, after the audit entry, or in the sweep, *)
(* when nobody has worked on it; and a backup is stored for a row that is  *)
(* being worked on.                                                        *)
LEMMA AuditedNext == Inv /\ [Next]_vars => RollbackIsAudited'
<1> SUFFICES ASSUME Inv, [Next]_vars, NEW r \in Pos, row'[r] = "ROLLBACK",
                    backup'[r] # "none"
             PROVE  <<"ROLLBACK", Order[r]>> \in audit
  BY Monotone DEF RollbackIsAudited, Inv
<1>1. CASE row[r] = "ROLLBACK" /\ backup[r] # "none"
  BY <1>1 DEF Inv, RollbackIsAudited
<1>2. CASE row[r] = "ROLLBACK" /\ backup[r] = "none"
  <2>1. PICK i \in Pos : SaveBefore(i)
    BY <1>2, Frames
  <2>2. rowOf[i] = r /\ pc[i] = "backup"
    BY <1>2, <2>1 DEF SaveBefore, At, Inv, TypeOK
  <2>3. Order[r] = Order[i]
    BY <2>2 DEF Inv, AttemptInv
  <2> QED
    BY <1>2, <2>2, <2>3 DEF Inv, PlaceInv, PlaceInvAt, Suspended
<1>3. CASE row[r] # "ROLLBACK"
  <2>1. CASE Sweep /\ row[r] = "QUEUED"
    BY <2>1 DEF Inv, QueuedInv, Sweep, tables
  <2>2. CASE \E i \in Pos : Mark(i) /\ rowOf[i] = r
    BY <2>2 DEF Mark, At, Inv, AttemptInv, PlaceInv, PlaceInvAt
  <2> QED
    BY <1>3, <2>1, <2>2, RowSteps DEF Inv
<1> QED
  BY <1>1, <1>2, <1>3

LEMMA InvNext == Inv /\ [Next]_vars => Inv'
BY TypeNext, AttemptNext, StageNext, OrderNext, PlaceNext, BackupNext, QueuedNext,
   PredatesNext, SuccessNext, AuditedNext DEF Inv

(* Inv holds throughout, for every request, platform mix and bound.        *)
THEOREM Invariance == Spec => []Inv
BY InvInit, InvNext, PTL DEF Spec

-----------------------------------------------------------------------------
(* When no device is named twice.                                          *)

LEMMA OwnRow ==
  ASSUME Distinct, TypeOK, AttemptInv, NEW i \in Pos,
         pc[i] \notin {"idle", "start", "exn"}
  PROVE  rowOf[i] = i
BY DEF Distinct, TypeOK, AttemptInv

(* A coroutine writes no row but its own.                                  *)
LEMMA OwnWrites ==
  ASSUME Distinct, TypeOK, AttemptInv, NEW i \in Pos, Coroutine(i)
  PROVE  \A j \in Pos \ {i} : row'[j] = row[j]
<1> USE OwnRow DEF At, SetRow, tables, TypeOK
<1>1. CASE Claim(i)
  BY <1>1 DEF Claim, RowsOf, Distinct
<1>2. CASE NoConfig(i) \/ DryRun(i) \/ RecordSuccess(i) \/ Mark(i)
  BY <1>2 DEF NoConfig, DryRun, RecordSuccess, Mark
<1>3. CASE Connect(i) \/ Connected(i) \/ Build(i) \/ Applied(i) \/ Verified(i)
  BY <1>3 DEF Connect, Connected, Build, Applied, Verified
<1>4. CASE SaveBefore(i) \/ SaveAfter(i) \/ AuditDeploy(i) \/ Undo(i)
  BY <1>4 DEF SaveBefore, SaveAfter, AuditDeploy, Undo
<1>5. CASE SshFails(i) \/ TryRaises(i) \/ Raises(i)
  BY <1>5 DEF SshFails, TryRaises, Raises
<1> QED
  BY <1>1, <1>2, <1>3, <1>4, <1>5 DEF Coroutine

LEMMA RowNext ==
  ASSUME Distinct, Inv, RowInv, [Next]_vars
  PROVE  RowInv'
<1> USE Positions
<1>0. /\ UNCHANGED request
      /\ Inv'
  BY Frames, InvNext
<1>1. ASSUME NEW k \in Pos, UNCHANGED <<pc, session, row, backup, job>>,
             tries' + crashes' = 0 => tries + crashes = 0
      PROVE  RowInvAt(k)'
  BY <1>0, <1>1 DEF RowInv, RowInvAt, request
<1>2. CASE Begin
  BY <1>0, <1>2 DEF Begin, StartsFirst, RowInv, RowInvAt, Suspended, Busy,
     tables, counters, request, Inv, AttemptInv
<1>3. CASE StartRest
  BY <1>0, <1>3 DEF StartRest, CanaryPassed, Goto, RowInv, RowInvAt, Suspended,
     Busy, tables, counters, request, stage, link, DbReturns, Inv, TypeOK
<1>4. CASE JudgeCanary \/ JudgeRolling \/ JudgeAtomic
  BY <1>0, <1>4 DEF JudgeCanary, JudgeRolling, JudgeAtomic, Conclude, Settled,
     RowInv, RowInvAt, Suspended, Busy, Finished, tables, request, loop
<1>5. CASE RollBackNext \/ Ack
  BY <1>0, <1>5 DEF RollBackNext, Ack, RowInv, RowInvAt, Inv, AttemptInv, Settled,
     Suspended, Busy, Finished, tables, request, loop
<1>6. CASE Sweep
  BY <1>0, <1>6 DEF Sweep, Swept, RowInv, RowInvAt, Inv, AttemptInv, Settled,
     Suspended, Busy, Finished, request, loop
<1>7. CASE AttemptRaises \/ Crash
  <2>1. /\ \A k \in Pos : pc'[k] = "idle"
        /\ UNCHANGED <<row, backup>>
    BY <1>7 DEF AttemptRaises, Crash, tables
  <2>2. job' \in {"queued", "deploying"} => tries' + crashes' > 0
    BY <1>7, BoundAssumption DEF AttemptRaises, MayRetry, Crash, Inv, TypeOK
  <2> QED
    BY <1>0, <2>1, <2>2 DEF RowInv, RowInvAt, request, Suspended, Busy
<1>8. ASSUME NEW i \in Pos, Coroutine(i) PROVE RowInv'
  <2>1. /\ \A j \in Pos \ {i} : pc'[j] = pc[j] /\ row'[j] = row[j]
                                  /\ backup'[j] = backup[j]
        /\ session = "bad" => session' = "bad"
        /\ UNCHANGED <<job, tries, crashes>>
    <3> USE OwnRow DEF At, Goto, SetRow, DbReturns, DbRaises, SaveReturns, link,
                tables, stage, counters, Inv, TypeOK
    <3>1. CASE Claim(i)
      BY <3>1 DEF Claim, RowsOf, Distinct
    <3>2. CASE NoConfig(i) \/ DryRun(i) \/ RecordSuccess(i) \/ Mark(i)
      BY <3>2 DEF NoConfig, DryRun, RecordSuccess, Mark
    <3>3. CASE SaveBefore(i)
      BY <3>3 DEF SaveBefore
    <3>4. CASE Connect(i) \/ Connected(i) \/ Build(i) \/ Applied(i) \/ Verified(i)
      BY <3>4 DEF Connect, Connected, Build, TypeFetched, Applied, Verified
    <3>5. CASE SaveAfter(i) \/ AuditDeploy(i) \/ Undo(i)
      BY <3>5 DEF SaveAfter, AuditDeploy, Undo
    <3>6. CASE SshFails(i) \/ TryRaises(i) \/ Raises(i)
      BY <3>6 DEF SshFails, TryRaises, Raises
    <3> QED
      BY <1>8, <3>1, <3>2, <3>3, <3>4, <3>5, <3>6 DEF Coroutine
  <2>2. ASSUME NEW j \in Pos \ {i} PROVE RowInvAt(j)'
    BY <1>0, <2>1 DEF RowInv, RowInvAt, request
  <2>3. RowInvAt(i)'
    <3> RowInvAt(i)
      BY DEF RowInv
    <3> USE <1>0, OwnRow
        DEF RowInvAt, At, Goto, SetRow, DbReturns, DbRaises, SaveReturns, link,
            tables, request, Inv, TypeOK, Suspended, Busy
    <3>1. CASE Claim(i)
      BY <3>1 DEF Claim, RowsOf, Distinct
    <3>2. CASE NoConfig(i)
      BY <3>2 DEF NoConfig
    <3>3. CASE DryRun(i)
      BY <3>3 DEF DryRun
    <3>4. CASE Connect(i)
      BY <3>4 DEF Connect
    <3>5. CASE Connected(i)
      BY <3>5 DEF Connected
    <3>6. CASE SaveBefore(i)
      BY <3>6 DEF SaveBefore
    <3>7. CASE Build(i)
      BY <3>7 DEF Build, TypeFetched
    <3>8. CASE Applied(i)
      BY <3>8 DEF Applied
    <3>9. CASE Verified(i)
      BY <3>9 DEF Verified
    <3>10. CASE SaveAfter(i)
      BY <3>10 DEF SaveAfter
    <3>11. CASE RecordSuccess(i)
      BY <3>11 DEF RecordSuccess
    <3>12. CASE AuditDeploy(i)
      BY <3>12 DEF AuditDeploy
    <3>13. CASE SshFails(i)
      BY <3>13 DEF SshFails
    <3>14. CASE TryRaises(i)
      BY <3>14 DEF TryRaises
    <3>15. CASE Undo(i)
      BY <3>15 DEF Undo
    <3>16. CASE Mark(i)
      BY <3>16 DEF Mark
    <3>17. CASE Raises(i)
      BY <3>17 DEF Raises
    <3> QED
      BY <1>8, <3>1, <3>2, <3>3, <3>4, <3>5, <3>6, <3>7, <3>8, <3>9,
         <3>10, <3>11, <3>12, <3>13, <3>14, <3>15, <3>16, <3>17 DEF Coroutine
  <2> QED
    BY <2>2, <2>3 DEF RowInv
<1>9. CASE (\E i \in Pos : DeviceTakes(i)) \/ UNCHANGED vars
  BY <1>1, <1>9 DEF DeviceTakes, vars, tables, counters, stage, link, loop, RowInv
<1> QED
  BY <1>2, <1>3, <1>4, <1>5, <1>6, <1>7, <1>8, <1>9 DEF Next, Worker

(* A coroutine that fails leaves its row as it was, unless it has marked   *)
(* it; nobody else writes it.                                              *)
LEMMA FailedNext ==
  ASSUME Distinct, Inv, RowInv, FailedInv, [Next]_vars
  PROVE  FailedInv'
<1> USE Positions DEF FailedInv, FailedInvAt
<1>1. CASE Begin
  BY <1>1 DEF Begin, StartsFirst, tables
<1>2. CASE StartRest
  BY <1>2 DEF StartRest, CanaryPassed, Goto, tables, Inv, TypeOK
<1>3. CASE JudgeCanary \/ JudgeRolling \/ JudgeAtomic
  BY <1>3 DEF JudgeCanary, JudgeRolling, JudgeAtomic, Conclude, tables, loop
<1>4. CASE RollBackNext \/ Ack
  BY <1>4 DEF RollBackNext, Ack, tables, loop
<1>5. CASE Sweep
  BY <1>5 DEF Sweep, Swept, loop
<1>6. CASE AttemptRaises \/ Crash
  BY <1>6 DEF AttemptRaises, Crash
<1>7. ASSUME NEW i \in Pos, Coroutine(i) PROVE FailedInv'
  <2>1. \A j \in Pos \ {i} : pc'[j] = pc[j] /\ rowOf'[j] = rowOf[j]
    <3>1. pc' = [pc EXCEPT ![i] = pc'[i]]
      BY <1>7, PlaceSteps DEF Inv
    <3> QED
      BY <1>7, <3>1, PlaceGrows DEF Inv, TypeOK
  <2>2. \A j \in Pos \ {i} : row'[j] = row[j]
    BY <1>7, OwnWrites DEF Inv
  <2>3. ASSUME NEW j \in Pos \ {i} PROVE FailedInvAt(j)'
    <3>1. UNCHANGED <<pc[j], rowOf[j], row[j]>>
      BY <2>1, <2>2
    <3>2. FailedInvAt(j)
      OBVIOUS
    <3> QED
      BY <3>1, <3>2
  <2>4. FailedInvAt(i)'
    <3> FailedInvAt(i) /\ RowInvAt(i) /\ TypeOK /\ AttemptInv /\ StageInv
      BY DEF RowInv, Inv
    <3> USE OwnRow
        DEF RowInvAt, At, Goto, SetRow, DbReturns, DbRaises, link, tables,
            TypeOK, Suspended, Busy
    <3>1. CASE Claim(i) \/ Connect(i) \/ Connected(i) \/ SaveBefore(i)
      BY <3>1 DEF Claim, Connect, Connected, SaveBefore
    <3>2. CASE Build(i) \/ Applied(i) \/ Verified(i) \/ SaveAfter(i)
      BY <3>2 DEF Build, Applied, Verified, SaveAfter
    <3>3. CASE DryRun(i) \/ RecordSuccess(i) \/ AuditDeploy(i)
      BY <3>3 DEF DryRun, RecordSuccess, AuditDeploy
    <3>4. CASE NoConfig(i)
      BY <3>4 DEF NoConfig
    <3>5. CASE SshFails(i)
      BY <3>5 DEF SshFails
    <3>6. CASE TryRaises(i)
      BY <3>6 DEF TryRaises
    <3>7. CASE Undo(i) \/ Mark(i)
      BY <3>7 DEF Undo, Mark
    <3>8. CASE Raises(i)
      BY <3>8 DEF Raises, StageInv, Runs
    <3> QED
      BY <1>7, <3>1, <3>2, <3>3, <3>4, <3>5, <3>6, <3>7, <3>8 DEF Coroutine
  <2> QED
    BY <2>3, <2>4
<1>8. CASE (\E i \in Pos : DeviceTakes(i)) \/ UNCHANGED vars
  BY <1>8 DEF DeviceTakes, vars, tables, loop
<1> QED
  BY <1>1, <1>2, <1>3, <1>4, <1>5, <1>6, <1>7, <1>8 DEF Next, Worker

(* DeviceTakes happens under a coroutine whose predecessors are ok, hence  *)
(* verified; and what was verified stays so.                               *)
LEMMA StagedNext ==
  ASSUME Distinct, Inv, StagedRollout, [Next]_vars
  PROVE  StagedRollout'
<1> SUFFICES ASSUME NEW i \in Pos, running'[Order[i]] # "old", NEW j \in Ahead(i)
             PROVE  Order[j] \in verified'
  BY Frames DEF StagedRollout, Ahead, request
<1> USE Positions
<1>1. j \in Pos /\ j # i
  BY DEF Ahead, Pos
<1>2. CASE running[Order[i]] # "old"
  BY <1>1, <1>2, Monotone DEF StagedRollout, Inv
<1>3. CASE running[Order[i]] = "old"
  <2>1. PICK k \in Pos : DeviceTakes(k)
    BY <1>3, Frames
  <2>2. k = i /\ pc[i] = "apply"
    BY <1>3, <2>1 DEF DeviceTakes, Distinct, Inv, TypeOK
  <2>3. pc[j] = "ok" /\ ~dryRun
    BY <2>2 DEF Inv, OrderInv, PlaceInv, PlaceInvAt, Suspended
  <2> QED
    BY <1>1, <2>3, Monotone DEF Inv, PlaceInv, PlaceInvAt, Vouched
<1> QED
  BY <1>2, <1>3

LEMMA VerdictNext ==
  ASSUME Distinct, Inv, RowInv, VerdictMatchesRows, [Next]_vars
  PROVE  VerdictMatchesRows'
<1> SUFFICES ASSUME job' \in {"unacked", "done"}, result' = "SUCCESS",
                    NEW r \in Pos
             PROVE  row'[r] = "SUCCESS"
  BY DEF VerdictMatchesRows
<1>1. CASE Sweep
  BY <1>1 DEF Sweep, Swept, Inv, AttemptInv, AllOk, RowInv, RowInvAt, TypeOK
<1>2. CASE Ack \/ UNCHANGED vars
  BY <1>2 DEF Ack, vars, tables, stage, VerdictMatchesRows
<1>3. ~(Begin \/ StartRest \/ JudgeCanary \/ JudgeRolling \/ JudgeAtomic)
  BY DEF Begin, StartRest, JudgeCanary, JudgeRolling, JudgeAtomic, Conclude, stage
<1>4. ~(RollBackNext \/ AttemptRaises \/ Crash)
  BY DEF RollBackNext, AttemptRaises, Crash
<1>5. ~\E i \in Pos : DeviceTakes(i) \/ Coroutine(i)
  BY CoroutineSteps
<1> QED
  BY <1>1, <1>2, <1>3, <1>4, <1>5 DEF Next, Worker

LEMMA DistinctInit == Init => DistinctInv
<1> SUFFICES ASSUME Init PROVE DistinctInv
  OBVIOUS
<1>1. Inv
  BY InvInit
<1>2. RowInv
  BY DEF Init, RowInv, RowInvAt, Suspended, Busy
<1>3. StagedRollout
  BY Positions DEF Init, StagedRollout
<1>4. VerdictMatchesRows
  BY DEF Init, VerdictMatchesRows
<1>5. FailedInv
  BY DEF Init, FailedInv, FailedInvAt
<1> QED
  BY <1>1, <1>2, <1>3, <1>4, <1>5 DEF DistinctInv

LEMMA DistinctNext ==
  ASSUME Distinct
  PROVE  DistinctInv /\ [Next]_vars => DistinctInv'
BY InvNext, RowNext, FailedNext, StagedNext, VerdictNext DEF DistinctInv

(* So does DistinctInv, for the requests that name no device twice.        *)
THEOREM DistinctInvariance ==
  ASSUME Distinct
  PROVE  Spec => []DistinctInv
BY DistinctInit, DistinctNext, PTL DEF Spec

-----------------------------------------------------------------------------
(* The properties, as theorems of the specification.                       *)

(* No device is changed before a snapshot that predates the change is      *)
(* stored, whatever fails: the code's unchecked save_snapshot is safe.     *)
THEOREM BackupFirst == Spec => []BackupPredatesPush
BY Invariance, PTL DEF Inv

(* SUCCESS stands for a device backed up, verified after a push that       *)
(* reported no refusal, and captured.                                      *)
THEOREM SuccessMeansVerified == Spec => []SuccessIsVerified
BY Invariance, PTL DEF Inv

(* A row at ROLLBACK whose device was worked on is in the audit log.       *)
THEOREM RollbackAudited == Spec => []RollbackIsAudited
BY Invariance, PTL DEF Inv

(* Canary and rolling keep their order, through every rerun.               *)
THEOREM Staged ==
  ASSUME Distinct
  PROVE  Spec => []StagedRollout
BY DistinctInvariance, PTL DEF DistinctInv

(* A task that returned SUCCESS left SUCCESS in every row.                 *)
THEOREM VerdictHolds ==
  ASSUME Distinct
  PROVE  Spec => []VerdictMatchesRows
BY DistinctInvariance, PTL DEF DistinctInv

LEMMA ReopenStep ==
  ASSUME Distinct, DistinctInv, [Next]_vars,
         NEW r \in Pos, row[r] \in Terminal, row'[r] # row[r]
  PROVE  row'[r] = "IN_PROGRESS" /\ tries + crashes > 0
<1> USE DEF DistinctInv, Inv, TypeOK, RowInv, RowInvAt, Terminal
<1>1. ASSUME NEW i \in Pos, Claim(i), r \in RowsOf(Order[i]),
             row'[r] = "IN_PROGRESS"
      PROVE  tries + crashes > 0
  <2>1. r = i /\ pc[i] = "start" /\ job = "deploying"
    BY <1>1 DEF Claim, At, Runs, RowsOf, Distinct
  <2>2. tries \in Nat /\ crashes \in Nat
    BY BoundAssumption
  <2> QED
    BY <2>1, <2>2
<1>2. ASSUME NEW i \in Pos, rowOf[i] = r,
             NoConfig(i) \/ DryRun(i) \/ RecordSuccess(i) \/ Mark(i)
      PROVE  FALSE
  <2>1. pc[i] \in {"load", "record", "mark"} /\ session = "ok"
    BY <1>2 DEF NoConfig, DryRun, RecordSuccess, Mark, At, DbReturns
  <2>2. r = i
    BY <1>2, <2>1, OwnRow
  <2> QED
    BY <2>1, <2>2 DEF Busy, Suspended
<1> QED
  BY <1>1, <1>2, RowSteps

(* A terminal status is changed only by a rerun that claims the row again. *)
THEOREM ReopenedByRerun ==
  ASSUME Distinct
  PROVE  Spec => ReopenedOnlyByRerun
<1>1. DistinctInv /\ [Next]_vars =>
        [\A r \in Pos : (row[r] \in Terminal /\ row'[r] # row[r]) =>
           row'[r] = "IN_PROGRESS" /\ tries + crashes > 0]_vars
  BY ReopenStep
<1> QED
  BY <1>1, DistinctInvariance, PTL DEF Spec, ReopenedOnlyByRerun

-----------------------------------------------------------------------------
(* The batch keeps its promise: BatchDeploy implements BatchPromise.       *)

LEMMA PromiseInit ==
  ASSUME Distinct
  PROVE  Init => Promise!Init
BY Positions DEF Init, Strategies, Promise!Init, Promise!Pos, Pos

(* The state functions of the promise, under the refinement mapping.       *)
Shown == <<strategy, dryRun, row, backup, after, running, verified>>
Open == job \notin {"done", "dead"}

LEMMA Invisible ==
  ASSUME UNCHANGED Shown, Open' = Open
  PROVE  UNCHANGED Promise!vars
BY DEF Shown, Open, Promise!vars

LEMMA OrchestratorSteps ==
  ASSUME Distinct, DistinctInv,
         \/ Begin \/ StartRest \/ JudgeCanary \/ JudgeRolling \/ JudgeAtomic
         \/ RollBackNext \/ Sweep \/ AttemptRaises \/ Ack \/ Crash
  PROVE  [Promise!Next]_(Promise!vars)
<1> USE DEF request, tables, network, stage, Shown, Open
<1>1. CASE Begin \/ StartRest
  BY <1>1, Invisible DEF Begin, StartRest
<1>2. CASE JudgeCanary \/ JudgeRolling \/ JudgeAtomic
  BY <1>2, Invisible DEF JudgeCanary, JudgeRolling, JudgeAtomic, Conclude
<1>3. CASE RollBackNext
  BY <1>3, Invisible DEF RollBackNext
<1>4. CASE Sweep
  <2>1. UNCHANGED <<strategy, dryRun, backup, after, running, verified>> /\ Open /\ Open'
    BY <1>4 DEF Sweep
  <2>2. CASE result = "SUCCESS"
    <3>1. \A r \in Pos : row[r] = "SUCCESS"
      BY <1>4, <2>2 DEF Sweep, DistinctInv, Inv, AttemptInv, AllOk, RowInv, RowInvAt
    <3>2. row' = row
      BY <1>4, <3>1 DEF Sweep, Swept, DistinctInv, Inv, TypeOK
    <3> QED
      BY <2>1, <3>2, Invisible
  <2>3. CASE result # "SUCCESS"
    <3>1. SweepStatus \in {"ROLLBACK", "FAILED"}
      BY <1>4, <2>3 DEF Sweep, SweepStatus, DistinctInv, Inv, TypeOK, Terminal
    <3>2. row' = [r \in Pos |-> IF row[r] = "QUEUED" THEN SweepStatus ELSE row[r]]
      BY <1>4 DEF Sweep, Swept
    <3>3. Promise!Sweep
      BY <2>1, <3>1, <3>2 DEF Promise!Sweep, Promise!Pos, Pos
    <3> QED
      BY <3>3 DEF Promise!Next
  <2> QED
    BY <2>2, <2>3
<1>5. CASE AttemptRaises \/ Ack \/ Crash
  <2>1. UNCHANGED Shown /\ Open
    BY <1>5 DEF AttemptRaises, Ack, Crash
  <2>2. CASE Open'
    BY <2>1, <2>2, Invisible
  <2>3. CASE ~Open'
    <3>1. Promise!Close
      BY <2>1, <2>3 DEF Promise!Close
    <3> QED
      BY <3>1 DEF Promise!Next
  <2> QED
    BY <2>2, <2>3
<1> QED
  BY <1>1, <1>2, <1>3, <1>4, <1>5

(* The promise's Backup and Push, seen from here.                          *)
LEMMA BackupMaps ==
  ASSUME NEW i \in Pos, Open, Open', ~dryRun,
         row[i] = "IN_PROGRESS", backup[i] = "none",
         [k \in Pos |-> running[Order[k]]][i] = "old",
         \E b \in {"empty", "old"} : backup' = [backup EXCEPT ![i] = b],
         UNCHANGED <<strategy, dryRun, row, after, running, verified>>
  PROVE  Promise!Backup(i)
<1>1. UNCHANGED [k \in Pos |-> running[Order[k]]]
  OBVIOUS
<1>2. UNCHANGED (job \in {"done", "dead"})
  BY DEF Open
<1>3. UNCHANGED {k \in Pos : Order[k] \in verified}
  OBVIOUS
<1> QED
  BY <1>1, <1>2, <1>3 DEF Promise!Backup, Open

LEMMA PushMaps ==
  ASSUME NEW i \in Pos, Open, Open', ~dryRun,
         row[i] = "IN_PROGRESS", backup[i] # "none",
         Promise!Ahead(i) = Ahead(i),
         \A j \in Ahead(i) : row[j] = "SUCCESS",
         i \notin {k \in Pos : Order[k] \in NeedsCommit},
         [k \in Pos |-> running[Order[k]]][i] # "new",
         \E b \in {"partial", "new"} :
           [k \in Pos |-> running[Order[k]]]' =
             [[k \in Pos |-> running[Order[k]]] EXCEPT ![i] = b],
         UNCHANGED <<strategy, dryRun, row, backup, after, verified>>
  PROVE  Promise!Push(i)
<1>1. UNCHANGED (job \in {"done", "dead"})
  BY DEF Open
<1>2. UNCHANGED {k \in Pos : Order[k] \in verified}
  OBVIOUS
<1> QED
  BY <1>1, <1>2 DEF Promise!Push, Open

(* A coroutine takes the step of the promise its last action stands for;   *)
(* what it does to the session, the audit log and its own place is not     *)
(* seen.                                                                   *)
LEMMA CoroutinePromise ==
  ASSUME Distinct, DistinctInv, DistinctInv', [Next]_vars,
         NEW i \in Pos, Coroutine(i)
  PROVE  [Promise!Next]_(Promise!vars)
<1> USE Positions DEF request, tables, network, SetRow, At
<1>0. Open /\ Open'
  BY CoroutineSteps DEF Open
<1>1. i \in Promise!Pos
  BY DEF Promise!Pos, Pos
<1>2. pc[i] \notin {"idle", "start", "exn"} => rowOf[i] = i
  BY OwnRow DEF DistinctInv, Inv
<1>3. /\ RowInvAt(i) /\ PlaceInvAt(i) /\ TypeOK
  BY DEF DistinctInv, Inv, RowInv, PlaceInv
<1> USE <1>0, <1>1, <1>2, <1>3
    DEF RowInvAt, PlaceInvAt, Open, Suspended, Busy, DbReturns
<1>4. CASE Claim(i)
  <2>1. row' = [row EXCEPT ![i] = "IN_PROGRESS"]
    BY <1>4 DEF Claim, RowsOf, Distinct
  <2>2. UNCHANGED <<strategy, dryRun, backup, after, running, verified>>
    BY <1>4 DEF Claim
  <2>3. Promise!Claim(i)
    BY <2>1, <2>2 DEF Promise!Claim
  <2> QED
    BY <2>3 DEF Promise!Next
<1>5. CASE NoConfig(i) \/ Mark(i)
  <2>1. Promise!GiveUp(i)
    BY <1>5 DEF NoConfig, Mark, Promise!GiveUp
  <2> QED
    BY <2>1 DEF Promise!Next
<1>6. CASE DryRun(i)
  <2>1. /\ dryRun /\ row[i] = "IN_PROGRESS"
        /\ row' = [row EXCEPT ![i] = "SUCCESS"]
        /\ UNCHANGED <<strategy, dryRun, backup, after, running, verified>>
    BY <1>6 DEF DryRun
  <2>2. Promise!Succeed(i)
    BY <2>1 DEF Promise!Succeed
  <2> QED
    BY <2>2 DEF Promise!Next
<1>7. CASE RecordSuccess(i)
  <2>1. /\ backup[i] # "none" /\ i \in after /\ row[i] = "IN_PROGRESS"
        /\ row' = [row EXCEPT ![i] = "SUCCESS"]
        /\ UNCHANGED <<strategy, dryRun, backup, after, running, verified>>
    BY <1>7 DEF RecordSuccess
  <2>2. i \in {k \in Pos : Order[k] \in verified}
    BY <1>7 DEF RecordSuccess
  <2>3. Promise!Succeed(i)
    BY <2>1, <2>2 DEF Promise!Succeed
  <2> QED
    BY <2>3 DEF Promise!Next
<1>8. CASE SaveBefore(i)
  <2>1. PICK stored \in BOOLEAN, c \in {"empty", running[Order[i]]} :
          backup' = [backup EXCEPT ![rowOf[i]] =
                       IF stored /\ @ = "none" THEN c ELSE @]
    BY <1>8 DEF SaveBefore
  <2>2. CASE backup' = backup
    BY <1>8, <2>2, Invisible, CoroutineSteps DEF SaveBefore, Shown
  <2>3. CASE backup' # backup
    <3>1. backup[i] = "none" /\ backup' = [backup EXCEPT ![i] = c]
      BY <1>8, <2>1, <2>3 DEF SaveBefore, TypeOK
    <3>2. running[Order[i]] = "old"
      BY <3>1 DEF DistinctInv, Inv, BackupPredatesPush, RowsOf, Distinct
    <3>3. /\ ~dryRun /\ row[i] = "IN_PROGRESS" /\ c \in {"empty", "old"}
          /\ UNCHANGED <<strategy, dryRun, row, after, running, verified>>
      BY <1>8, <3>2 DEF SaveBefore
    <3>4. /\ [k \in Pos |-> running[Order[k]]][i] = "old"
          /\ \E b \in {"empty", "old"} : backup' = [backup EXCEPT ![i] = b]
      BY <3>1, <3>2, <3>3
    <3>5. Promise!Backup(i)
      BY <3>1, <3>3, <3>4, BackupMaps
    <3> QED
      BY <3>5 DEF Promise!Next
  <2> QED
    BY <2>2, <2>3
<1>9. CASE SaveAfter(i)
  <2>1. CASE after' = after
    BY <1>9, <2>1, Invisible, CoroutineSteps DEF SaveAfter, Shown
  <2>2. CASE after' # after
    <3>1. Promise!Capture(i)
      BY <1>9, <2>2 DEF SaveAfter, Promise!Capture
    <3> QED
      BY <3>1 DEF Promise!Next
  <2> QED
    BY <2>1, <2>2
<1>10. CASE Connect(i) \/ Connected(i) \/ Build(i) \/ Applied(i)
  BY <1>10, Invisible, CoroutineSteps
     DEF Connect, Connected, Build, Applied, Shown
<1>11. CASE AuditDeploy(i) \/ Undo(i) \/ SshFails(i) \/ TryRaises(i) \/ Raises(i)
  BY <1>11, Invisible, CoroutineSteps
     DEF AuditDeploy, Undo, SshFails, TryRaises, Raises, Shown
<1>12. CASE Verified(i)
  <2>1. /\ ~dryRun /\ row[i] = "IN_PROGRESS" /\ backup[i] # "none"
        /\ UNCHANGED <<strategy, dryRun, row, backup, after, running>>
    BY <1>12 DEF Verified
  <2>2. \A j \in Ahead(i) : row[j] = "SUCCESS"
    BY <1>12 DEF Verified, DistinctInv, Inv, OrderInv, RowInv, RowInvAt, Ahead, Pos
  <2>3. {k \in Pos : Order[k] \in verified}' =
          {k \in Pos : Order[k] \in verified} \cup {i}
    BY <1>12 DEF Verified, Distinct
  <2>4. Promise!Ahead(i) = Ahead(i)
    BY DEF Promise!Ahead, Ahead
  <2>5. UNCHANGED (job \in {"done", "dead"})
    OBVIOUS
  <2>6. UNCHANGED [k \in Pos |-> running[Order[k]]]
    BY <2>1
  <2>7. Promise!Verify(i)
    BY <2>1, <2>2, <2>3, <2>4, <2>5, <2>6 DEF Promise!Verify
  <2> QED
    BY <2>7 DEF Promise!Next
<1> QED
  BY <1>4, <1>5, <1>6, <1>7, <1>8, <1>9, <1>10, <1>11, <1>12 DEF Coroutine

LEMMA DevicePromise ==
  ASSUME Distinct, DistinctInv, NEW i \in Pos, DeviceTakes(i)
  PROVE  [Promise!Next]_(Promise!vars)
<1> USE Positions
<1>1. Open /\ Open' /\ UNCHANGED <<strategy, dryRun, row, backup, after, verified>>
  BY DEF DeviceTakes, Open, request, tables, stage
<1>2. ~dryRun /\ row[i] = "IN_PROGRESS" /\ backup[i] # "none"
  BY OwnRow
     DEF DeviceTakes, DistinctInv, Inv, PlaceInv, PlaceInvAt, RowInv, RowInvAt,
         Suspended
<1>3. \A j \in Ahead(i) : row[j] = "SUCCESS"
  BY DEF DeviceTakes, DistinctInv, Inv, OrderInv, RowInv, RowInvAt, Ahead, Pos
<1>4. PICK c \in {"partial", "new"} : running' = [running EXCEPT ![Order[i]] = c]
  BY DEF DeviceTakes
<1>5. [k \in Pos |-> running[Order[k]]]' =
        [[k \in Pos |-> running[Order[k]]] EXCEPT ![i] = c]
  BY <1>4 DEF Distinct, DistinctInv, Inv, TypeOK
<1>6. i \in Promise!Pos /\ Promise!Ahead(i) = Ahead(i)
  BY DEF Promise!Pos, Pos, Promise!Ahead, Ahead
<1>7. Order[i] \notin NeedsCommit /\ running[Order[i]] # "new"
  BY DEF DeviceTakes
<1>8. /\ [k \in Pos |-> running[Order[k]]][i] # "new"
      /\ i \notin {k \in Pos : Order[k] \in NeedsCommit}
  BY <1>7
<1>9. \E b \in {"partial", "new"} :
        [k \in Pos |-> running[Order[k]]]' =
          [[k \in Pos |-> running[Order[k]]] EXCEPT ![i] = b]
  BY <1>5
<1>10. Promise!Push(i)
  BY <1>1, <1>2, <1>3, <1>6, <1>8, <1>9, PushMaps
<1> QED
  BY <1>6, <1>10 DEF Promise!Next

(* Every behaviour of the batch is a behaviour its promise allows.         *)
THEOREM Refinement ==
  ASSUME Distinct
  PROVE  Spec => KeepsPromise
<1>1. DistinctInv /\ DistinctInv' /\ [Next]_vars => [Promise!Next]_(Promise!vars)
  <2> SUFFICES ASSUME DistinctInv, DistinctInv', [Next]_vars
               PROVE  [Promise!Next]_(Promise!vars)
    OBVIOUS
  <2>1. CASE UNCHANGED vars
    BY <2>1, Invisible DEF vars, request, tables, network, stage, Shown, Open
  <2> QED
    BY <2>1, OrchestratorSteps, CoroutinePromise, DevicePromise DEF Next, Worker
<1> QED
  BY <1>1, PromiseInit, DistinctInvariance, PTL DEF Spec, KeepsPromise, Promise!Spec

-----------------------------------------------------------------------------
(* The worker that module Trigger assumes is implemented by this one.      *)

AtMap == [i \in Pos |-> AtSeen(i)]
LoadedMap == [i \in Pos |-> LoadedSeen(i)]
Handed == <<configured, tries, crashes>>

(* What no step of the worker changes of what Trigger sees.                *)
LEMMA RoutesStand ==
  ASSUME UNCHANGED configured
  PROVE  /\ UNCHANGED [b \in Batch |-> "latest"]
         /\ UNCHANGED [b \in Batch |-> Pos]
         /\ UNCHANGED [i \in Pos |-> "stored"]
         /\ UNCHANGED [i \in Pos |-> [t \in 1 .. 1 |->
                        IF Order[i] \in configured THEN "filled" ELSE "none"]]
         /\ UNCHANGED [b \in Batch |-> "accepted"]
         /\ UNCHANGED [b \in Batch |-> [i \in Pos |-> 0]]
OBVIOUS

LEMMA Unseen ==
  ASSUME UNCHANGED <<row, MessageSeen, AtMap, LoadedMap>>, UNCHANGED Handed
  PROVE  UNCHANGED Routes!vars
BY RoutesStand DEF Handed, AtMap, LoadedMap, Routes!vars, Routes!asked,
   Routes!stored, Routes!attempt

(* With one instant, the worker finds the configuration that is stored.    *)
LEMMA FindsSeen ==
  ASSUME NEW i \in Pos
  PROVE  /\ 1 \in Routes!Stamp
         /\ Order[i] \in configured =>
              Routes!Finds([b \in Batch |-> "latest"]["batch"], i, 1)
         /\ Order[i] \notin configured =>
              \A t \in Routes!Stamp :
                ~Routes!Finds([b \in Batch |-> "latest"]["batch"], i, t)
<1>1. "batch" \in Batch /\ Routes!Stamp = {1} /\ 1 .. 1 = {1}
  BY DEF Batch, Routes!Stamp
<1> QED
  BY <1>1 DEF Routes!Finds, Routes!IsNewest, Routes!Stored

(* A step at one position: of a status s, a place p and what is loaded, l. *)
LEMMA CoroutineSeen ==
  ASSUME NEW i \in Pos, NEW s, NEW p, NEW l,
         TypeOK, MessageSeen = "running", MessageSeen' = "running",
         UNCHANGED Handed,
         row' = [row EXCEPT ![i] = s],
         AtMap' = [AtMap EXCEPT ![i] = p],
         LoadedMap' = [LoadedMap EXCEPT ![i] = l],
         \/ /\ AtMap[i] = "todo"
            /\ s = "IN_PROGRESS" /\ p = "claimed" /\ l = 0
         \/ /\ AtMap[i] = "claimed" /\ Order[i] \in configured
            /\ s = row[i] /\ p = "loaded" /\ l = 1
         \/ /\ AtMap[i] = "claimed" /\ Order[i] \notin configured
            /\ s = "FAILED" /\ p = "ended" /\ l = LoadedMap[i]
         \/ /\ AtMap[i] = "claimed" /\ Order[i] \in configured
            /\ s = "SUCCESS" /\ p = "ended" /\ l = 1
         \/ /\ AtMap[i] = "loaded"
            /\ s = "SUCCESS" /\ p = "ended" /\ l = LoadedMap[i]
         \/ /\ AtMap[i] = "loaded"
            /\ s = "ROLLBACK" /\ p = "ended" /\ l = 0
         \/ /\ AtMap[i] \in {"todo", "claimed", "loaded"}
            /\ s = row[i] /\ p = "died"
            /\ l = IF row[i] = "SUCCESS" THEN LoadedMap[i] ELSE 0
  PROVE  Routes!Worker("batch")
<1>1. [b \in Batch |-> row]' =
        [[b \in Batch |-> row] EXCEPT !["batch"][i] = s]
  BY DEF Batch
<1>2. [b \in Batch |-> AtMap]' =
        [[b \in Batch |-> AtMap] EXCEPT !["batch"][i] = p]
  BY DEF Batch
<1>3. [b \in Batch |-> LoadedMap]' =
        [[b \in Batch |-> LoadedMap] EXCEPT !["batch"][i] = l]
  BY DEF Batch
<1>4. UNCHANGED <<[b \in Batch |-> MessageSeen], [b \in Batch |-> tries + crashes]>>
  BY DEF Handed
<1>5. /\ "batch" \in Batch /\ [b \in Batch |-> MessageSeen]["batch"] = "running"
      /\ i \in [b \in Batch |-> Pos]["batch"]
      /\ [b \in Batch |-> AtMap]["batch"][i] = AtMap[i]
      /\ [b \in Batch |-> LoadedMap]["batch"][i] = LoadedMap[i]
      /\ [b \in Batch |-> row]["batch"][i] = row[i]
  BY DEF Batch
<1>6. s = row[i] => UNCHANGED [b \in Batch |-> row]
  BY DEF TypeOK
<1>7. l = LoadedMap[i] => UNCHANGED [b \in Batch |-> LoadedMap]
  BY DEF LoadedMap
<1> USE <1>1, <1>2, <1>3, <1>4, <1>5, <1>6, <1>7, RoutesStand, FindsSeen
    DEF Handed, AtMap, LoadedMap, Routes!asked, Routes!stored
<1>a. CASE AtMap[i] = "todo" /\ s = "IN_PROGRESS" /\ p = "claimed" /\ l = 0
  <2>1. Routes!Claim("batch", i)
    BY <1>a DEF Routes!Claim
  <2> QED
    BY <2>1 DEF Routes!Worker, Routes!Coroutine
<1>b. CASE /\ AtMap[i] = "claimed" /\ Order[i] \in configured
           /\ s = row[i] /\ p = "loaded" /\ l = 1
  <2>1. Routes!Load("batch", i)
    BY <1>b DEF Routes!Load
  <2> QED
    BY <2>1 DEF Routes!Worker, Routes!Coroutine
<1>c. CASE /\ AtMap[i] = "claimed" /\ Order[i] \notin configured
           /\ s = "FAILED" /\ p = "ended" /\ l = LoadedMap[i]
  <2>1. Routes!NoConfig("batch", i)
    BY <1>c DEF Routes!NoConfig
  <2> QED
    BY <2>1 DEF Routes!Worker, Routes!Coroutine
<1>d. CASE /\ AtMap[i] = "claimed" /\ Order[i] \in configured
           /\ s = "SUCCESS" /\ p = "ended" /\ l = 1
  <2>1. Routes!Rehearse("batch", i)
    BY <1>d DEF Routes!Rehearse
  <2> QED
    BY <2>1 DEF Routes!Worker, Routes!Coroutine
<1>e. CASE /\ AtMap[i] = "loaded"
           /\ s = "SUCCESS" /\ p = "ended" /\ l = LoadedMap[i]
  <2>1. Routes!Succeed("batch", i)
    BY <1>e DEF Routes!Succeed
  <2> QED
    BY <2>1 DEF Routes!Worker, Routes!Coroutine
<1>f. CASE AtMap[i] = "loaded" /\ s = "ROLLBACK" /\ p = "ended" /\ l = 0
  <2>1. Routes!Fail("batch", i)
    BY <1>f DEF Routes!Fail
  <2> QED
    BY <2>1 DEF Routes!Worker, Routes!Coroutine
<1>g. CASE /\ AtMap[i] \in {"todo", "claimed", "loaded"}
           /\ s = row[i] /\ p = "died"
           /\ l = IF row[i] = "SUCCESS" THEN LoadedMap[i] ELSE 0
  <2>1. Routes!Die("batch", i)
    BY <1>g DEF Routes!Die, Routes!Kept
  <2> QED
    BY <2>1 DEF Routes!Worker, Routes!Coroutine
<1> QED
  BY <1>a, <1>b, <1>c, <1>d, <1>e, <1>f, <1>g

(* A coroutine moves what is seen of its own position only.                *)
LEMMA OwnPlace ==
  ASSUME Distinct, Inv, [Next]_vars, NEW i \in Pos, Coroutine(i)
  PROVE  /\ AtMap' = [AtMap EXCEPT ![i] = AtSeen(i)']
         /\ LoadedMap' = [LoadedMap EXCEPT ![i] = LoadedSeen(i)']
         /\ MessageSeen = "running" /\ MessageSeen' = "running"
         /\ UNCHANGED Handed
         /\ row' = [row EXCEPT ![i] = row'[i]]
<1>1. /\ job = "deploying" /\ job' = "deploying"
      /\ UNCHANGED <<configured, tries, crashes>>
  BY CoroutineSteps, Frames DEF request
<1>2. \A j \in Pos \ {i} : pc'[j] = pc[j] /\ rowOf'[j] = rowOf[j]
  <2>1. pc' = [pc EXCEPT ![i] = pc'[i]]
    BY PlaceSteps DEF Inv
  <2> QED
    BY <2>1, PlaceGrows DEF Inv, TypeOK
<1>3. \A j \in Pos \ {i} : row'[j] = row[j]
  BY OwnWrites DEF Inv
<1>4. row \in [Pos -> Status] /\ row' \in [Pos -> Status]
  BY InvNext DEF Inv, TypeOK
<1>5. \A j \in Pos \ {i} : /\ AtSeen(j)' = AtSeen(j)
                            /\ LoadedSeen(j)' = LoadedSeen(j)
  BY <1>2, <1>3 DEF AtSeen, LoadedSeen
<1>6. AtMap' = [AtMap EXCEPT ![i] = AtSeen(i)']
  BY <1>5 DEF AtMap
<1>7. LoadedMap' = [LoadedMap EXCEPT ![i] = LoadedSeen(i)']
  BY <1>5 DEF LoadedMap
<1> QED
  BY <1>1, <1>3, <1>4, <1>6, <1>7 DEF MessageSeen, Handed

LEMMA OwnPlaceStands ==
  ASSUME Distinct, Inv, [Next]_vars, NEW i \in Pos, Coroutine(i),
         row'[i] = row[i], AtSeen(i)' = AtSeen(i)
  PROVE  UNCHANGED Routes!vars
<1>1. LoadedSeen(i)' = LoadedSeen(i)
  BY DEF LoadedSeen
<1>2. AtMap' = AtMap /\ LoadedMap' = LoadedMap
  BY <1>1, OwnPlace DEF AtMap, LoadedMap
<1>3. row' = row
  BY OwnPlace DEF Inv, TypeOK
<1> QED
  BY <1>2, <1>3, OwnPlace, Unseen

(* Which step of Trigger's worker each action of a coroutine is.           *)
LEMMA CoroutineActs ==
  ASSUME Distinct, DistinctInv, DistinctInv', [Next]_vars,
         NEW i \in Pos, Coroutine(i)
  PROVE  [Routes!Worker("batch")]_(Routes!vars)
<1>0. /\ Inv /\ RowInvAt(i) /\ PlaceInvAt(i) /\ FailedInvAt(i) /\ FailedInvAt(i)'
      /\ TypeOK /\ StageInv /\ RowInvAt(i)' /\ job = "deploying"
  BY CoroutineSteps DEF DistinctInv, Inv, RowInv, PlaceInv, FailedInv
<1>1. pc[i] \notin {"idle", "start", "exn"} => rowOf[i] = i
  BY <1>0, OwnRow DEF Inv
<1>2. AtMap[i] = AtSeen(i) /\ LoadedMap[i] = LoadedSeen(i)
  BY DEF AtMap, LoadedMap
<1>3. /\ AtMap' = [AtMap EXCEPT ![i] = AtSeen(i)']
      /\ LoadedMap' = [LoadedMap EXCEPT ![i] = LoadedSeen(i)']
      /\ MessageSeen = "running" /\ MessageSeen' = "running"
      /\ UNCHANGED Handed
      /\ row' = [row EXCEPT ![i] = row'[i]]
  BY <1>0, OwnPlace
<1>4. i # 0 /\ pc'[i] \in Place /\ pc[i] \in Place
  <2>1. i # 0
    BY Positions DEF Pos
  <2>2. TypeOK'
    BY <1>0, TypeNext
  <2> QED
    BY <1>0, <2>1, <2>2 DEF TypeOK
<1> USE <1>0, <1>1, <1>2
    DEF RowInvAt, PlaceInvAt, FailedInvAt, TypeOK, Suspended, Busy, At, Goto,
        SetRow, DbReturns, tables, AtSeen, LoadedSeen
<1>5. CASE Claim(i)
  <2>1. pc[i] = "start" /\ pc'[i] = "load" /\ row'[i] = "IN_PROGRESS"
    BY <1>5 DEF Claim, RowsOf, Distinct
  <2>2. AtSeen(i) = "todo" /\ AtSeen(i)' = "claimed" /\ LoadedSeen(i)' = 0
    BY <2>1
  <2> QED
    BY <1>3, <2>1, <2>2, CoroutineSeen
<1>6. CASE NoConfig(i)
  <2>1. /\ pc[i] = "load" /\ pc'[i] = "bad" /\ row'[i] = "FAILED"
        /\ row[i] = "IN_PROGRESS" /\ Order[i] \notin configured
    BY <1>6 DEF NoConfig
  <2>2. /\ AtSeen(i) = "claimed" /\ AtSeen(i)' = "ended"
        /\ LoadedSeen(i)' = 0 /\ LoadedSeen(i) = 0
    BY <2>1
  <2> QED
    BY <1>3, <2>1, <2>2, CoroutineSeen
<1>7. CASE DryRun(i)
  <2>1. /\ pc[i] = "load" /\ pc'[i] = "audit" /\ row'[i] = "SUCCESS"
        /\ Order[i] \in configured
    BY <1>7 DEF DryRun
  <2>2. AtSeen(i) = "claimed" /\ AtSeen(i)' = "ended" /\ LoadedSeen(i)' = 1
    BY <2>1
  <2> QED
    BY <1>3, <2>1, <2>2, CoroutineSeen
<1>8. CASE Connect(i) \/ (TryRaises(i) /\ pc[i] = "load")
  <2>1. /\ pc[i] = "load" /\ pc'[i] \in {"connect", "undo"} /\ row' = row
        /\ row[i] = "IN_PROGRESS" /\ Order[i] \in configured
    BY <1>8 DEF Connect, TryRaises
  <2>2. AtSeen(i) = "claimed" /\ AtSeen(i)' = "loaded" /\ LoadedSeen(i)' = 1
    BY <2>1
  <2> QED
    BY <1>3, <2>1, <2>2, CoroutineSeen
<1>9. CASE RecordSuccess(i)
  <2>1. pc[i] = "record" /\ pc'[i] = "audit" /\ row'[i] = "SUCCESS"
    BY <1>9 DEF RecordSuccess
  <2>2. /\ AtSeen(i) = "loaded" /\ AtSeen(i)' = "ended"
        /\ LoadedSeen(i)' = 1 /\ LoadedSeen(i) = 1
    BY <2>1
  <2> QED
    BY <1>3, <2>1, <2>2, CoroutineSeen
<1>10. CASE Mark(i)
  <2>1. /\ pc[i] = "mark" /\ pc'[i] = "bad" /\ row'[i] = "ROLLBACK"
        /\ row[i] = "IN_PROGRESS"
    BY <1>10 DEF Mark
  <2>2. AtSeen(i) = "loaded" /\ AtSeen(i)' = "ended" /\ LoadedSeen(i)' = 0
    BY <2>1
  <2> QED
    BY <1>3, <2>1, <2>2, CoroutineSeen
<1>11. CASE Raises(i)
  <2>1. /\ pc[i] \in {"start", "load", "undo", "mark", "audit"}
        /\ pc'[i] = "exn" /\ row' = row /\ rowOf'[i] = rowOf[i]
    BY <1>11 DEF Raises
  <2>2. pc[i] = "start" => rowOf[i] = 0
    BY <2>1 DEF StageInv
  <2>3. CASE pc[i] # "start" /\ row[i] = "SUCCESS"
    <3>1. AtSeen(i) = "ended" /\ AtSeen(i)' = "ended"
      BY <1>4, <2>1, <2>3
    <3> QED
      BY <2>1, <3>1, OwnPlaceStands
  <2>4. CASE pc[i] = "start" \/ row[i] # "SUCCESS"
    <3>1. /\ AtSeen(i) \in {"todo", "claimed", "loaded"} /\ AtSeen(i)' = "died"
          /\ LoadedSeen(i)' = IF row[i] = "SUCCESS" THEN LoadedSeen(i) ELSE 0
      BY <1>4, <2>1, <2>2, <2>4
    <3> QED
      BY <1>3, <2>1, <3>1, CoroutineSeen
  <2> QED
    BY <2>3, <2>4
<1>12. CASE Connected(i) \/ SaveBefore(i) \/ Build(i) \/ Applied(i) \/ Verified(i)
  <2>1. /\ pc[i] \in Suspended \cup {"build"} /\ row' = row
        /\ pc'[i] \in Suspended \cup {"build"}
    BY <1>12 DEF Connected, SaveBefore, Build, Applied, Verified
  <2> QED
    BY <2>1, OwnPlaceStands
<1>13. CASE SaveAfter(i) \/ AuditDeploy(i) \/ Undo(i)
  <2>1. /\ row' = row
        /\ \/ pc[i] = "capture" /\ pc'[i] = "record"
           \/ pc[i] = "audit" /\ pc'[i] = "ok"
           \/ pc[i] = "undo" /\ pc'[i] = "mark"
    BY <1>13 DEF SaveAfter, AuditDeploy, Undo
  <2> QED
    BY <2>1, OwnPlaceStands
<1>14. CASE SshFails(i) \/ (TryRaises(i) /\ pc[i] # "load")
  <2>1. /\ pc[i] \in {"connect", "apply", "verify", "build", "record", "audit"}
        /\ row' = row /\ pc'[i] = "undo"
    BY <1>14 DEF SshFails, TryRaises
  <2>2. AtSeen(i)' = AtSeen(i)
    BY <2>1
  <2> QED
    BY <2>1, <2>2, OwnPlaceStands
<1> QED
  BY <1>5, <1>6, <1>7, <1>8, <1>9, <1>10, <1>11, <1>12, <1>13, <1>14
     DEF Coroutine

(* The attempt as a whole: its coroutines are where they were, or all of   *)
(* them are gone.                                                          *)
LEMMA AttemptStands ==
  ASSUME UNCHANGED rowOf, UNCHANGED row, UNCHANGED Handed,
         \A i \in Pos : \/ pc'[i] = pc[i]
                        \/ pc[i] \in {"idle", "start"} /\ pc'[i] \in {"idle", "start"}
  PROVE  UNCHANGED <<AtMap, LoadedMap>>
<1>1. \A i \in Pos : AtSeen(i)' = AtSeen(i)
  BY DEF AtSeen, Suspended
<1>2. \A i \in Pos : LoadedSeen(i)' = LoadedSeen(i)
  BY <1>1 DEF LoadedSeen
<1> QED
  BY <1>1, <1>2 DEF AtMap, LoadedMap

LEMMA TaskSeen ==
  ASSUME \/ /\ MessageSeen = "queued" /\ MessageSeen' = "running"
            /\ UNCHANGED <<row, AtMap, LoadedMap, Handed>>
         \/ /\ MessageSeen = "unacked" /\ MessageSeen' = "done"
            /\ UNCHANGED <<row, AtMap, LoadedMap, Handed>>
  PROVE  Routes!Worker("batch")
<1>1. [b \in Batch |-> MessageSeen]' =
        [[b \in Batch |-> MessageSeen] EXCEPT !["batch"] = MessageSeen']
  BY DEF Batch
<1>2. [b \in Batch |-> MessageSeen]["batch"] = MessageSeen
  BY DEF Batch
<1>3. UNCHANGED <<[b \in Batch |-> AtMap], [b \in Batch |-> LoadedMap],
                  [b \in Batch |-> row], [b \in Batch |-> tries + crashes]>>
  BY DEF Handed
<1> USE <1>1, <1>2, <1>3, RoutesStand
    DEF Handed, AtMap, LoadedMap, Routes!asked, Routes!stored, Routes!attempt
<1>4. CASE MessageSeen = "queued" /\ MessageSeen' = "running"
  <2>1. Routes!Take("batch")
    BY <1>4 DEF Routes!Take
  <2> QED
    BY <2>1 DEF Routes!Worker
<1>5. CASE MessageSeen = "unacked" /\ MessageSeen' = "done"
  <2>1. Routes!Ack("batch")
    BY <1>5 DEF Routes!Ack
  <2> QED
    BY <2>1 DEF Routes!Worker
<1> QED
  BY <1>4, <1>5

(* The sweep finds what the strategies leave: every coroutine has ended,   *)
(* or one has failed and some were never started.                          *)
LEMMA SweepSeen ==
  ASSUME DistinctInv, Sweep
  PROVE  Routes!Worker("batch")
<1>1. /\ job = "sweeping" /\ job' = "unacked" /\ UNCHANGED <<pc, rowOf>>
      /\ row' = [r \in Pos |-> Swept(r)] /\ UNCHANGED Handed
  BY DEF Sweep, loop, request, counters, Handed
<1>2. \A i \in Pos : pc[i] \in {"ok", "bad", "exn", "idle"}
  BY <1>1 DEF DistinctInv, Inv, AttemptInv, Settled, Finished
<1>3. PICK s \in {"ROLLBACK", "FAILED"} :
        row' = [r \in Pos |-> IF row[r] = "QUEUED" THEN s ELSE row[r]]
  <2>1. CASE result = "SUCCESS"
    <3>1. \A r \in Pos : row[r] = "SUCCESS"
      BY <1>1, <2>1 DEF DistinctInv, Inv, AttemptInv, AllOk, RowInv, RowInvAt
    <3>2. row' = [r \in Pos |-> IF row[r] = "QUEUED" THEN "FAILED" ELSE row[r]]
      BY <1>1, <3>1 DEF Swept
    <3> QED
      BY <3>2
  <2>2. CASE result # "SUCCESS"
    <3>1. SweepStatus \in {"ROLLBACK", "FAILED"}
      BY <1>1, <2>2 DEF SweepStatus, DistinctInv, Inv, TypeOK, Terminal
    <3> QED
      BY <1>1, <3>1 DEF Swept
  <2> QED
    BY <2>1, <2>2
<1>4. \A i \in Pos : AtSeen(i)' = AtSeen(i) /\ LoadedSeen(i)' = LoadedSeen(i)
  <2> SUFFICES ASSUME NEW i \in Pos
               PROVE  AtSeen(i)' = AtSeen(i) /\ LoadedSeen(i)' = LoadedSeen(i)
    OBVIOUS
  <2>1. (row'[i] = "SUCCESS") <=> (row[i] = "SUCCESS")
    BY <1>3
  <2>2. AtSeen(i)' = AtSeen(i)
    BY <1>1, <1>2, <2>1 DEF AtSeen, Suspended
  <2> QED
    BY <2>1, <2>2 DEF LoadedSeen
<1>5. UNCHANGED <<[b \in Batch |-> AtMap], [b \in Batch |-> LoadedMap],
                  [b \in Batch |-> tries + crashes]>>
  BY <1>1, <1>4 DEF AtMap, LoadedMap, Handed
<1>6. /\ [b \in Batch |-> MessageSeen]["batch"] = "running"
      /\ [b \in Batch |-> MessageSeen]' =
           [[b \in Batch |-> MessageSeen] EXCEPT !["batch"] = "unacked"]
  BY <1>1 DEF MessageSeen, Batch
<1>7. [b \in Batch |-> row]' =
        [[b \in Batch |-> row] EXCEPT
           !["batch"] = [r \in Pos |-> IF row[r] = "QUEUED" THEN s ELSE row[r]]]
  BY <1>3 DEF Batch
<1>8. \A i \in Pos : /\ [b \in Batch |-> AtMap]["batch"][i] = AtSeen(i)
                     /\ [b \in Batch |-> row]["batch"][i] = row[i]
  BY DEF Batch, AtMap
<1>9. \A i \in Pos : AtSeen(i) \in {"todo", "ended", "died"}
  BY <1>2 DEF AtSeen, Suspended
<1>10. \/ \A i \in Pos : AtSeen(i) # "todo"
       \/ \E i \in Pos : AtSeen(i) = "ended" /\ row[i] # "SUCCESS"
  <2>1. CASE \E i \in Pos : pc[i] = "bad"
    BY <2>1 DEF AtSeen, Suspended, DistinctInv, FailedInv, FailedInvAt
  <2>2. CASE \A i \in Pos : pc[i] # "idle"
    BY <1>2, <2>2 DEF AtSeen, Suspended
  <2> QED
    BY <1>1, <2>1, <2>2 DEF DistinctInv, Inv, StageInv
<1>11. [b \in Batch |-> Pos]["batch"] = Pos
  BY DEF Batch
<1>12. Routes!Gathered("batch")
  BY <1>8, <1>9, <1>10, <1>11 DEF Routes!Gathered, AtMap
<1>13. \A r \in Pos : Routes!Swept("batch", r, s) =
                        IF row[r] = "QUEUED" THEN s ELSE row[r]
  BY <1>8 DEF Routes!Swept
<1>14. [b \in Batch |-> row]' =
         [[b \in Batch |-> row] EXCEPT
            !["batch"] = [r \in Pos |-> Routes!Swept("batch", r, s)]]
  BY <1>7, <1>13
<1>15. Routes!Close("batch")
  BY <1>1, <1>5, <1>6, <1>12, <1>14, RoutesStand
     DEF Routes!Close, Handed, AtMap, LoadedMap, Routes!asked, Routes!stored,
         Routes!attempt
<1> QED
  BY <1>15 DEF Routes!Worker

(* A broken-off attempt, retried, redelivered or given up.                 *)
LEMMA BreakOffSeen ==
  ASSUME TypeOK, AttemptRaises \/ Crash
  PROVE  Routes!Worker("batch")
<1>1. /\ UNCHANGED <<row, configured>> /\ pc' = [i \in Pos |-> "idle"]
      /\ MessageSeen \in {"running", "unacked"}
      /\ \/ job' = "queued" /\ tries' + crashes' = tries + crashes + 1
            /\ tries + crashes < MaxRetries + MaxCrashes
         \/ job' = "dead" /\ MessageSeen = "running"
            /\ tries' + crashes' = tries + crashes
  <2>1. /\ tries \in Nat /\ crashes \in Nat /\ MaxRetries \in Nat
        /\ MaxCrashes \in Nat /\ tries <= MaxRetries /\ crashes <= MaxCrashes
    BY BoundAssumption DEF TypeOK
  <2>2. CASE AttemptRaises
    <3>1. /\ UNCHANGED <<row, configured, crashes>> /\ pc' = [i \in Pos |-> "idle"]
          /\ job \in {"deploying", "sweeping"}
          /\ \/ job' = "queued" /\ tries' = tries + 1 /\ tries < MaxRetries
             \/ job' = "dead" /\ tries' = tries
      BY <2>2 DEF AttemptRaises, MayRetry, request, tables
    <3> QED
      BY <2>1, <3>1 DEF MessageSeen
  <2>3. CASE Crash
    <3>1. /\ UNCHANGED <<row, configured, tries>> /\ pc' = [i \in Pos |-> "idle"]
          /\ job \in {"deploying", "rollingBack", "sweeping", "unacked"}
          /\ \/ job' = "queued" /\ crashes' = crashes + 1 /\ crashes < MaxCrashes
             \/ job' = "dead" /\ crashes' = crashes /\ job # "unacked"
      BY <2>3 DEF Crash, request, tables
    <3> QED
      BY <2>1, <3>1 DEF MessageSeen
  <2> QED
    BY <2>2, <2>3
<1>2. \A i \in Pos : AtSeen(i)' = "todo"
  BY <1>1 DEF AtSeen, Suspended
<1>3. AtMap' = [i \in Pos |-> "todo"]
  BY <1>2 DEF AtMap
<1>4. \A i \in Pos : LoadedSeen(i)' = IF row[i] = "SUCCESS" THEN LoadedSeen(i) ELSE 0
  <2>1. \A i \in Pos : LoadedSeen(i)' = IF row[i] = "SUCCESS" THEN 1 ELSE 0
    BY <1>1, <1>2 DEF LoadedSeen
  <2> QED
    BY <2>1 DEF LoadedSeen
<1>5. [b \in Batch |-> AtMap]' =
        [[b \in Batch |-> AtMap] EXCEPT !["batch"] = [i \in Pos |-> "todo"]]
  BY <1>3 DEF Batch
<1>6. \A i \in Pos : Routes!Kept("batch", i) =
                       IF row[i] = "SUCCESS" THEN LoadedSeen(i) ELSE 0
  BY DEF Routes!Kept, Batch
<1>7. LoadedMap' = [i \in Pos |-> Routes!Kept("batch", i)]
  BY <1>4, <1>6 DEF LoadedMap
<1>8. [b \in Batch |-> LoadedMap]' =
        [[b \in Batch |-> LoadedMap] EXCEPT
           !["batch"] = [i \in Pos |-> Routes!Kept("batch", i)]]
  BY <1>7 DEF Batch
<1>9. /\ [b \in Batch |-> MessageSeen]["batch"] = MessageSeen
      /\ [b \in Batch |-> tries + crashes]["batch"] = tries + crashes
      /\ [b \in Batch |-> MessageSeen]' =
           [[b \in Batch |-> MessageSeen] EXCEPT !["batch"] = MessageSeen']
      /\ [b \in Batch |-> tries + crashes]' =
           [[b \in Batch |-> tries + crashes] EXCEPT
              !["batch"] = tries' + crashes']
  BY DEF Batch
<1>10. UNCHANGED [b \in Batch |-> row]
  BY <1>1
<1> USE <1>5, <1>8, <1>9, <1>10, RoutesStand
    DEF AtMap, LoadedMap, Routes!asked, Routes!stored
<1>11. CASE job' = "queued" /\ tries' + crashes' = tries + crashes + 1
            /\ tries + crashes < MaxRetries + MaxCrashes
  <2>1. MessageSeen' = "queued"
    BY <1>11 DEF MessageSeen
  <2>2. [b \in Batch |-> tries + crashes]' =
          [[b \in Batch |-> tries + crashes] EXCEPT !["batch"] = @ + 1]
    BY <1>11
  <2>3. Routes!BreakOff("batch")
    BY <1>1, <1>11, <2>1, <2>2 DEF Routes!BreakOff
  <2> QED
    BY <2>3 DEF Routes!Worker
<1>12. CASE job' = "dead" /\ MessageSeen = "running"
            /\ tries' + crashes' = tries + crashes
  <2>1. MessageSeen' = "dead"
    BY <1>12 DEF MessageSeen
  <2>2. UNCHANGED [b \in Batch |-> tries + crashes]
    BY <1>12
  <2>3. Routes!BreakOff("batch")
    BY <1>1, <1>12, <2>1, <2>2 DEF Routes!BreakOff
  <2> QED
    BY <2>3 DEF Routes!Worker
<1> QED
  BY <1>1, <1>11, <1>12

LEMMA OrchestratorSeen ==
  ASSUME DistinctInv,
         \/ Begin \/ StartRest \/ JudgeCanary \/ JudgeRolling \/ JudgeAtomic
         \/ RollBackNext \/ Sweep \/ AttemptRaises \/ Ack \/ Crash
  PROVE  [Routes!Worker("batch")]_(Routes!vars)
<1> USE DEF request, tables, counters, stage, loop, Handed
<1>1. TypeOK
  BY DEF DistinctInv, Inv
<1>2. CASE Begin
  <2>1. \A i \in Pos : pc[i] = "idle" /\ pc'[i] \in {"idle", "start"}
    BY <1>2 DEF Begin, DistinctInv, Inv, AttemptInv
  <2>2. UNCHANGED <<row, Handed>>
    BY <1>2 DEF Begin
  <2>3. \A i \in Pos : AtSeen(i)' = "todo" /\ AtSeen(i) = "todo"
    BY <2>1 DEF AtSeen, Suspended
  <2>4. \A i \in Pos : LoadedSeen(i)' = LoadedSeen(i)
    BY <2>2, <2>3 DEF LoadedSeen
  <2>5. MessageSeen = "queued" /\ MessageSeen' = "running"
    BY <1>2 DEF Begin, MessageSeen
  <2> QED
    BY <2>2, <2>3, <2>4, <2>5, TaskSeen DEF AtMap, LoadedMap
<1>3. CASE StartRest
  <2>1. \A i \in Pos : \/ pc'[i] = pc[i]
                       \/ pc[i] = "idle" /\ pc'[i] = "start"
    BY <1>1, <1>3 DEF StartRest, Goto, TypeOK
  <2>2. UNCHANGED <<row, rowOf, Handed, job>>
    BY <1>3 DEF StartRest
  <2> QED
    BY <2>1, <2>2, AttemptStands, Unseen DEF MessageSeen
<1>4. CASE JudgeCanary \/ JudgeRolling \/ JudgeAtomic \/ RollBackNext
  <2>1. /\ UNCHANGED <<row, rowOf, pc, Handed>>
        /\ job \in {"deploying", "rollingBack"}
        /\ job' \in {"rollingBack", "sweeping"}
    BY <1>4 DEF JudgeCanary, JudgeRolling, JudgeAtomic, RollBackNext, Conclude
  <2> QED
    BY <2>1, AttemptStands, Unseen DEF MessageSeen
<1>5. CASE Sweep
  BY <1>5, SweepSeen
<1>6. CASE AttemptRaises \/ Crash
  BY <1>1, <1>6, BreakOffSeen
<1>7. CASE Ack
  <2>1. /\ UNCHANGED <<row, rowOf, pc, Handed>>
        /\ MessageSeen = "unacked" /\ MessageSeen' = "done"
    BY <1>7 DEF Ack, MessageSeen
  <2> QED
    BY <2>1, AttemptStands, TaskSeen
<1> QED
  BY <1>2, <1>3, <1>4, <1>5, <1>6, <1>7

LEMMA DeviceUnseen ==
  ASSUME NEW i \in Pos, DeviceTakes(i)
  PROVE  UNCHANGED Routes!vars
<1>1. UNCHANGED <<row, rowOf, pc, Handed, MessageSeen>>
  BY DEF DeviceTakes, request, tables, counters, stage, loop, Handed, MessageSeen
<1> QED
  BY <1>1, AttemptStands, Unseen

(* Where this module starts: the message is sent, the rows are committed.  *)
LEMMA SeenInit == Init => Routes!Inv
<1> SUFFICES ASSUME Init PROVE Routes!Inv
  OBVIOUS
<1>1. /\ \A i \in Pos : AtSeen(i) = "todo" /\ LoadedSeen(i) = 0
      /\ row = [i \in Pos |-> "QUEUED"] /\ MessageSeen = "queued"
      /\ tries + crashes = 0
  <2>1. /\ \A i \in Pos : AtSeen(i) = "todo"
        /\ row = [i \in Pos |-> "QUEUED"] /\ job = "queued"
        /\ tries = 0 /\ crashes = 0
    BY DEF Init, AtSeen, Suspended
  <2> QED
    BY <2>1 DEF LoadedSeen, MessageSeen
<1>2. Batch = {"batch"} /\ 1 .. 1 = {1} /\ 0 \in 0 .. (MaxRetries + MaxCrashes)
  BY BoundAssumption DEF Batch
<1>3. Routes!TypeOK
  BY <1>1, <1>2 DEF Routes!TypeOK, Routes!Version, Routes!Stamp, Routes!Status
<1>4. Routes!HandlerInv /\ Routes!RowInv
  BY <1>1 DEF Routes!HandlerInv, Routes!HandlerInvAt, Routes!RowInv, Routes!RowInvAt
<1>5. Routes!AttemptInv /\ Routes!LoadInv
  BY <1>1 DEF Routes!AttemptInv, Routes!AttemptInvAt, Routes!LoadInv, Routes!LoadInvAt
<1>6. Routes!NoRowIsLost /\ Routes!DeployedIsFresh /\ Routes!UndoMeetsEnded
  BY <1>1 DEF Routes!NoRowIsLost, Routes!DeployedIsFresh, Routes!UndoMeetsEnded
<1> QED
  BY <1>3, <1>4, <1>5, <1>6 DEF Routes!Inv

(* Every behaviour of the batch is one of the worker that module Trigger   *)
(* composes with the routes: claims, loads and results come in the order   *)
(* it says, and it ends, is retried or redelivered as often as it says.    *)
THEOREM WorkerIsSeen ==
  ASSUME Distinct
  PROVE  Spec => WorkerAsSeen
<1>1. DistinctInv /\ DistinctInv' /\ [Next]_vars
        => [Routes!Worker("batch")]_(Routes!vars)
  <2> SUFFICES ASSUME DistinctInv, DistinctInv', [Next]_vars
               PROVE  [Routes!Worker("batch")]_(Routes!vars)
    OBVIOUS
  <2>1. CASE UNCHANGED vars
    <3>1. UNCHANGED <<row, rowOf, pc, Handed, MessageSeen>>
      BY <2>1 DEF vars, request, tables, counters, stage, loop, Handed, MessageSeen
    <3> QED
      BY <3>1, AttemptStands, Unseen
  <2>2. ASSUME NEW i \in Pos, Coroutine(i)
        PROVE  [Routes!Worker("batch")]_(Routes!vars)
    BY <2>2, CoroutineActs
  <2>3. ASSUME NEW i \in Pos, DeviceTakes(i)
        PROVE  [Routes!Worker("batch")]_(Routes!vars)
    BY <2>3, DeviceUnseen
  <2> QED
    BY <2>1, <2>2, <2>3, OrchestratorSeen DEF Next, Worker
<1> QED
  BY <1>1, SeenInit, DistinctInvariance, PTL DEF Spec, WorkerAsSeen
=============================================================================
