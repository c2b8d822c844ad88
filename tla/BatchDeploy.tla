----------------------------- MODULE BatchDeploy -----------------------------
(***************************************************************************)
(* One deployment batch: the Celery message validate_and_deploy_task       *)
(* (tasks/deployment.py) and the DeploymentOrchestrator                    *)
(* (core/orchestrator.py) it runs, one asyncio coroutine _deploy_to_device *)
(* per position of device_ids.                                             *)
(*                                                                         *)
(* The worker runs the coroutines on one event loop.  Code between two     *)
(* awaits that really suspend (the SSH calls, which run in a thread pool)  *)
(* is not interleaved with another coroutine, but every commit in it is a  *)
(* step of its own here, since other sessions and a crash can fall between *)
(* two commits.  All the coroutines share ONE SQLAlchemy session.  A flush *)
(* or a commit that fails leaves it "bad": nothing in the code calls       *)
(* rollback(), so every later database call of this attempt raises.  A     *)
(* query that cannot get a connection raises and leaves the session "ok".  *)
(*                                                                         *)
(* Beside some definitions stands a Wrong_ variant: the same code with a   *)
(* bug that the properties at the end must catch.  No action uses one.     *)
(***************************************************************************)
EXTENDS Naturals, Sequences, FiniteSets

CONSTANTS
  Device,       \* the devices with a row in table devices
  Order,        \* device_ids of the request: a sequence, perhaps with repeats
  NeedsCommit,  \* devices that activate a configuration only on a commit
  MaxRetries,   \* max_retries of the task
  MaxFaults,    \* bound on failing database calls
  MaxCrashes    \* bound on crashes after which the message is redelivered

ASSUME OrderAssumption == Order \in Seq(Device) /\ Order # << >>
ASSUME PlatformAssumption == NeedsCommit \subseteq Device
ASSUME BoundAssumption ==
  MaxRetries \in Nat /\ MaxFaults \in Nat /\ MaxCrashes \in Nat

N == Len(Order)
Pos == 1 .. N                       \* coroutines, and the batch's rows

Strategies == {"canary", "rolling", "atomic"}
Terminal == {"SUCCESS", "ROLLBACK", "FAILED"}
Status == {"QUEUED", "IN_PROGRESS"} \cup Terminal
Config == {"old", "partial", "new"}       \* what a device can be running

VARIABLES
  strategy,    \* arguments of the task, and settings.DEPLOY_DRY_RUN
  dryRun,
  configured,  \* devices whose configuration for config_version is found
  job,         \* where the message and the worker's attempt at it stand
  tries,       \* self.request.retries
  result,      \* the "status" the orchestrator returned in this attempt
  undoAt,      \* position _rollback_all has reached
  pc,          \* pc[i]: where coroutine i of this attempt stands
  rowOf,       \* rowOf[i]: the Deployment row coroutine i works on, 0 if none
  session,     \* the attempt's database session
  row,         \* row[r]: deployments.status of the batch's r-th row
  backup,      \* backup[r]: config_before of the row's earliest snapshot
  after,       \* rows with a config_after snapshot
  audit,       \* entries <<action, device>> of audit_logs
  running,     \* running[d]: the configuration device d runs
  verified,    \* history: devices that passed verification after a push that
               \* returned True
  faults,      \* failing database calls so far
  crashes      \* crashes so far after which the message was redelivered

request == <<strategy, dryRun, configured>>
tables == <<row, backup, after, audit>>
network == <<running, verified>>
counters == <<tries, crashes>>
stage == <<job, result, undoAt>>
link == <<session, faults>>
loop == <<pc, rowOf>>
vars == <<request, tables, network, counters, stage, link, loop>>

RowsOf(d) == {r \in Pos : Order[r] = d}

(***************************************************************************)
(* The states of a coroutine.  In a Suspended state it waits for an SSH    *)
(* call; in a Busy one it is inside a stretch of code without suspension.  *)
(***************************************************************************)
Suspended == {"connect", "backup", "apply", "verify", "capture"}
Busy == {"load", "build", "record", "audit", "undo", "mark"}
Finished == {"ok", "bad", "exn"}    \* success, success: False, an exception
Place == {"idle", "start"} \cup Suspended \cup Busy \cup Finished

(* asyncio runs one coroutine at a time; gather starts its tasks in order, *)
(* before any of them is resumed.                                          *)
Runs(i) ==
  /\ job = "deploying"
  /\ \A j \in Pos \ {i} : pc[j] \notin Busy
  /\ pc[i] \notin Busy =>
       \A j \in Pos : pc[j] = "start" => (pc[i] = "start" /\ i <= j)

At(i, p) == i \in Pos /\ pc[i] = p /\ Runs(i)
Goto(i, p) == pc' = [pc EXCEPT ![i] = p]
SetRow(r, s) == row' = [row EXCEPT ![r] = s]

(***************************************************************************)
(* Database calls.  A call returns only on a good session.  It raises      *)
(* because the session is bad already or because this call fails; After is *)
(* what it can leave of a good session.                                    *)
(***************************************************************************)
DbReturns == session = "ok" /\ UNCHANGED link
DbRaises(After) ==
  \/ session = "bad" /\ UNCHANGED link
  \/ /\ session = "ok" /\ faults < MaxFaults
     /\ faults' = faults + 1
     /\ session' \in After

(* save_snapshot swallows what it catches: it returns with the row stored  *)
(* and the session good, or with the session bad and the row stored (the   *)
(* refresh after the commit failed) or not.                                *)
Wrong_SaveReturns_RollsBack(stored) ==
  \/ DbReturns /\ stored
  \/ /\ faults < MaxFaults /\ faults' = faults + 1
     /\ session' = "ok" /\ ~stored

SaveReturns(stored) ==
  \/ DbReturns /\ stored
  \/ DbRaises({"bad"}) /\ (session = "bad" => ~stored)

-----------------------------------------------------------------------------
Init ==
  /\ strategy \in Strategies
  /\ dryRun \in BOOLEAN
  /\ configured \in SUBSET Device
  /\ job = "queued" /\ tries = 0 /\ result = "none" /\ undoAt = 0
  /\ pc = [i \in Pos |-> "idle"] /\ rowOf = [i \in Pos |-> 0]
  /\ session = "ok" /\ faults = 0 /\ crashes = 0
  /\ row = [r \in Pos |-> "QUEUED"]
  /\ backup = [r \in Pos |-> "none"]
  /\ after = {} /\ audit = {}
  /\ running = [d \in Device |-> "old"] /\ verified = {}

StartsFirst(i) == strategy = "atomic" \/ i = 1

(* A worker takes the message: a new session, and the strategy's first     *)
(* coroutines.                                                             *)
Begin ==
  /\ job = "queued"
  /\ job' = "deploying" /\ result' = "none" /\ undoAt' = 0
  /\ pc' = [i \in Pos |-> IF StartsFirst(i) THEN "start" ELSE "idle"]
  /\ rowOf' = [i \in Pos |-> 0]
  /\ session' = "ok"
  /\ UNCHANGED <<request, tables, network, counters, faults>>

-----------------------------------------------------------------------------
(* _deploy_to_device: coroutine i, device Order[i].                        *)

(* Some row of the device in this batch (first() without an ORDER BY).     *)
Claim(i) ==
  /\ At(i, "start") /\ DbReturns
  /\ \E r \in RowsOf(Order[i]) :
       /\ rowOf' = [rowOf EXCEPT ![i] = r]
       /\ SetRow(r, "IN_PROGRESS")
  /\ Goto(i, "load")
  /\ UNCHANGED <<request, backup, after, audit, network, counters, stage>>

NoConfig(i) ==
  /\ At(i, "load") /\ DbReturns
  /\ Order[i] \notin configured
  /\ SetRow(rowOf[i], "FAILED")
  /\ Goto(i, "bad")
  /\ UNCHANGED <<request, backup, after, audit, network, counters, stage,
                 rowOf>>

DryRun(i) ==
  /\ At(i, "load") /\ DbReturns
  /\ Order[i] \in configured /\ dryRun
  /\ SetRow(rowOf[i], "SUCCESS")
  /\ Goto(i, "audit")
  /\ UNCHANGED <<request, backup, after, audit, network, counters, stage,
                 rowOf>>

Connect(i) ==
  /\ At(i, "load") /\ DbReturns
  /\ Order[i] \in configured /\ ~dryRun
  /\ Goto(i, "connect")
  /\ UNCHANGED <<request, tables, network, counters, stage, rowOf>>

Connected(i) ==
  /\ At(i, "connect")
  /\ Goto(i, "backup")
  /\ UNCHANGED <<request, tables, network, counters, stage, link, rowOf>>

(* The BEFORE snapshot; a running configuration that could not be read is  *)
(* saved as {}.  restore_snapshot reads the row's earliest snapshot.       *)
SaveBefore(i) ==
  /\ At(i, "backup")
  /\ \E stored \in BOOLEAN, c \in {"empty", running[Order[i]]} :
       /\ SaveReturns(stored)
       /\ backup' = [backup EXCEPT ![rowOf[i]] =
                       IF stored /\ @ = "none" THEN c ELSE @]
  /\ Goto(i, "build")
  /\ UNCHANGED <<request, row, after, audit, network, counters, stage, rowOf>>

(* The argument device.device_type of build: the commit or the rollback    *)
(* before it expired the object, so the attribute is fetched again.        *)
Wrong_TypeFetched_Cached == UNCHANGED link

TypeFetched == DbReturns

Build(i) ==
  /\ At(i, "build") /\ TypeFetched
  /\ Goto(i, "apply")
  /\ UNCHANGED <<request, tables, network, counters, stage, rowOf>>

(* The device (external) takes some or all of the lines it is being sent.  *)
(* One that needs a commit keeps them in its candidate configuration.      *)
DeviceTakes(i) ==
  /\ job = "deploying" /\ i \in Pos /\ pc[i] = "apply"
  /\ Order[i] \notin NeedsCommit
  /\ \E c \in {"partial", "new"} \ {running[Order[i]]} :
       /\ running[Order[i]] # "new"
       /\ running' = [running EXCEPT ![Order[i]] = c]
  /\ UNCHANGED <<request, tables, verified, counters, stage, link, loop>>

(* send_config_set returned True: no refusal was noticed in the output.    *)
(* That says nothing of how many of the lines the device took.             *)
Wrong_Applied_SkipsVerify(i) ==
  /\ At(i, "apply") /\ DbReturns
  /\ Goto(i, "capture")
  /\ UNCHANGED <<request, tables, network, counters, stage, rowOf>>

Applied(i) ==
  /\ At(i, "apply") /\ DbReturns
  /\ Goto(i, "verify")
  /\ UNCHANGED <<request, tables, network, counters, stage, rowOf>>

Verified(i) ==
  /\ At(i, "verify")
  /\ verified' = verified \cup {Order[i]}
  /\ Goto(i, "capture")
  /\ UNCHANGED <<request, tables, running, counters, stage, link, rowOf>>

SaveAfter(i) ==
  /\ At(i, "capture")
  /\ \E stored \in BOOLEAN :
       /\ SaveReturns(stored)
       /\ after' = IF stored THEN after \cup {rowOf[i]} ELSE after
  /\ Goto(i, "record")
  /\ UNCHANGED <<request, row, backup, audit, network, counters, stage, rowOf>>

RecordSuccess(i) ==
  /\ At(i, "record") /\ DbReturns
  /\ SetRow(rowOf[i], "SUCCESS")
  /\ Goto(i, "audit")
  /\ UNCHANGED <<request, backup, after, audit, network, counters, stage,
                 rowOf>>

AuditDeploy(i) ==
  /\ At(i, "audit") /\ DbReturns
  /\ audit' = audit \cup {<<"DEPLOY", Order[i]>>}
  /\ Goto(i, "ok")
  /\ UNCHANGED <<request, row, backup, after, network, counters, stage, rowOf>>

(* What makes the try block raise: the SSH calls that fail, the builder,   *)
(* an unpassed verification, and the database calls between them.  After   *)
(* an apply that returned True the device's type may have to be fetched.   *)
Wrong_SshFails_Reconnects(i) ==
  /\ \E p \in {"connect", "apply", "verify"} : At(i, p)
  /\ UNCHANGED link
  /\ Goto(i, "connect")
  /\ UNCHANGED <<request, tables, network, counters, stage, rowOf>>

SshFails(i) ==
  /\ \E p \in {"connect", "apply", "verify"} : At(i, p)
  /\ UNCHANGED link \/ (pc[i] = "apply" /\ DbRaises({"ok", "bad"}))
  /\ Goto(i, "undo")
  /\ UNCHANGED <<request, tables, network, counters, stage, rowOf>>

TryRaises(i) ==
  /\ \/ At(i, "build") /\ (UNCHANGED link \/ DbRaises({"ok", "bad"}))
     \/ At(i, "record") /\ DbRaises({"ok", "bad"})
     \/ At(i, "load") /\ Order[i] \in configured /\ ~dryRun
          /\ DbRaises({"ok", "bad"})
     \/ At(i, "audit") /\ ~dryRun /\ DbRaises({"bad"})
  /\ Goto(i, "undo")
  /\ UNCHANGED <<request, tables, network, counters, stage, rowOf>>

(* The except clause: log, _rollback_device (which only writes an audit    *)
(* entry: the restore is not implemented), then the row's status.          *)
Wrong_Undo_Unaudited(i) ==
  /\ At(i, "undo") /\ DbReturns
  /\ Goto(i, "mark")
  /\ UNCHANGED <<request, tables, network, counters, stage, rowOf>>

Undo(i) ==
  /\ At(i, "undo") /\ DbReturns
  /\ audit' = audit \cup {<<"ROLLBACK", Order[i]>>}
  /\ Goto(i, "mark")
  /\ UNCHANGED <<request, row, backup, after, network, counters, stage, rowOf>>

Mark(i) ==
  /\ At(i, "mark") /\ DbReturns
  /\ SetRow(rowOf[i], "ROLLBACK")
  /\ Goto(i, "bad")
  /\ UNCHANGED <<request, backup, after, audit, network, counters, stage,
                 rowOf>>

(* A database call outside the try block, or in the except clause, raises: *)
(* the exception leaves the coroutine.                                     *)
Raises(i) ==
  /\ \/ \E p \in {"start", "load", "undo", "mark"} :
          At(i, p) /\ DbRaises({"ok", "bad"})
     \/ At(i, "audit") /\ dryRun /\ DbRaises({"bad"})
  /\ Goto(i, "exn")
  /\ UNCHANGED <<request, tables, network, counters, stage, rowOf>>

Coroutine(i) ==
  \/ Claim(i) \/ NoConfig(i) \/ DryRun(i) \/ Connect(i) \/ Connected(i)
  \/ SaveBefore(i) \/ Build(i) \/ Applied(i) \/ Verified(i) \/ SaveAfter(i)
  \/ RecordSuccess(i) \/ AuditDeploy(i)
  \/ SshFails(i) \/ TryRaises(i) \/ Undo(i) \/ Mark(i) \/ Raises(i)

-----------------------------------------------------------------------------
(* The strategies.                                                         *)

(* Nothing that was started still runs.                                    *)
Wrong_Settled_FirstEnded == \E i \in Pos : pc[i] \in Finished
Wrong_Settled_NoneIdle == \A i \in Pos : pc[i] \in Finished

Settled == \A i \in Pos : pc[i] \in Finished \cup {"idle"}

Wrong_AllOk_ExceptionsPass == \A i \in Pos : pc[i] \in {"ok", "exn"}

AllOk == \A i \in Pos : pc[i] = "ok"

Wrong_CanaryPassed_Ended == pc[1] \in Finished

CanaryPassed == pc[1] = "ok"

(* Canary and rolling await a health check after a success: two queries    *)
(* and a constant answer.  It raises with the session.                     *)
StartRest ==
  /\ job = "deploying" /\ Settled /\ DbReturns
  /\ \/ /\ strategy = "canary" /\ CanaryPassed
        /\ N > 1 /\ \A i \in Pos \ {1} : pc[i] = "idle"
        /\ pc' = [i \in Pos |-> IF i = 1 THEN pc[1] ELSE "start"]
     \/ /\ strategy = "rolling"
        /\ \E i \in Pos : /\ pc[i] = "idle"
                          /\ \A j \in 1 .. (i - 1) : pc[j] = "ok"
                          /\ Goto(i, "start")
  /\ UNCHANGED <<request, tables, network, counters, stage, rowOf>>

Conclude(s) ==
  /\ job' = "sweeping" /\ result' = s
  /\ UNCHANGED <<request, tables, network, counters, undoAt, loop>>

JudgeCanary ==
  /\ job = "deploying" /\ strategy = "canary" /\ Settled
  /\ \/ pc[1] = "bad" /\ Conclude("FAILED") /\ UNCHANGED link
     \/ /\ CanaryPassed /\ \A i \in Pos : pc[i] # "idle"
        /\ IF N = 1 THEN DbReturns ELSE UNCHANGED link
        /\ Conclude(IF AllOk THEN "SUCCESS" ELSE "PARTIAL")

JudgeRolling ==
  /\ job = "deploying" /\ strategy = "rolling" /\ Settled
  /\ \/ (\E i \in Pos : pc[i] = "bad") /\ Conclude("FAILED") /\ UNCHANGED link
     \/ AllOk /\ DbReturns /\ Conclude("SUCCESS")

JudgeAtomic ==
  /\ job = "deploying" /\ strategy = "atomic" /\ Settled
  /\ \/ AllOk /\ Conclude("SUCCESS")
     \/ /\ ~AllOk
        /\ job' = "rollingBack" /\ undoAt' = 1
        /\ UNCHANGED <<request, tables, network, counters, result, loop>>
  /\ UNCHANGED link

(* _rollback_all: _rollback_device for each position, exceptions ignored.  *)
RollBackNext ==
  /\ job = "rollingBack" /\ undoAt \in Pos
  /\ \/ DbReturns /\ audit' = audit \cup {<<"ROLLBACK", Order[undoAt]>>}
     \/ DbRaises({"ok", "bad"}) /\ UNCHANGED audit
  /\ undoAt' = undoAt + 1
  /\ IF undoAt = N THEN job' = "sweeping" /\ result' = "ROLLBACK"
                   ELSE UNCHANGED <<job, result>>
  /\ UNCHANGED <<request, row, backup, after, network, counters, loop>>

-----------------------------------------------------------------------------
(* The task around the orchestrator.                                       *)

Wrong_SweepStatus_PartialIsSuccess ==
  IF result = "PARTIAL" THEN "SUCCESS" ELSE result

SweepStatus == IF result = "PARTIAL" THEN "FAILED" ELSE result

Wrong_Swept_AllRows(r) == SweepStatus
Wrong_Swept_None(r) == row[r]

Swept(r) == IF row[r] = "QUEUED" THEN SweepStatus ELSE row[r]

(* _finalize_batch_status: the rows still QUEUED take the batch's status.  *)
Sweep ==
  /\ job = "sweeping" /\ DbReturns
  /\ row' = [r \in Pos |-> Swept(r)]
  /\ job' = "unacked"
  /\ UNCHANGED <<request, backup, after, audit, network, counters, result,
                 undoAt, loop>>

Wrong_MayRetry_OneTooMany == tries <= MaxRetries

MayRetry == tries < MaxRetries

(* An exception reaches the task: self.retry, or failure for good.         *)
AttemptRaises ==
  /\ \/ /\ job = "deploying" /\ strategy # "atomic" /\ Settled
        /\ \/ pc[1] = "exn" \/ (strategy = "rolling" /\ \E i \in Pos : pc[i] = "exn")
        /\ UNCHANGED link
     \/ /\ job = "deploying" /\ Settled /\ DbRaises({"ok", "bad"})
        /\ \/ strategy = "rolling" /\ \A i \in Pos : pc[i] \in {"ok", "idle"}
           \/ /\ strategy = "canary" /\ CanaryPassed
              /\ \A i \in Pos \ {1} : pc[i] = "idle"
     \/ job = "sweeping" /\ DbRaises({"ok", "bad"})
  /\ IF MayRetry THEN job' = "queued" /\ tries' = tries + 1
                 ELSE job' = "dead" /\ UNCHANGED tries
  /\ pc' = [i \in Pos |-> "idle"]
  /\ UNCHANGED <<request, tables, network, crashes, result, undoAt, rowOf>>

(* task_acks_late: the message is acknowledged after the task has ended.   *)
Ack ==
  /\ job = "unacked" /\ job' = "done"
  /\ UNCHANGED <<request, tables, network, counters, result, undoAt, link, loop>>

(* The worker is killed.  If only the child running the task dies, the     *)
(* message is acknowledged as failed; otherwise the broker redelivers it.  *)
Crash ==
  /\ job \in {"deploying", "rollingBack", "sweeping", "unacked"}
  /\ crashes < MaxCrashes
  /\ \/ job' = "queued" /\ crashes' = crashes + 1
     \/ job # "unacked" /\ job' = "dead" /\ UNCHANGED crashes
  /\ pc' = [i \in Pos |-> "idle"]
  /\ UNCHANGED <<request, tables, network, tries, result, undoAt, link, rowOf>>

Worker ==
  \/ Begin \/ StartRest \/ JudgeCanary \/ JudgeRolling \/ JudgeAtomic
  \/ RollBackNext \/ Sweep \/ AttemptRaises \/ Ack
  \/ \E i \in Pos : Coroutine(i) \/ DeviceTakes(i)

Next == Worker \/ Crash

Spec == Init /\ [][Next]_vars

(* The worker keeps running what it can run, and every SSH call returns    *)
(* (they have timeouts).  No crash is ever required.                       *)
FairSpec == Spec /\ WF_vars(Worker)

-----------------------------------------------------------------------------
(* Properties.                                                             *)

TypeOK ==
  /\ strategy \in Strategies /\ dryRun \in BOOLEAN
  /\ configured \in SUBSET Device
  /\ job \in {"queued", "deploying", "rollingBack", "sweeping", "unacked",
              "done", "dead"}
  /\ tries \in 0 .. MaxRetries /\ crashes \in 0 .. MaxCrashes
  /\ faults \in 0 .. MaxFaults
  /\ result \in {"none", "PARTIAL"} \cup Terminal
  /\ undoAt \in 0 .. (N + 1)
  /\ job = "sweeping" => result # "none"
  /\ pc \in [Pos -> Place] /\ rowOf \in [Pos -> 0 .. N]
  /\ \A i \in Pos : pc[i] \notin {"idle", "start", "exn"} => rowOf[i] \in Pos
  /\ session \in {"ok", "bad"}
  /\ row \in [Pos -> Status]
  /\ backup \in [Pos -> {"none", "empty"} \cup Config]
  /\ after \in SUBSET Pos
  /\ audit \in SUBSET ({"DEPLOY", "ROLLBACK"} \X Device)
  /\ running \in [Device -> Config] /\ verified \in SUBSET Device

(* The request names no device twice.                                      *)
Distinct == \A i, j \in Pos : Order[i] = Order[j] => i = j

(* The positions a strategy finishes before it starts position i.          *)
Ahead(i) == {j \in 1 .. (i - 1) : \/ strategy = "rolling"
                                  \/ strategy = "canary" /\ j = 1}

(* _deploy_canary, _deploy_rolling: no device is touched before the ones   *)
(* the strategy puts ahead of it were sent their configuration with no     *)
(* refusal noticed and then passed verification, whatever fails, and       *)
(* however often the task is retried or redelivered.                       *)
StagedRollout ==
  \A i \in Pos : running[Order[i]] # "old" =>
    \A j \in Ahead(i) : Order[j] \in verified

(* _deploy_to_device ignores what save_snapshot returns, and save_snapshot *)
(* swallows its errors; still no device is changed before a snapshot that  *)
(* predates the change is stored (that one may be {}), since a failed save *)
(* spoils the session that the next line, the builder's argument, reads.   *)
BackupPredatesPush ==
  \A d \in Device : running[d] # "old" =>
    \E r \in RowsOf(d) : backup[r] \in {"empty", "old"}

(* A row that says SUCCESS, one that _finalize_batch_status marked         *)
(* included, stands for a device that was backed up, passed verification   *)
(* after a push that reported no refusal, and was captured, dry runs       *)
(* apart.  How many of the lines the device took it does not say.          *)
SuccessIsVerified ==
  \A r \in Pos : (row[r] = "SUCCESS" /\ ~dryRun) =>
    /\ Order[r] \in verified
    /\ \E q \in RowsOf(Order[r]) : backup[q] # "none"
    /\ \E q \in RowsOf(Order[r]) : q \in after

(* The result of the task, SUCCESS, is a promise about every row.          *)
VerdictMatchesRows ==
  (job \in {"unacked", "done"} /\ result = "SUCCESS") =>
    \A r \in Pos : row[r] = "SUCCESS"

(* A device that was worked on and whose row says ROLLBACK has a ROLLBACK  *)
(* entry in the audit log, whatever database call fails on the way.        *)
RollbackIsAudited ==
  \A r \in Pos : (row[r] = "ROLLBACK" /\ backup[r] # "none") =>
    <<"ROLLBACK", Order[r]>> \in audit

(* A terminal status is changed only by a retry or a redelivery of the     *)
(* task, which claims the row again: never by the sweep, and never by      *)
(* another coroutine of the attempt.                                       *)
ReopenedOnlyByRerun ==
  [][\A r \in Pos : (row[r] \in Terminal /\ row'[r] # row[r]) =>
       row'[r] = "IN_PROGRESS" /\ tries + crashes > 0]_vars

(* Whatever fails, the message is settled in the end: no attempt hangs on  *)
(* a coroutine nobody started or judged, and retries end.                  *)
BatchSettles == <>(job \in {"done", "dead"})

(* Every step of the code is a step of the batch's promise, or invisible   *)
(* to it, through failing database calls, crashes, retries and             *)
(* redeliveries: position i of the promise is device Order[i] (no device   *)
(* is named twice), and the batch is closed once its message is gone.      *)
Promise == INSTANCE BatchPromise WITH
  Deferred <- {i \in Pos : Order[i] \in NeedsCommit},
  running <- [i \in Pos |-> running[Order[i]]],
  verified <- {i \in Pos : Order[i] \in verified},
  closed <- (job \in {"done", "dead"})

KeepsPromise == Promise!Spec

(* Seen from the routes: module Trigger has a worker of its own, which     *)
(* claims rows, loads configurations and ends.  Every step of this worker  *)
(* is a step of that one, or invisible to it (no device is named twice,    *)
(* and nobody stores a configuration meanwhile): what Trigger says of the  *)
(* rows, whatever the routes do, it says of the code here.                 *)
Batch == {"batch"}

MessageSeen ==
  CASE job \in {"deploying", "rollingBack", "sweeping"} -> "running"
    [] OTHER -> job

AtSeen(i) ==
  CASE pc[i] \in {"idle", "start"} -> "todo"
    [] pc[i] = "load" -> "claimed"
    [] pc[i] \in Suspended \cup {"build", "record"} -> "loaded"
    [] pc[i] \in {"audit", "ok", "bad"} -> "ended"
    [] pc[i] \in {"undo", "mark"} ->
         IF row[i] = "SUCCESS" THEN "ended" ELSE "loaded"
    [] OTHER -> IF rowOf[i] # 0 /\ row[i] = "SUCCESS" THEN "ended" ELSE "died"

LoadedSeen(i) == IF AtSeen(i) = "loaded" \/ row[i] = "SUCCESS" THEN 1 ELSE 0

Routes == INSTANCE Trigger WITH
  Device <- Pos, Request <- Batch,
  MaxStamp <- 1, MaxUndos <- 0, MaxReturns <- MaxRetries + MaxCrashes,
  version <- [b \in Batch |-> "latest"], targets <- [b \in Batch |-> Pos],
  device <- [i \in Pos |-> "stored"],
  config <- [i \in Pos |-> [t \in 1 .. 1 |->
               IF Order[i] \in configured THEN "filled" ELSE "none"]],
  handler <- [b \in Batch |-> "accepted"],
  seen <- [b \in Batch |-> [i \in Pos |-> 0]],
  row <- [b \in Batch |-> row],
  message <- [b \in Batch |-> MessageSeen],
  at <- [b \in Batch |-> [i \in Pos |-> AtSeen(i)]],
  loaded <- [b \in Batch |-> [i \in Pos |-> LoadedSeen(i)]],
  returns <- [b \in Batch |-> tries + crashes],
  undo <- [b \in Batch |-> [i \in Pos |-> 0]]

WorkerAsSeen == Routes!Inv /\ [][Routes!Worker("batch")]_(Routes!vars)

(* Why a batch ends, for BatchSettles: with every step its message comes   *)
(* back, at most MaxRetries + MaxCrashes times, or fewer steps are left.   *)
(* An attempt takes its coroutines, its stages and _rollback_all forward   *)
(* only, and a device that took its whole configuration takes no more.     *)
Rank(p) ==
  CASE p = "idle" -> 0     [] p = "start" -> 1    [] p = "load" -> 2
    [] p = "connect" -> 3  [] p = "backup" -> 4   [] p = "build" -> 5
    [] p = "apply" -> 6    [] p = "verify" -> 7   [] p = "capture" -> 8
    [] p = "record" -> 9   [] p = "audit" -> 10   [] p = "undo" -> 11
    [] p = "mark" -> 12    [] OTHER -> 13

Stage ==
  CASE job = "queued" -> 0       [] job = "deploying" -> 1
    [] job = "rollingBack" -> 2  [] job = "sweeping" -> 3
    [] job = "unacked" -> 4      [] OTHER -> 5

UndosLeft ==
  CASE job \in {"queued", "deploying"} -> Pos
    [] job = "rollingBack" -> {r \in Pos : r >= undoAt}
    [] OTHER -> {}

(* The steps left of an attempt: of the task (0), of coroutine i in Pos,   *)
(* and of _rollback_all (N + 1).                                           *)
MovesLeft ==
  IF job \in {"done", "dead"} THEN {}
  ELSE ({0} \X ((Stage + 1) .. 5)) \cup ({N + 1} \X UndosLeft)
         \cup (UNION {{i} \X ((Rank(pc[i]) + 1) .. 13) : i \in Pos})

PushesLeft ==
  {x \in Pos \X {"partial", "new"} :
     \/ running[Order[x[1]]] = "old"
     \/ running[Order[x[1]]] = "partial" /\ x[2] = "new"}

StepsLeft == Cardinality(MovesLeft) + Cardinality(PushesLeft)

Returns == tries + crashes

StepsRunOut ==
  [][\/ Returns' = Returns + 1 /\ Returns' <= MaxRetries + MaxCrashes
     \/ Returns' = Returns /\ StepsLeft' < StepsLeft]_vars

(* ... and why it never waits for ever: a batch that has not ended always  *)
(* has a next step, in every strategy and after any failure.  A coroutine  *)
(* can go on, or all have ended and the strategy knows what to do.         *)
CanMove(i) == Runs(i) /\ pc[i] \notin Finished \cup {"idle"}

CanJudge ==
  \/ strategy = "atomic"
  \/ /\ strategy = "canary"
     /\ \/ pc[1] \in {"bad", "exn"}
        \/ /\ CanaryPassed
           /\ \/ \A i \in Pos : pc[i] # "idle"
              \/ \A i \in Pos \ {1} : pc[i] = "idle"
  \/ /\ strategy = "rolling"
     /\ \/ AllOk \/ \E i \in Pos : pc[i] \in {"bad", "exn"}
        \/ \E i \in Pos : pc[i] = "idle" /\ \A j \in 1 .. (i - 1) : pc[j] = "ok"

CanGoOn ==
  \/ job \in {"queued", "sweeping", "unacked"}
  \/ job = "rollingBack" /\ undoAt \in Pos
  \/ /\ job = "deploying"
     /\ (Settled /\ CanJudge) \/ \E i \in Pos : CanMove(i)

NeverStuck == job \notin {"done", "dead"} => CanGoOn

(* With no failing database call and no crash every row reaches a terminal *)
(* status and keeps it, whatever the devices do.                           *)
EveryRowSettles == \A r \in Pos : <>[](row[r] \in Terminal)

-----------------------------------------------------------------------------
(* The inductive invariant behind the safety properties.                   *)

(* Coroutines run only in a deploying attempt, on rows of their devices.   *)
AttemptInv ==
  /\ job # "deploying" => Settled
  /\ job = "queued" => \A i \in Pos : pc[i] = "idle"
  /\ (job = "sweeping" /\ result = "SUCCESS") => AllOk
  /\ \A i \in Pos : pc[i] \notin {"idle", "start", "exn"} =>
       Order[rowOf[i]] = Order[i]

(* How far the strategy, or what follows it, has come with the coroutines. *)
StageInv ==
  /\ job = "deploying" =>
       /\ \A i \in Pos : pc[i] \in {"idle", "start"} => rowOf[i] = 0
       /\ strategy = "atomic" => \A i \in Pos : pc[i] # "idle"
       /\ strategy = "canary" =>
            /\ pc[1] # "idle"
            /\ \/ \A i \in Pos : pc[i] # "idle"
               \/ \A i \in Pos \ {1} : pc[i] = "idle"
  /\ job = "rollingBack" => undoAt \in Pos
  /\ job \in {"rollingBack", "sweeping"} =>
       (\E i \in Pos : pc[i] = "bad") \/ \A i \in Pos : pc[i] # "idle"
  /\ \A i, j \in Pos : (pc[i] \in Busy /\ pc[j] \in Busy) => i = j

(* A strategy starts a position only after the ones ahead of it are ok.    *)
OrderInv ==
  \A i \in Pos : pc[i] # "idle" => \A j \in Ahead(i) : pc[j] = "ok"

BackedUp(d) == \E q \in RowsOf(d) : backup[q] # "none"
Captured(d) == \E q \in RowsOf(d) : q \in after
Vouched(d) == d \in verified /\ BackedUp(d) /\ Captured(d)

(* What a coroutine's place tells of its row, its device and the session.  *)
PlaceInvAt(i) ==
  /\ pc[i] \in Suspended \cup {"build", "record", "undo", "mark"} => ~dryRun
  /\ pc[i] = "build" => session = "bad" \/ backup[rowOf[i]] # "none"
  /\ pc[i] \in {"apply", "verify", "capture", "record"} =>
       backup[rowOf[i]] # "none"
  /\ pc[i] \in {"capture", "record"} => Order[i] \in verified
  /\ pc[i] = "record" => session = "bad" \/ rowOf[i] \in after
  /\ pc[i] \in {"audit", "ok"} => dryRun \/ Vouched(Order[i])
  /\ pc[i] = "mark" => <<"ROLLBACK", Order[i]>> \in audit
  /\ pc[i] \in Suspended \cup Busy =>
       /\ row[rowOf[i]] # "QUEUED"
       /\ row[rowOf[i]] = "ROLLBACK" => <<"ROLLBACK", Order[i]>> \in audit

PlaceInv == \A i \in Pos : PlaceInvAt(i)

(* Every backup of an untouched device shows it untouched.                 *)
BackupInv ==
  \A d \in Device : running[d] = "old" =>
    \A r \in RowsOf(d) : backup[r] \in {"none", "empty", "old"}

(* A row nobody has claimed has no backup.                                 *)
QueuedInv == \A r \in Pos : row[r] = "QUEUED" => backup[r] = "none"

Inv ==
  /\ TypeOK /\ AttemptInv /\ StageInv /\ OrderInv /\ PlaceInv /\ BackupInv
  /\ QueuedInv
  /\ BackupPredatesPush /\ SuccessIsVerified /\ RollbackIsAudited

(* With no device named twice position i has row i for itself.  A row that *)
(* is being worked on is IN_PROGRESS, until the session is lost.           *)
RowInvAt(i) ==
  /\ pc[i] \in (Suspended \cup Busy) \ {"undo", "mark", "audit"} =>
       row[i] = "IN_PROGRESS"
  /\ pc[i] \in {"undo", "mark"} => row[i] = "IN_PROGRESS" \/ session = "bad"
  /\ pc[i] \in {"audit", "ok"} => row[i] = "SUCCESS"
  /\ pc[i] \in Suspended \cup {"build", "record"} => Order[i] \in configured
  /\ backup[i] # "none" => Order[i] \in configured
  /\ (/\ pc[i] \in {"idle", "start"} /\ job \in {"queued", "deploying"}
      /\ tries + crashes = 0) => row[i] = "QUEUED"

RowInv == \A i \in Pos : RowInvAt(i)

(* What the row of a coroutine says that has failed.                       *)
FailedInvAt(i) ==
  /\ pc[i] = "bad" => row[i] \in {"ROLLBACK", "FAILED"}
  /\ pc[i] \in {"undo", "mark"} => row[i] \in {"IN_PROGRESS", "SUCCESS"}
  /\ (pc[i] = "exn" /\ rowOf[i] # 0) => row[i] \in {"IN_PROGRESS", "SUCCESS"}

FailedInv == \A i \in Pos : FailedInvAt(i)

DistinctInv ==
  Inv /\ RowInv /\ FailedInv /\ StagedRollout /\ VerdictMatchesRows

-----------------------------------------------------------------------------
(* What the repository says of a batch and the code does not do.           *)

(* README: "full rollback if any fail".                                    *)
AtomicRestoresDevices ==
  (strategy = "atomic" /\ job = "done" /\ result = "ROLLBACK") =>
    \A d \in Device : running[d] = "old"

(* ARCHITECTURE: QUEUED -> IN_PROGRESS -> SUCCESS | ROLLBACK | FAILED: a   *)
(* batch whose task has ended has only terminal rows.                      *)
SettledWhenDone == job = "done" => \A r \in Pos : row[r] \in Terminal

(* send_config_set: "Commit (JunOS requires explicit commit)": a row that  *)
(* says SUCCESS stands for a device that runs its configuration.           *)
SuccessIsRunning ==
  \A r \in Pos : (row[r] = "SUCCESS" /\ ~dryRun) => running[Order[r]] = "new"
=============================================================================
