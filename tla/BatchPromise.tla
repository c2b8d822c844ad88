---------------------------- MODULE BatchPromise ----------------------------
(***************************************************************************)
(* What a deployment batch promises, seen from the tables and the devices: *)
(* no worker, no coroutines, no session, no retries.  Position i stands    *)
(* for the i-th device of the batch and for its row.  While the batch is   *)
(* open a row may be claimed (again); a claimed row's device may be backed *)
(* up, then pushed, verified and captured; only then may the row say       *)
(* SUCCESS.  What a verified device runs the batch does not promise.       *)
(* BatchDeploy implements this module when no device is named twice.       *)
(***************************************************************************)
EXTENDS Naturals

CONSTANTS
  N,         \* number of devices of the batch
  Deferred   \* positions whose device activates nothing without a commit

Pos == 1 .. N

VARIABLES strategy, dryRun, row, backup, after, running, verified, closed

vars == <<strategy, dryRun, row, backup, after, running, verified, closed>>

Ahead(i) == {j \in 1 .. (i - 1) : \/ strategy = "rolling"
                                  \/ strategy = "canary" /\ j = 1}

Init ==
  /\ strategy \in {"canary", "rolling", "atomic"} /\ dryRun \in BOOLEAN
  /\ row = [i \in Pos |-> "QUEUED"]
  /\ backup = [i \in Pos |-> "none"]
  /\ after = {}
  /\ running = [i \in Pos |-> "old"] /\ verified = {}
  /\ closed = FALSE

(* A row is taken up, for the first time or by a rerun of the batch.       *)
Claim(i) ==
  /\ ~closed
  /\ row' = [row EXCEPT ![i] = "IN_PROGRESS"]
  /\ UNCHANGED <<strategy, dryRun, backup, after, running, verified, closed>>

(* The first backup of a row counts, and it is of an untouched device.     *)
Backup(i) ==
  /\ ~closed /\ ~dryRun
  /\ row[i] = "IN_PROGRESS" /\ backup[i] = "none" /\ running[i] = "old"
  /\ \E c \in {"empty", "old"} : backup' = [backup EXCEPT ![i] = c]
  /\ UNCHANGED <<strategy, dryRun, row, after, running, verified, closed>>

(* A device changes only with its backup stored and with every device      *)
(* ahead of it standing at SUCCESS.                                        *)
Push(i) ==
  /\ ~closed /\ ~dryRun
  /\ row[i] = "IN_PROGRESS" /\ backup[i] # "none"
  /\ \A j \in Ahead(i) : row[j] = "SUCCESS"
  /\ i \notin Deferred /\ running[i] # "new"
  /\ \E c \in {"partial", "new"} : running' = [running EXCEPT ![i] = c]
  /\ UNCHANGED <<strategy, dryRun, row, backup, after, verified, closed>>

(* The push reported no refusal, and the device passed verification.       *)
Verify(i) ==
  /\ ~closed /\ ~dryRun
  /\ row[i] = "IN_PROGRESS" /\ backup[i] # "none"
  /\ \A j \in Ahead(i) : row[j] = "SUCCESS"
  /\ verified' = verified \cup {i}
  /\ UNCHANGED <<strategy, dryRun, row, backup, after, running, closed>>

Capture(i) ==
  /\ ~closed /\ ~dryRun
  /\ row[i] = "IN_PROGRESS" /\ i \in verified
  /\ after' = after \cup {i}
  /\ UNCHANGED <<strategy, dryRun, row, backup, running, verified, closed>>

Succeed(i) ==
  /\ ~closed
  /\ row[i] = "IN_PROGRESS"
  /\ dryRun \/ (backup[i] # "none" /\ i \in after /\ i \in verified)
  /\ row' = [row EXCEPT ![i] = "SUCCESS"]
  /\ UNCHANGED <<strategy, dryRun, backup, after, running, verified, closed>>

(* FAILED means that nothing was done to the device.                       *)
GiveUp(i) ==
  /\ ~closed
  /\ row[i] = "IN_PROGRESS"
  /\ \E s \in {"ROLLBACK", "FAILED"} :
       /\ s = "FAILED" => backup[i] = "none"
       /\ row' = [row EXCEPT ![i] = s]
  /\ UNCHANGED <<strategy, dryRun, backup, after, running, verified, closed>>

(* The rows nobody took up get one status between them, never SUCCESS.     *)
Sweep ==
  /\ ~closed
  /\ \E s \in {"ROLLBACK", "FAILED"} :
       row' = [i \in Pos |-> IF row[i] = "QUEUED" THEN s ELSE row[i]]
  /\ UNCHANGED <<strategy, dryRun, backup, after, running, verified, closed>>

(* The batch's message is gone: nothing of the batch changes any more.     *)
Close ==
  /\ ~closed /\ closed' = TRUE
  /\ UNCHANGED <<strategy, dryRun, row, backup, after, running, verified>>

Next ==
  \/ \E i \in Pos : \/ Claim(i) \/ Backup(i) \/ Push(i) \/ Verify(i)
                    \/ Capture(i) \/ Succeed(i) \/ GiveUp(i)
  \/ Sweep \/ Close

Spec == Init /\ [][Next]_vars
=============================================================================
