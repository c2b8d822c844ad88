------------------------------- MODULE Trigger -------------------------------
(***************************************************************************)
(* How deployments get started and rolled back by hand: the API's routes   *)
(* for devices, configurations and deployments (api/routes), the broker,   *)
(* and the worker's side of a batch as far as the routes' tables see it.   *)
(*                                                                         *)
(* A handler never awaits, but the API has several replicas, so what       *)
(* different requests read and commit interleaves; a step here is a        *)
(* handler's stretch up to its next commit, or one round of checks.  What  *)
(* a worker does to devices is BatchDeploy's subject; here a row is        *)
(* claimed, its configuration is loaded, and it ends.                      *)
(***************************************************************************)
EXTENDS Naturals

CONSTANTS
  Device,      \* ids of device rows (uuid4: none is given out twice)
  Request,     \* deployment requests, one batch each
  MaxStamp,    \* bound on the instants created_at of a configuration may be
  MaxUndos,    \* bound on the waiting rollback messages of a row
  MaxReturns   \* bound on how often a message comes back

ASSUME BoundAssumption ==
  MaxStamp \in Nat /\ MaxUndos \in Nat /\ MaxReturns \in Nat

Stamp == 1 .. MaxStamp

(* What config_version may be: create_config gives every configuration the *)
(* version "pending", so any other name is that of none.                   *)
Version == {"latest", "pending", "unknown"}
Terminal == {"SUCCESS", "ROLLBACK", "FAILED"}
Status == {"none", "QUEUED", "IN_PROGRESS"} \cup Terminal

VARIABLES
  version,   \* version[b], targets[b]: what request b asks for
  targets,
  device,    \* device[d]: "unborn", "stored" in table devices, or "deleted"
  config,    \* config[d][t]: the configuration of d with created_at = t: "none",
             \* or whether its desired_state is "empty" or "filled"
  handler,   \* handler[b]: where the trigger handler of b stands
  seen,      \* seen[b][d]: the configuration of d its check found, 0 if none
  row,       \* row[b][d]: deployments.status, "none" without a row
  message,   \* message[b]: where the message of b stands
  at,        \* at[b][d]: where the attempt at b stands with d
  loaded,    \* loaded[b][d]: the configuration it works with, or that a row
             \* at SUCCESS stands for; 0 if none
  returns,   \* returns[b]: how often the message of b came back
  undo       \* undo[b][d]: rollback messages waiting for the row

asked == <<version, targets>>
stored == <<device, config>>
attempt == <<at, loaded>>
vars == <<asked, stored, handler, seen, row, message, attempt, returns, undo>>

Init ==
  /\ version \in [Request -> Version]
  /\ targets \in [Request -> (SUBSET Device) \ {{}}]
  /\ device \in [Device -> {"unborn", "stored"}]
  /\ config = [d \in Device |-> [t \in Stamp |-> "none"]]
  /\ handler = [b \in Request |-> "idle"]
  /\ seen = [b \in Request |-> [d \in Device |-> 0]]
  /\ row = [b \in Request |-> [d \in Device |-> "none"]]
  /\ message = [b \in Request |-> "none"]
  /\ at = [b \in Request |-> [d \in Device |-> "todo"]]
  /\ loaded = [b \in Request |-> [d \in Device |-> 0]]
  /\ returns = [b \in Request |-> 0]
  /\ undo = [b \in Request |-> [d \in Device |-> 0]]

-----------------------------------------------------------------------------
(* Devices and configurations.                                             *)

CreateDevice(d) ==
  /\ device[d] = "unborn"
  /\ device' = [device EXCEPT ![d] = "stored"]
  /\ UNCHANGED <<asked, config, handler, seen, row, message, attempt, returns,
                 undo>>

Stored(d) == {t \in Stamp : config[d][t] # "none"}

(* Configurations and deployments refer to their device by a foreign key   *)
(* that may not be null: with either, deleting the device fails.           *)
DeleteDevice(d) ==
  /\ device[d] = "stored"
  /\ Stored(d) = {} /\ \A b \in Request : row[b][d] = "none"
  /\ device' = [device EXCEPT ![d] = "deleted"]
  /\ UNCHANGED <<asked, config, handler, seen, row, message, attempt, returns,
                 undo>>

(* The replica's own clock stamps the configuration, before the commit:    *)
(* the order of created_at need not be that of the commits.  A request     *)
(* without bgp and ospf stores {}.                                         *)
CreateConfig(d) ==
  /\ device[d] = "stored"
  /\ \E t \in Stamp \ Stored(d), c \in {"empty", "filled"} :
       config' = [config EXCEPT ![d][t] = c]
  /\ UNCHANGED <<asked, device, handler, seen, row, message, attempt, returns,
                 undo>>

Wrong_IsNewest_Oldest(d, t) ==
  t \in Stored(d) /\ \A u \in Stored(d) : t <= u

(* get_latest_config, and the same query in _get_desired_config.           *)
IsNewest(d, t) == t \in Stored(d) /\ \A u \in Stored(d) : u <= t

-----------------------------------------------------------------------------
(* trigger_deployment, and deploy_config, which does the same.             *)

CheckDevices(b) ==
  /\ handler[b] = "idle"
  /\ handler' = [handler EXCEPT ![b] =
                   IF \A d \in targets[b] : device[d] = "stored"
                   THEN "known" ELSE "refused"]
  /\ UNCHANGED <<asked, stored, seen, row, message, attempt, returns, undo>>

(* The configurations find_devices_missing_config is content with.         *)
Accepts(v, d, t) ==
  \/ v = "latest" /\ IsNewest(d, t) /\ config[d][t] = "filled"
  \/ v = "pending" /\ t \in Stored(d)

CheckConfigs(b) ==
  /\ handler[b] = "known"
  /\ \/ \E f \in [targets[b] -> Stamp] :
          /\ \A d \in targets[b] : Accepts(version[b], d, f[d])
          /\ seen' = [seen EXCEPT ![b] =
                        [d \in Device |-> IF d \in targets[b] THEN f[d] ELSE 0]]
          /\ handler' = [handler EXCEPT ![b] = "checked"]
     \/ /\ \E d \in targets[b] : \A t \in Stamp : ~Accepts(version[b], d, t)
        /\ handler' = [handler EXCEPT ![b] = "refused"]
        /\ UNCHANGED seen
  /\ UNCHANGED <<asked, stored, row, message, attempt, returns, undo>>

(* create_deployment_records: one commit for all the rows, which needs the *)
(* devices.                                                                *)
CreateRows(b) ==
  /\ handler[b] = "checked"
  /\ \A d \in targets[b] : device[d] = "stored"
  /\ row' = [row EXCEPT ![b] = [d \in Device |-> IF d \in targets[b]
                                                 THEN "QUEUED" ELSE "none"]]
  /\ handler' = [handler EXCEPT ![b] = "committed"]
  /\ UNCHANGED <<asked, stored, seen, message, attempt, returns, undo>>

(* .delay().                                                               *)
Enqueue(b) ==
  /\ handler[b] = "committed" /\ message[b] = "none"
  /\ message' = [message EXCEPT ![b] = "queued"]
  /\ UNCHANGED <<asked, stored, handler, seen, row, attempt, returns, undo>>

Accept(b) ==
  /\ handler[b] = "committed" /\ message[b] # "none"
  /\ handler' = [handler EXCEPT ![b] = "accepted"]
  /\ UNCHANGED <<asked, stored, seen, row, message, attempt, returns, undo>>

(* A database error, a device that is gone, a broker that is down, a       *)
(* replica that dies: the client is not told 202.  What is committed or    *)
(* sent stays.                                                             *)
HandlerFails(b) ==
  /\ handler[b] \in {"known", "checked", "committed"}
  /\ handler' = [handler EXCEPT ![b] = "failed"]
  /\ UNCHANGED <<asked, stored, seen, row, message, attempt, returns, undo>>

-----------------------------------------------------------------------------
(* validate_and_deploy_task, as the tables see it.                         *)

Take(b) ==
  /\ message[b] = "queued"
  /\ message' = [message EXCEPT ![b] = "running"]
  /\ UNCHANGED <<asked, stored, handler, seen, row, attempt, returns, undo>>

Claim(b, d) ==
  /\ message[b] = "running" /\ d \in targets[b] /\ at[b][d] = "todo"
  /\ row' = [row EXCEPT ![b][d] = "IN_PROGRESS"]
  /\ at' = [at EXCEPT ![b][d] = "claimed"]
  /\ loaded' = [loaded EXCEPT ![b][d] = 0]
  /\ UNCHANGED <<asked, stored, handler, seen, message, returns, undo>>

(* _get_desired_config; its branch for a version returns None.             *)
Finds(v, d, t) == v = "latest" /\ IsNewest(d, t) /\ config[d][t] = "filled"

Load(b, d) ==
  /\ message[b] = "running" /\ at[b][d] = "claimed"
  /\ \E t \in Stamp :
       /\ Finds(version[b], d, t)
       /\ loaded' = [loaded EXCEPT ![b][d] = t]
  /\ at' = [at EXCEPT ![b][d] = "loaded"]
  /\ UNCHANGED <<asked, stored, handler, seen, row, message, returns, undo>>

NoConfig(b, d) ==
  /\ message[b] = "running" /\ at[b][d] = "claimed"
  /\ \A t \in Stamp : ~Finds(version[b], d, t)
  /\ row' = [row EXCEPT ![b][d] = "FAILED"]
  /\ at' = [at EXCEPT ![b][d] = "ended"]
  /\ UNCHANGED <<asked, stored, handler, seen, message, loaded, returns, undo>>

(* DEPLOY_DRY_RUN, which may be set or not: a row that is SUCCESS without  *)
(* any work.                                                               *)
Rehearse(b, d) ==
  /\ message[b] = "running" /\ at[b][d] = "claimed"
  /\ \E t \in Stamp :
       /\ Finds(version[b], d, t)
       /\ loaded' = [loaded EXCEPT ![b][d] = t]
  /\ row' = [row EXCEPT ![b][d] = "SUCCESS"]
  /\ at' = [at EXCEPT ![b][d] = "ended"]
  /\ UNCHANGED <<asked, stored, handler, seen, message, returns, undo>>

(* What is left of what a coroutine had loaded when it is gone.            *)
Kept(b, d) == IF row[b][d] = "SUCCESS" THEN loaded[b][d] ELSE 0

Succeed(b, d) ==
  /\ message[b] = "running" /\ at[b][d] = "loaded"
  /\ row' = [row EXCEPT ![b][d] = "SUCCESS"]
  /\ at' = [at EXCEPT ![b][d] = "ended"]
  /\ UNCHANGED <<asked, stored, handler, seen, message, loaded, returns, undo>>

Fail(b, d) ==
  /\ message[b] = "running" /\ at[b][d] = "loaded"
  /\ row' = [row EXCEPT ![b][d] = "ROLLBACK"]
  /\ at' = [at EXCEPT ![b][d] = "ended"]
  /\ loaded' = [loaded EXCEPT ![b][d] = 0]
  /\ UNCHANGED <<asked, stored, handler, seen, message, returns, undo>>

(* A database call raises in the coroutine, and gather collects that.      *)
Die(b, d) ==
  /\ message[b] = "running" /\ d \in targets[b]
  /\ at[b][d] \in {"todo", "claimed", "loaded"}
  /\ at' = [at EXCEPT ![b][d] = "died"]
  /\ loaded' = [loaded EXCEPT ![b][d] = Kept(b, d)]
  /\ UNCHANGED <<asked, stored, handler, seen, row, message, returns, undo>>

Wrong_Gathered_Detached(b) == \E d \in targets[b] : at[b][d] = "ended"

(* The strategies await every coroutine they start, and leave one out only *)
(* after another one has failed.                                           *)
Gathered(b) ==
  /\ \A d \in targets[b] : at[b][d] \in {"todo", "ended", "died"}
  /\ \/ \A d \in targets[b] : at[b][d] # "todo"
     \/ \E d \in targets[b] : \/ at[b][d] = "died"
                              \/ at[b][d] = "ended" /\ row[b][d] # "SUCCESS"

Wrong_Swept_Never(b, d, s) == row[b][d]
Wrong_Swept_Unmapped(b, d, s) ==
  IF row[b][d] = "QUEUED" THEN "PARTIAL" ELSE row[b][d]

Swept(b, d, s) == IF row[b][d] = "QUEUED" THEN s ELSE row[b][d]

(* _finalize_batch_status.                                                 *)
Close(b) ==
  /\ message[b] = "running" /\ Gathered(b)
  /\ \E s \in {"ROLLBACK", "FAILED"} :
       row' = [row EXCEPT ![b] = [d \in Device |-> Swept(b, d, s)]]
  /\ message' = [message EXCEPT ![b] = "unacked"]
  /\ UNCHANGED <<asked, stored, handler, seen, attempt, returns, undo>>

(* task_acks_late: only now the message is gone.                           *)
Ack(b) ==
  /\ message[b] = "unacked"
  /\ message' = [message EXCEPT ![b] = "done"]
  /\ UNCHANGED <<asked, stored, handler, seen, row, attempt, returns, undo>>

(* The attempt ends in an exception, or its worker is killed: the message  *)
(* comes back (self.retry, redelivery), or it counts as failed.            *)
BreakOff(b) ==
  /\ \/ /\ message[b] \in {"running", "unacked"} /\ returns[b] < MaxReturns
        /\ message' = [message EXCEPT ![b] = "queued"]
        /\ returns' = [returns EXCEPT ![b] = @ + 1]
     \/ /\ message[b] = "running"
        /\ message' = [message EXCEPT ![b] = "dead"]
        /\ UNCHANGED returns
  /\ at' = [at EXCEPT ![b] = [d \in Device |-> "todo"]]
  /\ loaded' = [loaded EXCEPT ![b] = [d \in Device |-> Kept(b, d)]]
  /\ UNCHANGED <<asked, stored, handler, seen, row, undo>>

-----------------------------------------------------------------------------
(* rollback_deployment and the task rollback_device.                       *)

Wrong_Undoable_Always(s) == s # "none"

Undoable(s) == s \in {"SUCCESS", "FAILED"}

RequestUndo(b, d) ==
  /\ Undoable(row[b][d]) /\ undo[b][d] < MaxUndos
  /\ undo' = [undo EXCEPT ![b][d] = @ + 1]
  /\ UNCHANGED <<asked, stored, handler, seen, row, message, attempt, returns>>

(* _rollback_device writes an audit entry; the row keeps its status.       *)
Undo(b, d) ==
  /\ undo[b][d] > 0
  /\ undo' = [undo EXCEPT ![b][d] = @ - 1]
  /\ UNCHANGED <<asked, stored, handler, seen, row, message, attempt, returns>>

-----------------------------------------------------------------------------
Inventory(d) == CreateDevice(d) \/ DeleteDevice(d) \/ CreateConfig(d)

Handler(b) ==
  \/ CheckDevices(b) \/ CheckConfigs(b) \/ CreateRows(b) \/ Enqueue(b)
  \/ Accept(b) \/ HandlerFails(b)

Coroutine(b, d) ==
  \/ Claim(b, d) \/ Load(b, d) \/ NoConfig(b, d) \/ Rehearse(b, d)
  \/ Succeed(b, d) \/ Fail(b, d) \/ Die(b, d)

Worker(b) ==
  \/ Take(b) \/ Close(b) \/ Ack(b) \/ BreakOff(b)
  \/ \E d \in Device : Coroutine(b, d)

Rollback(b, d) == RequestUndo(b, d) \/ Undo(b, d)

Next ==
  \/ \E d \in Device : Inventory(d)
  \/ \E b \in Request : Handler(b) \/ Worker(b)
  \/ \E b \in Request, d \in Device : Rollback(b, d)

Spec == Init /\ [][Next]_vars

(* Some worker takes every message and goes on with what it has taken.     *)
FairSpec == Spec /\ \A b \in Request : WF_vars(Worker(b))

-----------------------------------------------------------------------------
(* Properties.                                                             *)

TypeOK ==
  /\ version \in [Request -> Version]
  /\ targets \in [Request -> SUBSET Device]
  /\ device \in [Device -> {"unborn", "stored", "deleted"}]
  /\ config \in [Device -> [Stamp -> {"none", "empty", "filled"}]]
  /\ handler \in [Request -> {"idle", "known", "checked", "committed",
                              "accepted", "refused", "failed"}]
  /\ seen \in [Request -> [Device -> {0} \cup Stamp]]
  /\ row \in [Request -> [Device -> Status]]
  /\ message \in [Request -> {"none", "queued", "running", "unacked",
                              "done", "dead"}]
  /\ at \in [Request -> [Device -> {"todo", "claimed", "loaded", "ended",
                                    "died"}]]
  /\ loaded \in [Request -> [Device -> {0} \cup Stamp]]
  /\ returns \in [Request -> 0 .. MaxReturns]
  /\ undo \in [Request -> [Device -> 0 .. MaxUndos]]

(* trigger_deployment commits the rows before it sends the message: a row  *)
(* still QUEUED has somebody who will come to it, unless its client was    *)
(* told of an error or its message counts as failed; and a row is left     *)
(* IN_PROGRESS by nobody unless an attempt or a coroutine broke off.       *)
NoRowIsLost ==
  \A b \in Request, d \in Device :
    /\ row[b][d] = "QUEUED" =>
         \/ handler[b] \in {"committed", "failed"}
         \/ message[b] \in {"queued", "running", "dead"}
    /\ row[b][d] = "IN_PROGRESS" =>
         \/ message[b] = "running" /\ at[b][d] \in {"claimed", "loaded"}
         \/ at[b][d] = "died" \/ message[b] = "dead" \/ returns[b] > 0

(* Trigger and worker read the newest configuration each for itself, while *)
(* replicas store more of them, stamped out of order.  What is deployed is *)
(* never older than what was checked, and never empty, whichever attempt   *)
(* deployed it.                                                            *)
DeployedIsFresh ==
  \A b \in Request, d \in Device :
    row[b][d] = "SUCCESS" =>
      /\ loaded[b][d] > 0 /\ config[d][loaded[b][d]] = "filled"
      /\ loaded[b][d] >= seen[b][d]

(* Until a message comes back, a rollback message meets a deployment that  *)
(* has ended and a device that exists: the route looked at the status, and *)
(* nothing reopens the row or deletes the device before the message comes. *)
UndoMeetsEnded ==
  \A b \in Request, d \in Device :
    undo[b][d] > 0 =>
      /\ device[d] = "stored"
      /\ returns[b] = 0 => row[b][d] \in {"SUCCESS", "FAILED"}

(* A request answered with 202 ends in terminal rows, whatever is stored,  *)
(* requested or rolled back meanwhile, unless its message counts as failed *)
(* or a broken-off attempt or coroutine has left the row.                  *)
AcceptedSettles ==
  \A b \in Request, d \in Device :
    (handler[b] = "accepted" /\ d \in targets[b]) ~>
      \/ row[b][d] \in Terminal \/ message[b] = "dead"
      \/ /\ message[b] = "done" /\ row[b][d] = "IN_PROGRESS"
         /\ at[b][d] = "died" \/ returns[b] > 0

-----------------------------------------------------------------------------
(* The inductive invariant behind the safety properties.                   *)

(* Nothing of a batch exists before its handler commits; a 202 means that  *)
(* there is a message.                                                     *)
HandlerInvAt(b) ==
  /\ handler[b] \in {"idle", "known", "checked", "refused"} =>
       message[b] = "none" /\ \A d \in Device : row[b][d] = "none"
  /\ (handler[b] = "committed" \/ message[b] # "none") =>
       \A d \in targets[b] : row[b][d] # "none"
  /\ message[b] = "none" =>
       \A d \in Device : at[b][d] = "todo" /\ row[b][d] \in {"none", "QUEUED"}
  /\ handler[b] = "accepted" => message[b] # "none"

(* A row, and with it a waiting rollback, keeps its device.                *)
RowInvAt(b, d) ==
  /\ row[b][d] # "none" => d \in targets[b] /\ device[d] = "stored"
  /\ undo[b][d] > 0 => row[b][d] # "none"

(* Where an attempt stands with a device, and what the row says.           *)
AttemptInvAt(b, d) ==
  /\ message[b] \in {"unacked", "done"} =>
       row[b][d] # "QUEUED" /\ at[b][d] \in {"todo", "ended", "died"}
  /\ message[b] \in {"none", "queued", "dead"} => at[b][d] = "todo"
  /\ (message[b] \in {"queued", "running"} /\ at[b][d] = "todo") =>
       returns[b] > 0 \/ row[b][d] \in {"none", "QUEUED"}
  /\ at[b][d] \in {"claimed", "loaded"} => row[b][d] = "IN_PROGRESS"
  /\ at[b][d] = "ended" => row[b][d] \in Terminal

(* What the handler found stays stored, so the newest is never older.      *)
LoadInvAt(b, d) ==
  /\ seen[b][d] > 0 => config[d][seen[b][d]] # "none"
  /\ at[b][d] = "loaded" =>
       /\ loaded[b][d] > 0 /\ config[d][loaded[b][d]] = "filled"
       /\ loaded[b][d] >= seen[b][d]

HandlerInv == \A b \in Request : HandlerInvAt(b)
RowInv == \A b \in Request, d \in Device : RowInvAt(b, d)
AttemptInv == \A b \in Request, d \in Device : AttemptInvAt(b, d)
LoadInv == \A b \in Request, d \in Device : LoadInvAt(b, d)

Inv ==
  /\ TypeOK /\ HandlerInv /\ RowInv /\ AttemptInv /\ LoadInv
  /\ NoRowIsLost /\ DeployedIsFresh /\ UndoMeetsEnded
=============================================================================
