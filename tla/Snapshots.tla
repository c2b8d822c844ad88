------------------------------ MODULE Snapshots ------------------------------
(***************************************************************************)
(* The snapshot rows that deployments of ONE device leave, and what is     *)
(* read from them: SnapshotManager (core/snapshot_manager.py) as           *)
(* _deploy_to_device (core/orchestrator.py) and the snapshot route         *)
(* (api/routes/deployments.py) use it.                                     *)
(*                                                                         *)
(* Nothing keeps two batches off one device, and a message that takes      *)
(* longer than the broker's visibility timeout is run by a second worker   *)
(* beside the first: an attempt is one worker's run of one deployment.     *)
(* What attempts do between two awaits or commits is a step here, and the  *)
(* device takes line after line of a push beside them.  The workers'       *)
(* clocks are taken to agree: applied_at is the reading of one clock,      *)
(* which advances at every reading.                                        *)
(*                                                                         *)
(* restore_snapshot has no caller but the tests (_rollback_device is a     *)
(* placeholder); here anybody may call it at any time.                     *)
(***************************************************************************)
EXTENDS Naturals

CONSTANTS
  Deployment,    \* the device's rows in table deployments
  Attempt,       \* runs of them by workers
  DeploymentOf,  \* [Attempt -> Deployment]
  Key, Value,    \* what a line of the device's configuration sets, and to what
  NoLine,        \* a key without a line
  Pushes,        \* Pushes[k][x]: what deployment k sets x to, or NoLine
  Initial,       \* the device's configuration before
  Unread, Null,  \* {} for a configuration that was not read, and null
  NoSnapshot,
  MaxRestores,   \* bound on calls of restore_snapshot
  MaxFaults      \* bound on what goes wrong in attempts

ASSUME AttemptAssumption == DeploymentOf \in [Attempt -> Deployment]
ASSUME ValueAssumption ==
  /\ NoLine \notin Value
  /\ Pushes \in [Deployment -> [Key -> Value \cup {NoLine}]]
  /\ Initial \in [Key -> Value \cup {NoLine}]
ASSUME MarkAssumption ==
  /\ Unread # Null
  /\ {Unread, Null} \cap [Key -> Value \cup {NoLine}] = {}
ASSUME BoundAssumption == MaxRestores \in Nat /\ MaxFaults \in Nat

Config == [Key -> Value \cup {NoLine}]
Saved == Config \cup {Unread}

(* A row, with a ghost: the keys of its deployment's lines that the device *)
(* had taken when the configuration was read.                              *)
Snapshot ==
  [deployment : Deployment, before : Saved \cup {Null}, after : Saved \cup {Null},
   stamp : Nat, taken : SUBSET Key]

ASSUME NoSnapshotAssumption == NoSnapshot \notin Snapshot

VARIABLES
  running,    \* the device's configuration
  at,         \* at[a]: where attempt a stands
  held,       \* held[a]: the snapshot a has in hand
  rows,       \* table config_snapshots
  clock,      \* the next reading of the clock
  taken,      \* ghost: taken[k]: the keys of k's lines the device has taken
  disturbed,  \* ghost: deployments since whose begin the device was changed
              \* otherwise than by their own pushes
  restore,    \* the row restore_snapshot has read, where it is under way
  restores,   \* calls so far
  faults      \* what went wrong so far

vars == <<running, at, held, rows, clock, taken, disturbed, restore, restores, faults>>

Places == {"begin", "captured", "stamped", "saved", "pushed",
           "recaptured", "restamped", "ended"}

Goto(a, place) == at' = [at EXCEPT ![a] = place]

Begun == {DeploymentOf[a] : a \in {a \in Attempt : at[a] # "begin"}}

RowsOf(k) == {r \in rows : r.deployment = k}

(* One of the outcomes, of which all but the good one are faults.          *)
Outcome(good) ==
  /\ good \/ faults < MaxFaults
  /\ faults' = IF good THEN faults ELSE faults + 1

Wrong_IsEarliest_Latest(k, r) ==
  r \in RowsOf(k) /\ \A q \in RowsOf(k) : q.stamp <= r.stamp

(* order_by(applied_at.asc()).first() for the deployment and the device.   *)
IsEarliest(k, r) == r \in RowsOf(k) /\ \A q \in RowsOf(k) : r.stamp <= q.stamp

(* Lines sent to the device replace what their key had; the keys they do   *)
(* not name stay.                                                          *)
Merge(config, lines) == [x \in Key |-> IF lines[x] = NoLine THEN config[x] ELSE lines[x]]

Some(lines, S) == [x \in Key |-> IF x \in S THEN lines[x] ELSE NoLine]

(* A BEFORE row, read while the device had taken no line of its deployment.*)
Fresh(r) == r.before # Null /\ r.taken = {}

Wrong_Stamped_Ahead(snapshot) == [snapshot EXCEPT !.stamp = clock + 1]

Stamped(snapshot) == [snapshot EXCEPT !.stamp = clock]

-----------------------------------------------------------------------------
Init ==
  /\ running = Initial
  /\ at = [a \in Attempt |-> "begin"]
  /\ held = [a \in Attempt |-> NoSnapshot]
  /\ rows = {} /\ clock = 0
  /\ taken = [k \in Deployment |-> {}] /\ disturbed = {}
  /\ restore = NoSnapshot /\ restores = 0 /\ faults = 0

(* A snapshot of attempt a, not yet stamped.                               *)
Reading(a, before, after) ==
  [deployment |-> DeploymentOf[a], before |-> before, after |-> after, stamp |-> 0,
   taken |-> taken[DeploymentOf[a]]]

(* capture_running_config before the push: the text, or None after any     *)
(* error, of which the caller makes {}.                                    *)
CaptureBefore(a) ==
  /\ at[a] = "begin"
  /\ \E read \in {running, Unread} :
       /\ Outcome(read = running)
       /\ held' = [held EXCEPT ![a] = Reading(a, read, Null)]
  /\ Goto(a, "captured")
  /\ UNCHANGED <<running, rows, clock, taken, disturbed, restore, restores>>

(* save_snapshot stamps the row, then commits it.                          *)
Stamp(a) ==
  /\ at[a] \in {"captured", "recaptured"}
  /\ held' = [held EXCEPT ![a] = Stamped(held[a])]
  /\ clock' = clock + 1
  /\ Goto(a, IF at[a] = "captured" THEN "stamped" ELSE "restamped")
  /\ UNCHANGED <<running, rows, taken, disturbed, restore, restores, faults>>

Commit(a) ==
  /\ at[a] \in {"stamped", "restamped"}
  /\ rows' = rows \cup {held[a]}
  /\ held' = [held EXCEPT ![a] = NoSnapshot]
  /\ Goto(a, IF at[a] = "stamped" THEN "saved" ELSE "ended")
  /\ UNCHANGED <<running, clock, taken, disturbed, restore, restores, faults>>

Wrong_CommitFails_GoesOn(a) ==
  /\ at[a] = "stamped"
  /\ rows' = rows
  /\ held' = [held EXCEPT ![a] = NoSnapshot]
  /\ Outcome(FALSE)
  /\ Goto(a, "saved")
  /\ UNCHANGED <<running, clock, taken, disturbed, restore, restores>>

(* A commit, or the refresh after it, that fails is swallowed, but the     *)
(* session is then of no use: reading device.device_type for the commands  *)
(* raises, and the attempt ends.                                           *)
CommitFails(a) ==
  /\ at[a] \in {"stamped", "restamped"}
  /\ rows' \in {rows, rows \cup {held[a]}}
  /\ held' = [held EXCEPT ![a] = NoSnapshot]
  /\ Outcome(FALSE)
  /\ Goto(a, "ended")
  /\ UNCHANGED <<running, clock, taken, disturbed, restore, restores>>

(* While send_config_set sends its lines the device takes them, one after  *)
(* another.  Some it may refuse, and one that waits for a commit takes     *)
(* none.                                                                   *)
DeviceTakes(a) ==
  LET k == DeploymentOf[a]
  IN  /\ at[a] = "saved"
      /\ \E x \in Key :
           /\ Pushes[k][x] # NoLine
           /\ running' = Merge(running, Some(Pushes[k], {x}))
           /\ taken' = [taken EXCEPT ![k] = @ \cup {x}]
      /\ disturbed' = disturbed \cup (Begun \ {k})
      /\ UNCHANGED <<at, held, rows, clock, restore, restores, faults>>

(* Its True says that no refusal was noticed in the output; False, or a    *)
(* lost connection, ends the attempt.  Neither says what was taken.        *)
Push(a) ==
  /\ at[a] = "saved"
  /\ \E noticed \in BOOLEAN :
       /\ Outcome(~noticed)
       /\ Goto(a, IF noticed THEN "ended" ELSE "pushed")
  /\ UNCHANGED <<running, held, rows, clock, taken, disturbed, restore, restores>>

(* The verification changes nothing; when it fails no AFTER row is taken.  *)
VerifyFails(a) ==
  /\ at[a] = "pushed"
  /\ Outcome(FALSE)
  /\ Goto(a, "ended")
  /\ UNCHANGED <<running, held, rows, clock, taken, disturbed, restore, restores>>

Wrong_CaptureAfter_Startup(a) ==
  /\ at[a] = "pushed"
  /\ Outcome(TRUE)
  /\ held' = [held EXCEPT ![a] = Reading(a, Null, Initial)]
  /\ Goto(a, "recaptured")
  /\ UNCHANGED <<running, rows, clock, taken, disturbed, restore, restores>>

CaptureAfter(a) ==
  /\ at[a] = "pushed"
  /\ \E read \in {running, Unread} :
       /\ Outcome(read = running)
       /\ held' = [held EXCEPT ![a] = Reading(a, Null, read)]
  /\ Goto(a, "recaptured")
  /\ UNCHANGED <<running, rows, clock, taken, disturbed, restore, restores>>

Deploy(a) ==
  \/ CaptureBefore(a) \/ Stamp(a) \/ Commit(a) \/ CommitFails(a)
  \/ DeviceTakes(a) \/ Push(a) \/ VerifyFails(a) \/ CaptureAfter(a)

-----------------------------------------------------------------------------
(* What is read from the rows.                                             *)

Usable(r) == r.before \notin {Null, Unread}

(* restore_snapshot finds a configuration to go back to, or returns False. *)
FindRow(k) ==
  /\ restore = NoSnapshot /\ restores < MaxRestores
  /\ restores' = restores + 1
  /\ \E r \in rows : IsEarliest(k, r) /\ Usable(r) /\ restore' = r
  /\ UNCHANGED <<running, at, held, rows, clock, taken, disturbed, faults>>

(* Then it sends the device every line of it: the device takes all, those  *)
(* before a failure, or none, where what it shows is not what it reads (on *)
(* JunOS "show configuration" prints braces).                              *)
Replay ==
  /\ restore # NoSnapshot
  /\ \E S \in SUBSET Key :
       running' = Merge(running, Some(restore.before, S))
  /\ disturbed' = disturbed \cup Begun
  /\ restore' = NoSnapshot
  /\ UNCHANGED <<at, held, rows, clock, taken, restores, faults>>

Next ==
  \/ \E a \in Attempt : Deploy(a)
  \/ \E k \in Deployment : FindRow(k)
  \/ Replay

Spec == Init /\ [][Next]_vars

-----------------------------------------------------------------------------
(* Properties.                                                             *)

TypeOK ==
  /\ running \in Config
  /\ at \in [Attempt -> Places]
  /\ held \in [Attempt -> Snapshot \cup {NoSnapshot}]
  /\ rows \subseteq Snapshot /\ \A r \in rows : r.stamp < clock
  /\ clock \in Nat /\ taken \in [Deployment -> SUBSET Key]
  /\ disturbed \subseteq Deployment
  /\ restore \in Snapshot \cup {NoSnapshot} /\ restores \in 0 .. MaxRestores
  /\ faults \in 0 .. MaxFaults

(* Whatever attempts overlap, repeat or break off: the earliest row of a   *)
(* deployment, the one restore_snapshot and diff_snapshots read, is a      *)
(* BEFORE row, and what it holds was read before the device took any line  *)
(* of that deployment (core/snapshot_manager.py:127-140).                  *)
EarliestIsPreImage ==
  \A k \in Deployment : \A r \in rows : IsEarliest(k, r) => Fresh(r)

(* Where nobody else has changed the device since a deployment began, its  *)
(* earliest row and any AFTER row, of whichever attempts, tell exactly     *)
(* what the device did: over what there was, those of the deployment's     *)
(* lines that it had taken by then.  send_config_set does not know which.  *)
RowsTellChange ==
  \A r, q \in rows :
    /\ r.deployment = q.deployment /\ IsEarliest(r.deployment, r)
    /\ {r.before, q.after} \subseteq Config /\ r.deployment \notin disturbed
    => q.after = Merge(r.before, Some(Pushes[r.deployment], q.taken))

(* A restore works from a configuration of before the push, and where only *)
(* that deployment changed the device since, what it leaves different are  *)
(* keys the deployment sets: those that had no line, which nothing         *)
(* negates, and those a broken replay did not reach                        *)
(* (core/snapshot_manager.py:127-178).                                     *)
RestoreUndoesOwn ==
  [][restore # NoSnapshot /\ restore' = NoSnapshot =>
       /\ Fresh(restore)
       /\ restore.deployment \notin disturbed =>
            \A x \in Key : running'[x] # restore.before[x] =>
              Pushes[restore.deployment][x] # NoLine
    ]_vars
=============================================================================
