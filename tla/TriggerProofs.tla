---------------------------- MODULE TriggerProofs ----------------------------
(***************************************************************************)
(* The safety of Trigger, for any devices and requests and all bounds.     *)
(* There is one lemma for each conjunct of Inv: a step for every action    *)
(* that writes a variable the conjunct reads, and one for all the others.  *)
(***************************************************************************)
EXTENDS Trigger, TLAPS

(* What the check of the configurations writes: an answer, and for each    *)
(* device none or a stored configuration.                                  *)
LEMMA Checking ==
  ASSUME TypeOK, NEW b \in Request, CheckConfigs(b)
  PROVE  /\ handler[b] = "known"
         /\ handler' \in [Request -> {"idle", "known", "checked", "committed",
                                  "accepted", "refused", "failed"}]
         /\ handler'[b] \in {"checked", "refused"}
         /\ \A c \in Request : c # b => handler'[c] = handler[c]
         /\ seen' \in [Request -> [Device -> {0} \cup Stamp]]
         /\ \A c \in Request : c # b => seen'[c] = seen[c]
         /\ \A d \in Device : \/ seen'[b][d] \in {0, seen[b][d]}
                              \/ config[d][seen'[b][d]] # "none"
         /\ UNCHANGED <<version, targets, device, config, row, message, at,
                        loaded, returns, undo>>
<1>1. handler[b] = "known" /\ handler \in [Request -> {"idle", "known",
        "checked", "committed", "accepted", "refused", "failed"}]
  BY DEF CheckConfigs, TypeOK
<1>2. UNCHANGED <<version, targets, device, config, row, message, at, loaded,
                  returns, undo>>
  BY DEF CheckConfigs, asked, stored, attempt
<1>3. CASE /\ seen' = seen
           /\ handler' = [handler EXCEPT ![b] = "refused"]
  BY <1>1, <1>2, <1>3 DEF TypeOK
<1>4. ASSUME NEW f \in [targets[b] -> Stamp],
             \A d \in targets[b] : Accepts(version[b], d, f[d]),
             seen' = [seen EXCEPT ![b] =
                       [d \in Device |-> IF d \in targets[b] THEN f[d] ELSE 0]],
             handler' = [handler EXCEPT ![b] = "checked"]
      PROVE  /\ seen' \in [Request -> [Device -> {0} \cup Stamp]]
             /\ \A c \in Request : c # b => seen'[c] = seen[c]
             /\ \A d \in Device : \/ seen'[b][d] = 0
                                  \/ config[d][seen'[b][d]] # "none"
  <2>1. \A d \in targets[b] : f[d] \in Stamp /\ config[d][f[d]] # "none"
    BY <1>4 DEF Accepts, IsNewest, Stored
  <2>2. [d \in Device |-> IF d \in targets[b] THEN f[d] ELSE 0]
          \in [Device -> {0} \cup Stamp]
    BY <2>1
  <2>3. /\ seen' \in [Request -> [Device -> {0} \cup Stamp]]
        /\ \A c \in Request : c # b => seen'[c] = seen[c]
        /\ seen'[b] = [d \in Device |-> IF d \in targets[b] THEN f[d] ELSE 0]
    BY <1>4, <2>2 DEF TypeOK
  <2>4. \A d \in Device : seen'[b][d] # 0 => config[d][seen'[b][d]] # "none"
    BY <2>1, <2>3
  <2>5. QED
    BY <1>1, <1>4, <2>3, <2>4
<1>5. QED
  BY <1>1, <1>2, <1>3, <1>4 DEF CheckConfigs

(* The newest configuration is at least as new as the one that was found.  *)
LEMMA Newest ==
  ASSUME TypeOK, LoadInv, NEW b \in Request, NEW d \in Device, NEW t \in Stamp,
         Finds(version[b], d, t)
  PROVE  t > 0 /\ config[d][t] = "filled" /\ t >= seen[b][d]
<1>1. IsNewest(d, t) /\ config[d][t] = "filled"
  BY DEF Finds
<1>2. \A u \in Stamp : config[d][u] # "none" => u <= t
  BY <1>1 DEF IsNewest, Stored
<1>3. seen[b][d] \in {0} \cup Stamp /\ t \in Nat /\ t > 0
  BY DEF TypeOK, Stamp
<1>4. seen[b][d] > 0 => config[d][seen[b][d]] # "none"
  BY DEF LoadInv, LoadInvAt
<1>5. QED
  BY <1>1, <1>2, <1>3, <1>4 DEF Stamp

(* The three ways a coroutine ends with SUCCESS or ROLLBACK.               *)
Ends(b, d) == Rehearse(b, d) \/ Succeed(b, d) \/ Fail(b, d)

LEMMA Ending ==
  ASSUME TypeOK, NEW b \in Request, NEW d \in Device, Ends(b, d)
  PROVE  /\ message[b] = "running" /\ at[b][d] \in {"claimed", "loaded"}
         /\ at' = [at EXCEPT ![b][d] = "ended"]
         /\ loaded' \in [Request -> [Device -> {0} \cup Stamp]]
         /\ \E s \in {"SUCCESS", "ROLLBACK"} :
              row' = [row EXCEPT ![b][d] = s]
         /\ \E t \in {0} \cup Stamp : loaded' = [loaded EXCEPT ![b][d] = t]
         /\ UNCHANGED <<version, targets, device, config, handler, seen,
                        message, returns, undo>>
<1>1. /\ message[b] = "running" /\ at[b][d] \in {"claimed", "loaded"}
      /\ at' = [at EXCEPT ![b][d] = "ended"]
      /\ UNCHANGED <<version, targets, device, config, handler, seen, message,
                     returns, undo>>
  BY DEF Ends, Rehearse, Succeed, Fail, asked, stored
<1>2. \E s \in {"SUCCESS", "ROLLBACK"} : row' = [row EXCEPT ![b][d] = s]
  BY DEF Ends, Rehearse, Succeed, Fail
<1>3. \E t \in {0} \cup Stamp : loaded' = [loaded EXCEPT ![b][d] = t]
  <2>1. CASE Rehearse(b, d) \/ Fail(b, d)
    BY <2>1 DEF Rehearse, Fail
  <2>2. CASE Succeed(b, d)
    <3>1. loaded' = [loaded EXCEPT ![b][d] = loaded[b][d]]
      BY <2>2 DEF Succeed, TypeOK
    <3>2. loaded[b][d] \in {0} \cup Stamp
      BY DEF TypeOK
    <3>3. QED
      BY <3>1, <3>2
  <2>3. QED
    BY <2>1, <2>2 DEF Ends
<1>4. loaded' \in [Request -> [Device -> {0} \cup Stamp]]
  BY <1>3 DEF TypeOK
<1>5. QED
  BY <1>1, <1>2, <1>3, <1>4

(* A worker's death, or a coroutine's, leaves only what SUCCESS stands for.*)
LEMMA Keeping ==
  ASSUME TypeOK, NEW b \in Request, NEW d \in Device
  PROVE  /\ Kept(b, d) \in {0} \cup Stamp
         /\ row[b][d] = "SUCCESS" => Kept(b, d) = loaded[b][d]
BY DEF TypeOK, Kept

(* Every action writes values of the right kind.                           *)
LEMMA TypeStep ==
  ASSUME TypeOK, BoundAssumption, Next
  PROVE  TypeOK'
<1>1. ASSUME NEW d \in Device, CreateDevice(d) PROVE TypeOK'
  BY <1>1 DEF CreateDevice, asked, stored, attempt, TypeOK, Version, Status,
      Terminal, Stamp
<1>2. ASSUME NEW d \in Device, DeleteDevice(d) PROVE TypeOK'
  BY <1>2 DEF DeleteDevice, Stored, asked, stored, attempt, TypeOK, Version,
      Status, Terminal, Stamp
<1>3. ASSUME NEW d \in Device, CreateConfig(d) PROVE TypeOK'
  BY <1>3 DEF CreateConfig, Stored, asked, stored, attempt, TypeOK, Version,
      Status, Terminal, Stamp
<1>4. ASSUME NEW b \in Request, CheckDevices(b) PROVE TypeOK'
  BY <1>4 DEF CheckDevices, asked, stored, attempt, TypeOK, Version, Status,
      Terminal, Stamp
<1>5. ASSUME NEW b \in Request, CheckConfigs(b) PROVE TypeOK'
  BY <1>5, Checking DEF TypeOK, Version, Status, Terminal, Stamp
<1>6. ASSUME NEW b \in Request, CreateRows(b) PROVE TypeOK'
  BY <1>6 DEF CreateRows, asked, stored, attempt, TypeOK, Version, Status,
      Terminal, Stamp
<1>7. ASSUME NEW b \in Request, Enqueue(b) PROVE TypeOK'
  BY <1>7 DEF Enqueue, asked, stored, attempt, TypeOK, Version, Status,
      Terminal, Stamp
<1>8. ASSUME NEW b \in Request, Accept(b) PROVE TypeOK'
  BY <1>8 DEF Accept, asked, stored, attempt, TypeOK, Version, Status,
      Terminal, Stamp
<1>9. ASSUME NEW b \in Request, HandlerFails(b) PROVE TypeOK'
  BY <1>9 DEF HandlerFails, asked, stored, attempt, TypeOK, Version, Status,
      Terminal, Stamp
<1>10. ASSUME NEW b \in Request, Take(b) \/ Ack(b) PROVE TypeOK'
  BY <1>10 DEF Take, Ack, asked, stored, attempt, TypeOK, Version, Status,
      Terminal, Stamp
<1>11. ASSUME NEW b \in Request, Close(b) PROVE TypeOK'
  BY <1>11 DEF Close, Gathered, Swept, asked, stored, attempt, TypeOK,
      Version, Status, Terminal, Stamp
<1>12. ASSUME NEW b \in Request, BreakOff(b) PROVE TypeOK'
  <2>1. /\ at' = [at EXCEPT ![b] = [d \in Device |-> "todo"]]
        /\ loaded' = [loaded EXCEPT ![b] = [d \in Device |-> Kept(b, d)]]
        /\ UNCHANGED <<version, targets, device, config, handler, seen, row,
                       undo>>
    BY <1>12 DEF BreakOff, asked, stored
  <2>2. [d \in Device |-> Kept(b, d)] \in [Device -> {0} \cup Stamp]
    BY Keeping
  <2>3. /\ loaded' \in [Request -> [Device -> {0} \cup Stamp]]
        /\ at' \in [Request -> [Device -> {"todo", "claimed", "loaded",
                                           "ended", "died"}]]
    BY <2>1, <2>2 DEF TypeOK
  <2>4. /\ message' \in [Request -> {"none", "queued", "running", "unacked",
                                      "done", "dead"}]
        /\ returns' \in [Request -> 0 .. MaxReturns]
    <3>1. returns[b] \in 0 .. MaxReturns
      BY DEF TypeOK
    <3>2. CASE returns[b] < MaxReturns /\ returns' = [returns EXCEPT ![b] = @ + 1]
      <4>1. returns[b] + 1 \in 0 .. MaxReturns
        BY <3>1, <3>2, BoundAssumption
      <4>2. returns' \in [Request -> 0 .. MaxReturns]
        BY <3>2, <4>1 DEF TypeOK
      <4>3. QED
        BY <1>12, <4>2 DEF BreakOff, TypeOK
    <3>3. CASE returns' = returns
      BY <1>12, <3>3 DEF BreakOff, TypeOK
    <3>4. QED
      BY <1>12, <3>2, <3>3 DEF BreakOff
  <2>5. QED
    BY <2>1, <2>3, <2>4 DEF TypeOK, Version, Status, Terminal
<1>13. ASSUME NEW b \in Request, NEW d \in Device, Claim(b, d) PROVE TypeOK'
  BY <1>13 DEF Claim, asked, stored, attempt, TypeOK, Version, Status,
      Terminal, Stamp
<1>14. ASSUME NEW b \in Request, NEW d \in Device, Load(b, d) PROVE TypeOK'
  BY <1>14 DEF Load, asked, stored, attempt, TypeOK, Version, Status,
      Terminal, Stamp
<1>15. ASSUME NEW b \in Request, NEW d \in Device, NoConfig(b, d) PROVE
    TypeOK'
  BY <1>15 DEF NoConfig, asked, stored, attempt, TypeOK, Version, Status,
      Terminal, Stamp
<1>16. ASSUME NEW b \in Request, NEW d \in Device, Ends(b, d) PROVE TypeOK'
  <2>1. /\ message[b] = "running" /\ at[b][d] \in {"claimed", "loaded"}
        /\ at' = [at EXCEPT ![b][d] = "ended"]
        /\ loaded' \in [Request -> [Device -> {0} \cup Stamp]]
        /\ UNCHANGED <<version, targets, device, config, handler, seen,
                       message, returns, undo>>
    BY <1>16, Ending
  <2>2. PICK s \in {"SUCCESS", "ROLLBACK"} : row' = [row EXCEPT ![b][d] = s]
    BY <1>16, Ending
  <2>3. QED
    BY <2>1, <2>2 DEF TypeOK, Version, Status, Terminal, Stamp
<1>17. ASSUME NEW b \in Request, NEW d \in Device, Die(b, d) PROVE TypeOK'
  BY <1>17, Keeping DEF Die, asked, stored, attempt, TypeOK, Version, Status,
      Terminal, Stamp
<1>18. ASSUME NEW b \in Request, NEW d \in Device, RequestUndo(b, d) PROVE
    TypeOK'
  BY <1>18 DEF RequestUndo, Undoable, asked, stored, attempt, TypeOK,
      Version, Status, Terminal, Stamp
<1>19. ASSUME NEW b \in Request, NEW d \in Device, Undo(b, d) PROVE TypeOK'
  BY <1>19 DEF Undo, asked, stored, attempt, TypeOK, Version, Status,
      Terminal, Stamp
<1>20. CASE UNCHANGED <<version, targets, device, config, handler, seen, row,
    message, at, loaded, returns, undo>>
  BY <1>20 DEF TypeOK, Version, Status, Terminal, Stamp
<1>21. QED
  BY <1>1, <1>2, <1>3, <1>4, <1>5, <1>6, <1>7, <1>8, <1>9, <1>10, <1>11,
      <1>12, <1>13, <1>14, <1>15, <1>16, <1>17, <1>18, <1>19, <1>20 DEF Next,
      Inventory, Handler, Worker, Coroutine, Ends, Rollback, asked, stored, attempt

(* The handler's order: checks, rows, message, answer.                     *)
LEMMA HandlerStep ==
  ASSUME TypeOK, HandlerInv, Next
  PROVE  HandlerInv'
<1>1. ASSUME NEW b \in Request, CheckDevices(b) PROVE HandlerInv'
  BY <1>1 DEF CheckDevices, asked, stored, attempt, TypeOK, HandlerInv,
      HandlerInvAt
<1>2. ASSUME NEW b \in Request, CheckConfigs(b) PROVE HandlerInv'
  BY <1>2, Checking DEF TypeOK, HandlerInv, HandlerInvAt
<1>3. ASSUME NEW b \in Request, CreateRows(b) PROVE HandlerInv'
  BY <1>3 DEF CreateRows, asked, stored, attempt, TypeOK, HandlerInv,
      HandlerInvAt
<1>4. ASSUME NEW b \in Request, Enqueue(b) PROVE HandlerInv'
  BY <1>4 DEF Enqueue, asked, stored, attempt, TypeOK, HandlerInv,
      HandlerInvAt
<1>5. ASSUME NEW b \in Request, Accept(b) PROVE HandlerInv'
  BY <1>5 DEF Accept, asked, stored, attempt, TypeOK, HandlerInv,
      HandlerInvAt
<1>6. ASSUME NEW b \in Request, HandlerFails(b) PROVE HandlerInv'
  BY <1>6 DEF HandlerFails, asked, stored, attempt, TypeOK, HandlerInv,
      HandlerInvAt
<1>7. ASSUME NEW b \in Request, Take(b) \/ Ack(b) PROVE HandlerInv'
  <2>1. CASE Take(b)
    BY <2>1 DEF Take, asked, stored, attempt, TypeOK, HandlerInv, HandlerInvAt
  <2>2. CASE Ack(b)
    BY <2>2 DEF Ack, asked, stored, attempt, TypeOK, HandlerInv, HandlerInvAt
  <2>3. QED
    BY <1>7, <2>1, <2>2
<1>8. ASSUME NEW b \in Request, Close(b) PROVE HandlerInv'
  BY <1>8 DEF Close, Gathered, Swept, asked, stored, attempt, TypeOK,
      HandlerInv, HandlerInvAt
<1>9. ASSUME NEW b \in Request, BreakOff(b) PROVE HandlerInv'
  BY <1>9 DEF BreakOff, Kept, asked, stored, attempt, TypeOK, HandlerInv,
      HandlerInvAt
<1>10. ASSUME NEW b \in Request, NEW d \in Device, Claim(b, d) PROVE
    HandlerInv'
  BY <1>10 DEF Claim, asked, stored, attempt, TypeOK, HandlerInv,
      HandlerInvAt
<1>11. ASSUME NEW b \in Request, NEW d \in Device, Load(b, d) PROVE
    HandlerInv'
  BY <1>11 DEF Load, asked, stored, attempt, TypeOK, HandlerInv, HandlerInvAt
<1>12. ASSUME NEW b \in Request, NEW d \in Device, NoConfig(b, d) PROVE
    HandlerInv'
  BY <1>12 DEF NoConfig, asked, stored, attempt, TypeOK, HandlerInv,
      HandlerInvAt
<1>13. ASSUME NEW b \in Request, NEW d \in Device, Ends(b, d) PROVE
    HandlerInv'
  <2>1. /\ message[b] = "running" /\ at[b][d] \in {"claimed", "loaded"}
        /\ at' = [at EXCEPT ![b][d] = "ended"]
        /\ loaded' \in [Request -> [Device -> {0} \cup Stamp]]
        /\ UNCHANGED <<version, targets, device, config, handler, seen,
                       message, returns, undo>>
    BY <1>13, Ending
  <2>2. PICK s \in {"SUCCESS", "ROLLBACK"} : row' = [row EXCEPT ![b][d] = s]
    BY <1>13, Ending
  <2>3. QED
    BY <2>1, <2>2 DEF TypeOK, HandlerInv, HandlerInvAt
<1>14. ASSUME NEW b \in Request, NEW d \in Device, Die(b, d) PROVE
    HandlerInv'
  BY <1>14 DEF Die, Kept, asked, stored, attempt, TypeOK, HandlerInv, HandlerInvAt
<1>15. CASE UNCHANGED <<handler, message, row, at, targets>>
  BY <1>15 DEF TypeOK, HandlerInv, HandlerInvAt
<1>16. QED
  BY <1>1, <1>2, <1>3, <1>4, <1>5, <1>6, <1>7, <1>8, <1>9, <1>10, <1>11,
      <1>12, <1>13, <1>14, <1>15 DEF Next, Inventory, Handler, Worker,
      Coroutine, Ends, Rollback, CreateDevice, DeleteDevice, CreateConfig,
      RequestUndo, Undo, asked, stored, attempt

(* Rows are of stored devices, which the foreign keys keep.                *)
LEMMA RowStep ==
  ASSUME TypeOK, HandlerInv, RowInv, AttemptInv, Next
  PROVE  RowInv'
<1>1. ASSUME NEW d \in Device, CreateDevice(d) PROVE RowInv'
  BY <1>1 DEF CreateDevice, asked, stored, attempt, TypeOK, HandlerInv,
      HandlerInvAt, RowInv, RowInvAt, AttemptInv, AttemptInvAt
<1>2. ASSUME NEW d \in Device, DeleteDevice(d) PROVE RowInv'
  BY <1>2 DEF DeleteDevice, Stored, asked, stored, attempt, TypeOK,
      HandlerInv, HandlerInvAt, RowInv, RowInvAt, AttemptInv, AttemptInvAt
<1>3. ASSUME NEW b \in Request, CreateRows(b) PROVE RowInv'
  BY <1>3 DEF CreateRows, asked, stored, attempt, TypeOK, HandlerInv,
      HandlerInvAt, RowInv, RowInvAt, AttemptInv, AttemptInvAt
<1>4. ASSUME NEW b \in Request, Close(b) PROVE RowInv'
  BY <1>4 DEF Close, Gathered, Swept, asked, stored, attempt, TypeOK,
      HandlerInv, HandlerInvAt, RowInv, RowInvAt, AttemptInv, AttemptInvAt
<1>5. ASSUME NEW b \in Request, NEW d \in Device, Claim(b, d) PROVE RowInv'
  <2>1. row[b][d] # "none"
    BY <1>5 DEF Claim, HandlerInv, HandlerInvAt
  <2>2. /\ row' = [row EXCEPT ![b][d] = "IN_PROGRESS"]
        /\ UNCHANGED <<undo, device, targets>>
    BY <1>5 DEF Claim, asked, stored
  <2>3. QED
    BY <2>1, <2>2 DEF RowInv, RowInvAt, TypeOK
<1>6. ASSUME NEW b \in Request, NEW d \in Device, NoConfig(b, d) PROVE
    RowInv'
  BY <1>6 DEF NoConfig, asked, stored, attempt, TypeOK, HandlerInv,
      HandlerInvAt, RowInv, RowInvAt, AttemptInv, AttemptInvAt
<1>7. ASSUME NEW b \in Request, NEW d \in Device, Ends(b, d) PROVE RowInv'
  <2>1. /\ message[b] = "running" /\ at[b][d] \in {"claimed", "loaded"}
        /\ at' = [at EXCEPT ![b][d] = "ended"]
        /\ loaded' \in [Request -> [Device -> {0} \cup Stamp]]
        /\ UNCHANGED <<version, targets, device, config, handler, seen,
                       message, returns, undo>>
    BY <1>7, Ending
  <2>2. PICK s \in {"SUCCESS", "ROLLBACK"} : row' = [row EXCEPT ![b][d] = s]
    BY <1>7, Ending
  <2>3. QED
    BY <2>1, <2>2 DEF TypeOK, HandlerInv, HandlerInvAt, RowInv, RowInvAt,
       AttemptInv, AttemptInvAt
<1>8. ASSUME NEW b \in Request, NEW d \in Device, RequestUndo(b, d) PROVE
    RowInv'
  BY <1>8 DEF RequestUndo, Undoable, asked, stored, attempt, TypeOK,
      HandlerInv, HandlerInvAt, RowInv, RowInvAt, AttemptInv, AttemptInvAt
<1>9. ASSUME NEW b \in Request, NEW d \in Device, Undo(b, d) PROVE RowInv'
  BY <1>9 DEF Undo, asked, stored, attempt, TypeOK, HandlerInv, HandlerInvAt,
      RowInv, RowInvAt, AttemptInv, AttemptInvAt
<1>10. CASE UNCHANGED <<row, undo, device, targets>>
  BY <1>10 DEF TypeOK, HandlerInv, HandlerInvAt, RowInv, RowInvAt,
      AttemptInv, AttemptInvAt
<1>11. QED
  BY <1>1, <1>2, <1>3, <1>4, <1>5, <1>6, <1>7, <1>8, <1>9, <1>10 DEF Next,
      Inventory, Handler, Worker, Coroutine, Ends, Rollback, CreateConfig,
      CheckDevices, CheckConfigs, Enqueue, Accept, HandlerFails, Take, Ack,
      BreakOff, Load, Die, asked, stored, attempt

(* The worker's order, and what an attempt that broke off leaves.          *)
LEMMA AttemptStep ==
  ASSUME TypeOK, HandlerInv, RowInv, AttemptInv, Next
  PROVE  AttemptInv'
<1>1. ASSUME NEW b \in Request, CreateRows(b) PROVE AttemptInv'
  BY <1>1 DEF CreateRows, asked, stored, attempt, TypeOK, Terminal,
      HandlerInv, HandlerInvAt, RowInv, RowInvAt, AttemptInv, AttemptInvAt
<1>2. ASSUME NEW b \in Request, Enqueue(b) PROVE AttemptInv'
  BY <1>2 DEF Enqueue, asked, stored, attempt, TypeOK, Terminal, HandlerInv,
      HandlerInvAt, RowInv, RowInvAt, AttemptInv, AttemptInvAt
<1>3. ASSUME NEW b \in Request, Take(b) \/ Ack(b) PROVE AttemptInv'
  BY <1>3 DEF Take, Ack, asked, stored, attempt, TypeOK, Terminal, HandlerInv,
      HandlerInvAt, RowInv, RowInvAt, AttemptInv, AttemptInvAt
<1>4. ASSUME NEW b \in Request, Close(b) PROVE AttemptInv'
  BY <1>4 DEF Close, Gathered, Swept, asked, stored, attempt, TypeOK,
      Terminal, HandlerInv, HandlerInvAt, RowInv, RowInvAt, AttemptInv,
      AttemptInvAt
<1>5. ASSUME NEW b \in Request, BreakOff(b) PROVE AttemptInv'
  BY <1>5 DEF BreakOff, Kept, asked, stored, attempt, TypeOK, Terminal, HandlerInv,
      HandlerInvAt, RowInv, RowInvAt, AttemptInv, AttemptInvAt
<1>6. ASSUME NEW b \in Request, NEW d \in Device, Claim(b, d) PROVE
    AttemptInv'
  BY <1>6 DEF Claim, asked, stored, attempt, TypeOK, Terminal, HandlerInv,
      HandlerInvAt, RowInv, RowInvAt, AttemptInv, AttemptInvAt
<1>7. ASSUME NEW b \in Request, NEW d \in Device, Load(b, d) PROVE
    AttemptInv'
  BY <1>7 DEF Load, asked, stored, attempt, TypeOK, Terminal, HandlerInv,
      HandlerInvAt, RowInv, RowInvAt, AttemptInv, AttemptInvAt
<1>8. ASSUME NEW b \in Request, NEW d \in Device, NoConfig(b, d) PROVE
    AttemptInv'
  BY <1>8 DEF NoConfig, asked, stored, attempt, TypeOK, Terminal, HandlerInv,
      HandlerInvAt, RowInv, RowInvAt, AttemptInv, AttemptInvAt
<1>9. ASSUME NEW b \in Request, NEW d \in Device, Ends(b, d) PROVE
    AttemptInv'
  <2>1. /\ message[b] = "running" /\ at[b][d] \in {"claimed", "loaded"}
        /\ at' = [at EXCEPT ![b][d] = "ended"]
        /\ loaded' \in [Request -> [Device -> {0} \cup Stamp]]
        /\ UNCHANGED <<version, targets, device, config, handler, seen,
                       message, returns, undo>>
    BY <1>9, Ending
  <2>2. PICK s \in {"SUCCESS", "ROLLBACK"} : row' = [row EXCEPT ![b][d] = s]
    BY <1>9, Ending
  <2>3. QED
    BY <2>1, <2>2 DEF TypeOK, Terminal, HandlerInv, HandlerInvAt, RowInv,
       RowInvAt, AttemptInv, AttemptInvAt
<1>10. ASSUME NEW b \in Request, NEW d \in Device, Die(b, d) PROVE
    AttemptInv'
  BY <1>10 DEF Die, Kept, asked, stored, attempt, TypeOK, Terminal, HandlerInv,
      HandlerInvAt, RowInv, RowInvAt, AttemptInv, AttemptInvAt
<1>11. CASE UNCHANGED <<row, message, at, returns>>
  BY <1>11 DEF TypeOK, Terminal, HandlerInv, HandlerInvAt, RowInv, RowInvAt,
      AttemptInv, AttemptInvAt
<1>12. QED
  BY <1>1, <1>2, <1>3, <1>4, <1>5, <1>6, <1>7, <1>8, <1>9, <1>10, <1>11 DEF
      Next, Inventory, Handler, Worker, Coroutine, Ends, Rollback, CreateDevice,
      DeleteDevice, CreateConfig, CheckDevices, CheckConfigs, Accept,
      HandlerFails, RequestUndo, Undo, asked, stored, attempt

(* Configurations are only added, so what was found stays stored and the   *)
(* newest is at least as new.                                              *)
LEMMA LoadStep ==
  ASSUME TypeOK, HandlerInv, LoadInv, Next
  PROVE  LoadInv'
<1>1. ASSUME NEW d \in Device, CreateConfig(d) PROVE LoadInv'
  BY <1>1 DEF CreateConfig, Stored, asked, stored, attempt, TypeOK, Stamp,
      HandlerInv, HandlerInvAt, LoadInv, LoadInvAt
<1>2. ASSUME NEW b \in Request, CheckConfigs(b) PROVE LoadInv'
  <2>1. handler[b] = "known"
    BY <1>2, Checking
  <2>2. \A d \in Device : at[b][d] = "todo"
    BY <2>1 DEF HandlerInv, HandlerInvAt
  <2>3. ASSUME NEW c \in Request, NEW e \in Device PROVE LoadInvAt(c, e)'
    <3>1. /\ UNCHANGED <<config, at, loaded>>
          /\ LoadInvAt(c, e)
      BY <1>2, Checking DEF LoadInv
    <3>2. CASE c = b
      <4>1. \/ seen'[b][e] \in {0, seen[b][e]}
            \/ config[e][seen'[b][e]] # "none"
        BY <1>2, Checking
      <4>2. at[b][e] # "loaded"
        BY <2>2
      <4>3. QED
        BY <3>1, <3>2, <4>1, <4>2 DEF LoadInvAt
    <3>3. CASE c # b
      <4>1. seen'[c] = seen[c]
        BY <1>2, Checking, <3>3
      <4>2. QED
        BY <3>1, <4>1 DEF LoadInvAt
    <3>4. QED
      BY <3>2, <3>3
  <2>4. QED
    BY <2>3 DEF LoadInv
<1>3. ASSUME NEW b \in Request, BreakOff(b) PROVE LoadInv'
  BY <1>3 DEF BreakOff, asked, stored, TypeOK, LoadInv, LoadInvAt
<1>4. ASSUME NEW b \in Request, NEW d \in Device, Claim(b, d) PROVE LoadInv'
  BY <1>4 DEF Claim, asked, stored, attempt, TypeOK, Stamp, HandlerInv,
      HandlerInvAt, LoadInv, LoadInvAt
<1>5. ASSUME NEW b \in Request, NEW d \in Device, Load(b, d) PROVE LoadInv'
  <2>1. PICK t \in Stamp : /\ Finds(version[b], d, t)
                           /\ loaded' = [loaded EXCEPT ![b][d] = t]
    BY <1>5 DEF Load
  <2>2. t > 0 /\ config[d][t] = "filled" /\ t >= seen[b][d]
    BY <2>1, Newest
  <2>3. QED
    BY <1>5, <2>1, <2>2 DEF Load, stored, LoadInv, LoadInvAt, TypeOK
<1>6. ASSUME NEW b \in Request, NEW d \in Device, NoConfig(b, d) PROVE
    LoadInv'
  BY <1>6 DEF NoConfig, asked, stored, attempt, TypeOK, Stamp, HandlerInv,
      HandlerInvAt, LoadInv, LoadInvAt
<1>7. ASSUME NEW b \in Request, NEW d \in Device, Ends(b, d) PROVE LoadInv'
  <2>1. /\ at' = [at EXCEPT ![b][d] = "ended"]
        /\ UNCHANGED <<seen, config>>
    BY <1>7, Ending
  <2>2. PICK t \in {0} \cup Stamp : loaded' = [loaded EXCEPT ![b][d] = t]
    BY <1>7, Ending
  <2>3. QED
    BY <2>1, <2>2 DEF TypeOK, LoadInv, LoadInvAt
<1>8. ASSUME NEW b \in Request, NEW d \in Device, Die(b, d) PROVE LoadInv'
  BY <1>8 DEF Die, Kept, asked, stored, attempt, TypeOK, Stamp, HandlerInv,
      HandlerInvAt, LoadInv, LoadInvAt
<1>9. CASE UNCHANGED <<seen, config, at, loaded>>
  BY <1>9 DEF TypeOK, Stamp, HandlerInv, HandlerInvAt, LoadInv, LoadInvAt
<1>10. QED
  BY <1>1, <1>2, <1>3, <1>4, <1>5, <1>6, <1>7, <1>8, <1>9 DEF Next,
      Inventory, Handler, Worker, Coroutine, Ends, Rollback, CreateDevice,
      DeleteDevice, CheckDevices, CreateRows, Enqueue, Accept, HandlerFails,
      Take, Close, Ack, RequestUndo, Undo, asked, stored, attempt

(* Who a row that has not ended is waiting for.                            *)
LEMMA LostStep ==
  ASSUME TypeOK, HandlerInv, RowInv, AttemptInv, NoRowIsLost, Next
  PROVE  NoRowIsLost'
<1>1. ASSUME NEW b \in Request, CheckDevices(b) PROVE NoRowIsLost'
  BY <1>1 DEF CheckDevices, asked, stored, attempt, TypeOK, Terminal,
      HandlerInv, HandlerInvAt, RowInv, RowInvAt, AttemptInv, AttemptInvAt,
      NoRowIsLost
<1>2. ASSUME NEW b \in Request, CheckConfigs(b) PROVE NoRowIsLost'
  <2>1. handler[b] = "known"
    BY <1>2, Checking
  <2>2. \A d \in Device : row[b][d] = "none"
    BY <2>1 DEF HandlerInv, HandlerInvAt
  <2>3. /\ UNCHANGED <<row, message, at, returns>>
        /\ \A c \in Request : c # b => handler'[c] = handler[c]
    BY <1>2, Checking
  <2>4. QED
    BY <2>2, <2>3 DEF NoRowIsLost
<1>3. ASSUME NEW b \in Request, CreateRows(b) PROVE NoRowIsLost'
  BY <1>3 DEF CreateRows, asked, stored, attempt, TypeOK, Terminal,
      HandlerInv, HandlerInvAt, RowInv, RowInvAt, AttemptInv, AttemptInvAt,
      NoRowIsLost
<1>4. ASSUME NEW b \in Request, Enqueue(b) PROVE NoRowIsLost'
  BY <1>4 DEF Enqueue, asked, stored, attempt, TypeOK, Terminal, HandlerInv,
      HandlerInvAt, RowInv, RowInvAt, AttemptInv, AttemptInvAt, NoRowIsLost
<1>5. ASSUME NEW b \in Request, Accept(b) PROVE NoRowIsLost'
  BY <1>5 DEF Accept, asked, stored, attempt, TypeOK, Terminal, HandlerInv,
      HandlerInvAt, RowInv, RowInvAt, AttemptInv, AttemptInvAt, NoRowIsLost
<1>6. ASSUME NEW b \in Request, HandlerFails(b) PROVE NoRowIsLost'
  BY <1>6 DEF HandlerFails, asked, stored, attempt, TypeOK, Terminal,
      HandlerInv, HandlerInvAt, RowInv, RowInvAt, AttemptInv, AttemptInvAt,
      NoRowIsLost
<1>7. ASSUME NEW b \in Request, Take(b) \/ Ack(b) PROVE NoRowIsLost'
  BY <1>7 DEF Take, Ack, asked, stored, attempt, TypeOK, Terminal, HandlerInv,
      HandlerInvAt, RowInv, RowInvAt, AttemptInv, AttemptInvAt, NoRowIsLost
<1>8. ASSUME NEW b \in Request, Close(b) PROVE NoRowIsLost'
  BY <1>8 DEF Close, Gathered, Swept, asked, stored, attempt, TypeOK,
      Terminal, HandlerInv, HandlerInvAt, RowInv, RowInvAt, AttemptInv,
      AttemptInvAt, NoRowIsLost
<1>9. ASSUME NEW b \in Request, BreakOff(b) PROVE NoRowIsLost'
  BY <1>9 DEF BreakOff, Kept, asked, stored, attempt, TypeOK, Terminal, HandlerInv,
      HandlerInvAt, RowInv, RowInvAt, AttemptInv, AttemptInvAt, NoRowIsLost
<1>10. ASSUME NEW b \in Request, NEW d \in Device, Claim(b, d) PROVE
    NoRowIsLost'
  BY <1>10 DEF Claim, asked, stored, attempt, TypeOK, Terminal, HandlerInv,
      HandlerInvAt, RowInv, RowInvAt, AttemptInv, AttemptInvAt, NoRowIsLost
<1>11. ASSUME NEW b \in Request, NEW d \in Device, Load(b, d) PROVE
    NoRowIsLost'
  BY <1>11 DEF Load, asked, stored, attempt, TypeOK, Terminal, HandlerInv,
      HandlerInvAt, RowInv, RowInvAt, AttemptInv, AttemptInvAt, NoRowIsLost
<1>12. ASSUME NEW b \in Request, NEW d \in Device, NoConfig(b, d) PROVE
    NoRowIsLost'
  BY <1>12 DEF NoConfig, asked, stored, attempt, TypeOK, Terminal,
      HandlerInv, HandlerInvAt, RowInv, RowInvAt, AttemptInv, AttemptInvAt,
      NoRowIsLost
<1>13. ASSUME NEW b \in Request, NEW d \in Device, Ends(b, d) PROVE
    NoRowIsLost'
  <2>1. /\ message[b] = "running" /\ at[b][d] \in {"claimed", "loaded"}
        /\ at' = [at EXCEPT ![b][d] = "ended"]
        /\ loaded' \in [Request -> [Device -> {0} \cup Stamp]]
        /\ UNCHANGED <<version, targets, device, config, handler, seen,
                       message, returns, undo>>
    BY <1>13, Ending
  <2>2. PICK s \in {"SUCCESS", "ROLLBACK"} : row' = [row EXCEPT ![b][d] = s]
    BY <1>13, Ending
  <2>3. QED
    BY <2>1, <2>2 DEF TypeOK, Terminal, HandlerInv, HandlerInvAt, RowInv,
       RowInvAt, AttemptInv, AttemptInvAt, NoRowIsLost
<1>14. ASSUME NEW b \in Request, NEW d \in Device, Die(b, d) PROVE
    NoRowIsLost'
  BY <1>14 DEF Die, Kept, asked, stored, attempt, TypeOK, Terminal, HandlerInv,
      HandlerInvAt, RowInv, RowInvAt, AttemptInv, AttemptInvAt, NoRowIsLost
<1>15. CASE UNCHANGED <<row, handler, message, at, returns>>
  BY <1>15 DEF TypeOK, Terminal, HandlerInv, HandlerInvAt, RowInv, RowInvAt,
      AttemptInv, AttemptInvAt, NoRowIsLost
<1>16. QED
  BY <1>1, <1>2, <1>3, <1>4, <1>5, <1>6, <1>7, <1>8, <1>9, <1>10, <1>11,
      <1>12, <1>13, <1>14, <1>15 DEF Next, Inventory, Handler, Worker,
      Coroutine, Ends, Rollback, CreateDevice, DeleteDevice, CreateConfig,
      RequestUndo, Undo, asked, stored, attempt

(* A SUCCESS, of any attempt, is of what LoadInv says of its loaded[b][d]. *)
LEMMA FreshStep ==
  ASSUME TypeOK, HandlerInv, AttemptInv, LoadInv, DeployedIsFresh, Next
  PROVE  DeployedIsFresh'
<1>1. ASSUME NEW d \in Device, CreateConfig(d) PROVE DeployedIsFresh'
  BY <1>1 DEF CreateConfig, Stored, asked, stored, attempt, TypeOK,
      HandlerInv, HandlerInvAt, LoadInv, LoadInvAt, DeployedIsFresh
<1>2. ASSUME NEW b \in Request, CheckConfigs(b) PROVE DeployedIsFresh'
  <2>1. handler[b] = "known"
    BY <1>2, Checking
  <2>2. \A d \in Device : row[b][d] = "none"
    BY <2>1 DEF HandlerInv, HandlerInvAt
  <2>3. /\ UNCHANGED <<config, loaded, row>>
        /\ \A c \in Request : c # b => seen'[c] = seen[c]
    BY <1>2, Checking
  <2>4. QED
    BY <2>2, <2>3 DEF DeployedIsFresh
<1>3. ASSUME NEW b \in Request, CreateRows(b) PROVE DeployedIsFresh'
  BY <1>3 DEF CreateRows, asked, stored, attempt, TypeOK, HandlerInv,
      HandlerInvAt, LoadInv, LoadInvAt, DeployedIsFresh
<1>4. ASSUME NEW b \in Request, BreakOff(b) PROVE DeployedIsFresh'
  BY <1>4, Keeping DEF BreakOff, asked, stored, TypeOK, DeployedIsFresh
<1>5. ASSUME NEW b \in Request, Close(b) PROVE DeployedIsFresh'
  BY <1>5 DEF Close, Gathered, Swept, asked, stored, attempt, TypeOK,
      HandlerInv, HandlerInvAt, LoadInv, LoadInvAt, DeployedIsFresh
<1>6. ASSUME NEW b \in Request, NEW d \in Device, Claim(b, d) PROVE
    DeployedIsFresh'
  BY <1>6 DEF Claim, asked, stored, attempt, TypeOK, HandlerInv,
      HandlerInvAt, LoadInv, LoadInvAt, DeployedIsFresh
<1>7. ASSUME NEW b \in Request, NEW d \in Device, Load(b, d) PROVE
    DeployedIsFresh'
  <2>1. row[b][d] = "IN_PROGRESS"
    BY <1>7 DEF Load, AttemptInv, AttemptInvAt
  <2>2. PICK t \in Stamp : loaded' = [loaded EXCEPT ![b][d] = t]
    BY <1>7 DEF Load
  <2>3. QED
    BY <1>7, <2>1, <2>2 DEF Load, stored, TypeOK, DeployedIsFresh
<1>8. ASSUME NEW b \in Request, NEW d \in Device, NoConfig(b, d) PROVE
    DeployedIsFresh'
  BY <1>8 DEF NoConfig, asked, stored, attempt, TypeOK, HandlerInv,
      HandlerInvAt, LoadInv, LoadInvAt, DeployedIsFresh
<1>9. ASSUME NEW b \in Request, NEW d \in Device, Ends(b, d) PROVE
    DeployedIsFresh'
  <2>1. CASE Rehearse(b, d)
    <3>1. PICK t \in Stamp : /\ Finds(version[b], d, t)
                             /\ loaded' = [loaded EXCEPT ![b][d] = t]
      BY <2>1 DEF Rehearse
    <3>2. t > 0 /\ config[d][t] = "filled" /\ t >= seen[b][d]
      BY <3>1, Newest
    <3>3. QED
      BY <2>1, <3>1, <3>2 DEF Rehearse, stored, TypeOK, DeployedIsFresh
  <2>2. CASE Succeed(b, d)
    BY <2>2 DEF Succeed, stored, TypeOK, LoadInv, LoadInvAt, DeployedIsFresh
  <2>3. CASE Fail(b, d)
    BY <2>3 DEF Fail, stored, TypeOK, DeployedIsFresh
  <2>4. QED
    BY <1>9, <2>1, <2>2, <2>3 DEF Ends
<1>10. ASSUME NEW b \in Request, NEW d \in Device, Die(b, d) PROVE
    DeployedIsFresh'
  BY <1>10 DEF Die, Kept, asked, stored, attempt, TypeOK, HandlerInv, HandlerInvAt,
      LoadInv, LoadInvAt, DeployedIsFresh
<1>11. CASE UNCHANGED <<row, loaded, config, seen>>
  BY <1>11 DEF TypeOK, HandlerInv, HandlerInvAt, LoadInv, LoadInvAt,
      DeployedIsFresh
<1>12. QED
  BY <1>1, <1>2, <1>3, <1>4, <1>5, <1>6, <1>7, <1>8, <1>9, <1>10, <1>11 DEF
      Next, Inventory, Handler, Worker, Coroutine, Ends, Rollback, CreateDevice,
      DeleteDevice, CheckDevices, Enqueue, Accept, HandlerFails, Take, Ack,
      RequestUndo, Undo, asked, stored, attempt

(* A row with a waiting rollback is reopened by a rerun only.              *)
LEMMA UndoStep ==
  ASSUME TypeOK, HandlerInv, RowInv, AttemptInv, UndoMeetsEnded, Next
  PROVE  UndoMeetsEnded'
<1>1. ASSUME NEW d \in Device, CreateDevice(d) PROVE UndoMeetsEnded'
  BY <1>1 DEF CreateDevice, asked, stored, attempt, TypeOK, HandlerInv,
      HandlerInvAt, RowInv, RowInvAt, AttemptInv, AttemptInvAt,
      UndoMeetsEnded
<1>2. ASSUME NEW d \in Device, DeleteDevice(d) PROVE UndoMeetsEnded'
  BY <1>2 DEF DeleteDevice, Stored, asked, stored, attempt, TypeOK,
      HandlerInv, HandlerInvAt, RowInv, RowInvAt, AttemptInv, AttemptInvAt,
      UndoMeetsEnded
<1>3. ASSUME NEW b \in Request, CreateRows(b) PROVE UndoMeetsEnded'
  BY <1>3 DEF CreateRows, asked, stored, attempt, TypeOK, HandlerInv,
      HandlerInvAt, RowInv, RowInvAt, AttemptInv, AttemptInvAt,
      UndoMeetsEnded
<1>4. ASSUME NEW b \in Request, Close(b) PROVE UndoMeetsEnded'
  BY <1>4 DEF Close, Gathered, Swept, asked, stored, attempt, TypeOK,
      HandlerInv, HandlerInvAt, RowInv, RowInvAt, AttemptInv, AttemptInvAt,
      UndoMeetsEnded
<1>5. ASSUME NEW b \in Request, BreakOff(b) PROVE UndoMeetsEnded'
  BY <1>5 DEF BreakOff, Kept, asked, stored, attempt, TypeOK, HandlerInv,
      HandlerInvAt, RowInv, RowInvAt, AttemptInv, AttemptInvAt,
      UndoMeetsEnded
<1>6. ASSUME NEW b \in Request, NEW d \in Device, Claim(b, d) PROVE
    UndoMeetsEnded'
  <2>1. returns[b] \in Nat
    BY DEF TypeOK
  <2>2. returns[b] = 0 => row[b][d] \in {"none", "QUEUED"}
    BY <1>6, <2>1 DEF Claim, AttemptInv, AttemptInvAt
  <2>3. undo[b][d] > 0 => returns[b] # 0
    BY <2>2 DEF UndoMeetsEnded
  <2>4. /\ row' = [row EXCEPT ![b][d] = "IN_PROGRESS"]
        /\ UNCHANGED <<undo, device, returns>>
    BY <1>6 DEF Claim, stored
  <2>5. QED
    BY <2>3, <2>4 DEF UndoMeetsEnded, TypeOK
<1>7. ASSUME NEW b \in Request, NEW d \in Device, NoConfig(b, d) PROVE
    UndoMeetsEnded'
  BY <1>7 DEF NoConfig, asked, stored, attempt, TypeOK, HandlerInv,
      HandlerInvAt, RowInv, RowInvAt, AttemptInv, AttemptInvAt,
      UndoMeetsEnded
<1>8. ASSUME NEW b \in Request, NEW d \in Device, Ends(b, d) PROVE
    UndoMeetsEnded'
  <2>1. /\ message[b] = "running" /\ at[b][d] \in {"claimed", "loaded"}
        /\ at' = [at EXCEPT ![b][d] = "ended"]
        /\ loaded' \in [Request -> [Device -> {0} \cup Stamp]]
        /\ UNCHANGED <<version, targets, device, config, handler, seen,
                       message, returns, undo>>
    BY <1>8, Ending
  <2>2. PICK s \in {"SUCCESS", "ROLLBACK"} : row' = [row EXCEPT ![b][d] = s]
    BY <1>8, Ending
  <2>3. QED
    BY <2>1, <2>2 DEF TypeOK, HandlerInv, HandlerInvAt, RowInv, RowInvAt,
       AttemptInv, AttemptInvAt, UndoMeetsEnded
<1>9. ASSUME NEW b \in Request, NEW d \in Device, Die(b, d) PROVE
    UndoMeetsEnded'
  BY <1>9 DEF Die, Kept, asked, stored, attempt, TypeOK, HandlerInv, HandlerInvAt,
      RowInv, RowInvAt, AttemptInv, AttemptInvAt, UndoMeetsEnded
<1>10. ASSUME NEW b \in Request, NEW d \in Device, RequestUndo(b, d) PROVE
    UndoMeetsEnded'
  BY <1>10 DEF RequestUndo, Undoable, asked, stored, attempt, TypeOK,
      HandlerInv, HandlerInvAt, RowInv, RowInvAt, AttemptInv, AttemptInvAt,
      UndoMeetsEnded
<1>11. ASSUME NEW b \in Request, NEW d \in Device, Undo(b, d) PROVE
    UndoMeetsEnded'
  BY <1>11 DEF Undo, asked, stored, attempt, TypeOK, HandlerInv,
      HandlerInvAt, RowInv, RowInvAt, AttemptInv, AttemptInvAt,
      UndoMeetsEnded
<1>12. CASE UNCHANGED <<undo, device, returns, row>>
  BY <1>12 DEF TypeOK, HandlerInv, HandlerInvAt, RowInv, RowInvAt,
      AttemptInv, AttemptInvAt, UndoMeetsEnded
<1>13. QED
  BY <1>1, <1>2, <1>3, <1>4, <1>5, <1>6, <1>7, <1>8, <1>9, <1>10, <1>11,
      <1>12 DEF Next, Inventory, Handler, Worker, Coroutine, Ends, Rollback,
      CreateConfig, CheckDevices, CheckConfigs, Enqueue, Accept,
      HandlerFails, Take, Ack, Load, asked, stored, attempt

-----------------------------------------------------------------------------
(* Nothing is stored, asked or sent in the beginning.                      *)
LEMMA Start == ASSUME BoundAssumption, Init PROVE Inv
<1>1. TypeOK
  BY DEF Init, TypeOK, Version, Status, BoundAssumption
<1>2. HandlerInv /\ RowInv /\ AttemptInv /\ LoadInv
  BY DEF Init, HandlerInv, HandlerInvAt, RowInv, RowInvAt, AttemptInv,
      AttemptInvAt, LoadInv, LoadInvAt
<1>3. NoRowIsLost /\ DeployedIsFresh /\ UndoMeetsEnded
  BY DEF Init, NoRowIsLost, DeployedIsFresh, UndoMeetsEnded
<1>4. QED
  BY <1>1, <1>2, <1>3 DEF Inv

(* Inv is an invariant of the routes, the broker and the workers, for any  *)
(* devices and requests and all bounds.                                    *)
THEOREM Invariance == Spec => []Inv
<1>1. Init => Inv
  BY Start, BoundAssumption
<1>2. Inv /\ [Next]_vars => Inv'
  <2>1. CASE Next
    BY <2>1, BoundAssumption, TypeStep, HandlerStep, RowStep, AttemptStep,
        LoadStep, LostStep, FreshStep, UndoStep DEF Inv
  <2>2. CASE UNCHANGED vars
    BY <2>2 DEF vars, asked, stored, attempt, Inv, TypeOK, HandlerInv,
        HandlerInvAt, RowInv, RowInvAt, AttemptInv, AttemptInvAt, LoadInv,
        LoadInvAt, NoRowIsLost, DeployedIsFresh, UndoMeetsEnded, Stored
  <2>3. QED
    BY <2>1, <2>2
<1>3. QED
  BY <1>1, <1>2, PTL DEF Spec

(* A QUEUED row has somebody who will come to it, a client who was told of *)
(* an error, or a message that counts as failed; an IN_PROGRESS row has a  *)
(* coroutine, or something broke off.                                      *)
THEOREM NothingLost == Spec => []NoRowIsLost
<1>1. Inv => NoRowIsLost
  BY DEF Inv
<1>2. QED
  BY <1>1, Invariance, PTL

(* However many replicas store configurations in whatever order of their   *)
(* clocks, what is deployed is not older than what was checked.            *)
THEOREM Fresh == Spec => []DeployedIsFresh
<1>1. Inv => DeployedIsFresh
  BY DEF Inv
<1>2. QED
  BY <1>1, Invariance, PTL

(* A manual rollback finds its device, and a row that has ended as long as *)
(* nothing of its batch broke off.                                         *)
THEOREM UndoOfEnded == Spec => []UndoMeetsEnded
<1>1. Inv => UndoMeetsEnded
  BY DEF Inv
<1>2. QED
  BY <1>1, Invariance, PTL

(* TypeOK, for any devices and requests and all bounds.                    *)
THEOREM TypeCorrect == Spec => []TypeOK
<1>1. Inv => TypeOK
  BY DEF Inv
<1>2. QED
  BY <1>1, Invariance, PTL
=============================================================================
