---------------------------- MODULE BatchEndsProofs ----------------------------
(***************************************************************************)
(* Why the message of a batch is settled, for every list of devices and    *)
(* every bound: it is never stuck, and its steps run out.                  *)
(***************************************************************************)
EXTENDS BatchDeployProofs, ListFacts

(* Strategies: once all that was started has ended, there is a next step.  *)
LEMMA StrategyGoesOn ==
  ASSUME TypeOK, StageInv, job = "deploying", Settled
  PROVE  CanJudge
<1> USE Positions DEF TypeOK, CanJudge, Settled, Finished
<1>1. CASE strategy = "canary"
  BY <1>1 DEF StageInv, CanaryPassed
<1>2. CASE strategy = "rolling"
  <2> SUFFICES ASSUME \A i \in Pos : pc[i] \in {"ok", "idle"}, ~AllOk
               PROVE  \E i \in Pos : pc[i] = "idle" /\ \A j \in 1 .. (i - 1) : pc[j] = "ok"
    BY <1>2
  <2> DEFINE T == {i \in Pos : pc[i] = "idle"}
  <2>1. T \subseteq Nat /\ T # {}
    BY DEF AllOk
  <2> HIDE DEF T
  <2>2. PICK i \in T : \A k \in T : i <= k
    BY <2>1, Least
  <2>3. i \in Pos /\ pc[i] = "idle"
    BY DEF T
  <2>4. ASSUME NEW j \in 1 .. (i - 1)
        PROVE  pc[j] = "ok"
    <3>1. j \in Pos /\ ~(i <= j)
      BY <2>3 DEF Pos
    <3> QED
      BY <2>2, <3>1 DEF T
  <2> QED
    BY <2>3, <2>4
<1> QED
  BY <1>1, <1>2 DEF Strategies

(* The event loop: a coroutine that has not ended can go on, or another    *)
(* one can before it.                                                      *)
LEMMA LoopGoesOn ==
  ASSUME TypeOK, StageInv, job = "deploying", ~Settled
  PROVE  \E i \in Pos : CanMove(i)
<1> USE DEF CanMove, Runs, Settled, Finished, Busy
<1>1. PICK k \in Pos : pc[k] \notin Finished \cup {"idle"}
  OBVIOUS
<1>2. CASE \E i \in Pos : pc[i] \in Busy
  BY <1>2 DEF StageInv
<1>3. CASE ~(\E i \in Pos : pc[i] \in Busy) /\ \E i \in Pos : pc[i] = "start"
  <2> DEFINE T == {i \in Pos : pc[i] = "start"}
  <2>1. T \subseteq Nat /\ T # {}
    BY <1>3, Positions
  <2> HIDE DEF T
  <2>2. PICK i \in T : \A j \in T : i <= j
    BY <2>1, Least
  <2>3. i \in Pos /\ pc[i] = "start" /\ \A j \in Pos : pc[j] = "start" => i <= j
    BY <2>2 DEF T
  <2>4. CanMove(i)
    BY <1>3, <2>3
  <2> QED
    BY <2>3, <2>4
<1>4. CASE ~(\E i \in Pos : pc[i] \in Busy \cup {"start"})
  <2>1. CanMove(k)
    BY <1>1, <1>4
  <2> QED
    BY <2>1
<1> QED
  BY <1>2, <1>3, <1>4

(* A batch that has not ended has a next step: whatever failed, the event  *)
(* loop, the strategy, _rollback_all or the task knows what to do.         *)
THEOREM NeverGetsStuck == Spec => []NeverStuck
<1>1. Inv => NeverStuck
  <2> SUFFICES ASSUME Inv, job \notin {"done", "dead"} PROVE CanGoOn
    BY DEF NeverStuck
  <2>1. TypeOK /\ StageInv
    BY DEF Inv
  <2>2. CASE job = "deploying"
    <3>1. CASE Settled
      BY <2>1, <2>2, <3>1, StrategyGoesOn DEF CanGoOn
    <3>2. CASE ~Settled
      BY <2>1, <2>2, <3>2, LoopGoesOn DEF CanGoOn
    <3> QED
      BY <3>1, <3>2
  <2>3. CASE job # "deploying"
    BY <2>1, <2>3 DEF TypeOK, StageInv, CanGoOn
  <2> QED
    BY <2>2, <2>3
<1> QED
  BY <1>1, Invariance, PTL

-----------------------------------------------------------------------------
(* The number of steps that are left.                                      *)

LEMMA Fewer ==
  ASSUME NEW S, IsFiniteSet(S), NEW T, T \subseteq S, NEW x \in S, x \notin T
  PROVE  Cardinality(T) < Cardinality(S)
<1>1. T \in SUBSET S /\ S # T
  OBVIOUS
<1>2. /\ IsFiniteSet(T) /\ Cardinality(T) <= Cardinality(S)
      /\ Cardinality(S) # Cardinality(T)
  BY <1>1, FS_Subset
<1>3. Cardinality(T) \in Nat /\ Cardinality(S) \in Nat
  BY <1>2, FS_CardinalityType
<1> QED
  BY <1>2, <1>3

(* The moves of an attempt, and what of them a state leaves to do.         *)
Moves == ({0} \X (1 .. 5)) \cup (Pos \X (1 .. 13)) \cup ({N + 1} \X Pos)

StillAhead(m) ==
  /\ job \notin {"done", "dead"}
  /\ m[1] = 0 => m[2] > Stage
  /\ m[1] \in Pos => m[2] > Rank(pc[m[1]])
  /\ m[1] = N + 1 => \/ job \in {"queued", "deploying"}
                     \/ job = "rollingBack" /\ m[2] >= undoAt

LEMMA RankBounds == \A p : Rank(p) \in 0 .. 13
BY DEF Rank

LeftIsAhead == undoAt \in Nat => MovesLeft = {m \in Moves : StillAhead(m)}

LEMMA MovesAreAhead == LeftIsAhead
<1> SUFFICES ASSUME undoAt \in Nat
             PROVE  MovesLeft = {m \in Moves : StillAhead(m)}
  BY DEF LeftIsAhead
<1> DEFINE A == {m \in Moves : StillAhead(m)}
<1>1. Stage \in 0 .. 5 /\ N \in Nat \ {0}
  BY Positions DEF Stage
<1>2. CASE job \in {"done", "dead"}
  BY <1>2 DEF MovesLeft, StillAhead
<1>3. CASE job \notin {"done", "dead"}
  <2>1. ASSUME NEW x \in MovesLeft PROVE x \in A
    <3>1. CASE x \in {0} \X ((Stage + 1) .. 5)
      BY <1>1, <1>3, <3>1 DEF Moves, StillAhead, Pos
    <3>2. CASE x \in {N + 1} \X UndosLeft
      <4>1. UndosLeft \subseteq Pos
        BY <1>1 DEF UndosLeft, Pos
      <4>2. x[1] = N + 1 /\ x[2] \in UndosLeft /\ x \in {N + 1} \X Pos
        BY <3>2, <4>1
      <4>3. x[1] # 0 /\ x[1] \notin Pos
        BY <1>1, <4>2 DEF Pos
      <4>4. \/ job \in {"queued", "deploying"}
            \/ job = "rollingBack" /\ x[2] >= undoAt
        BY <1>1, <4>2 DEF UndosLeft
      <4> QED
        BY <1>3, <4>2, <4>3, <4>4 DEF Moves, StillAhead
    <3>3. ASSUME NEW i \in Pos, x \in {i} \X ((Rank(pc[i]) + 1) .. 13) PROVE x \in A
      <4>1. x[1] = i /\ x[2] \in 1 .. 13 /\ x[2] > Rank(pc[i]) /\ x \in Pos \X (1 .. 13)
        BY <3>3, RankBounds
      <4>2. i # 0 /\ i # N + 1
        BY <1>1 DEF Pos
      <4> QED
        BY <1>3, <4>1, <4>2 DEF Moves, StillAhead
    <3> QED
      BY <1>3, <2>1, <3>1, <3>2, <3>3 DEF MovesLeft
  <2>2. ASSUME NEW x \in A PROVE x \in MovesLeft
    <3>0. x \in Moves /\ StillAhead(x)
      BY <2>2
    <3>1. CASE x \in {0} \X (1 .. 5)
      <4>1. x \in {0} \X ((Stage + 1) .. 5)
        BY <1>1, <3>0, <3>1 DEF StillAhead
      <4> QED
        BY <1>3, <4>1 DEF MovesLeft
    <3>2. CASE x \in {N + 1} \X Pos
      <4>1. x[2] \in UndosLeft
        BY <1>1, <3>0, <3>2 DEF StillAhead, UndosLeft, Pos
      <4>2. x \in {N + 1} \X UndosLeft
        BY <3>2, <4>1
      <4> QED
        BY <1>3, <4>2 DEF MovesLeft
    <3>3. CASE x \in Pos \X (1 .. 13)
      <4>1. PICK i \in Pos : i = x[1]
        BY <3>3
      <4>2. x \in {i} \X ((Rank(pc[i]) + 1) .. 13)
        BY <3>0, <3>3, <4>1, RankBounds DEF StillAhead
      <4> QED
        BY <1>3, <4>2 DEF MovesLeft
    <3> QED
      BY <3>0, <3>1, <3>2, <3>3 DEF Moves
  <2> QED
    BY <2>1, <2>2
<1> QED
  BY <1>2, <1>3

LEMMA MovesAreFinite == IsFiniteSet(Moves)
<1>1. IsFiniteSet(1 .. 5) /\ IsFiniteSet(1 .. 13) /\ IsFiniteSet(Pos)
  <2>1. N \in Int /\ 1 \in Int /\ 5 \in Int /\ 13 \in Int
    BY Positions
  <2> QED
    BY <2>1, FS_Interval DEF Pos
<1>2. IsFiniteSet({0} \X (1 .. 5)) /\ IsFiniteSet(Pos \X (1 .. 13))
      /\ IsFiniteSet({N + 1} \X Pos)
  <2>1. IsFiniteSet({0}) /\ IsFiniteSet({N + 1})
    BY FS_Singleton
  <2> QED
    BY <1>1, <2>1, FS_Product
<1> QED
  BY <1>2, FS_Union DEF Moves

LEMMA PushesAreFinite ==
  ASSUME NEW S, S \subseteq Pos \X {"partial", "new"}
  PROVE  IsFiniteSet(S) /\ Cardinality(S) \in Nat
<1>1. IsFiniteSet({"partial", "new"})
  <2>1. IsFiniteSet({"partial"}) /\ IsFiniteSet({"new"})
    BY FS_Singleton
  <2>2. IsFiniteSet({"partial"} \cup {"new"})
    BY <2>1, FS_Union
  <2>3. {"partial", "new"} = {"partial"} \cup {"new"}
    OBVIOUS
  <2> QED
    BY <2>2, <2>3
<1>2. IsFiniteSet(Pos)
  <2>1. N \in Int /\ 1 \in Int
    BY Positions
  <2> QED
    BY <2>1, FS_Interval DEF Pos
<1>3. IsFiniteSet(Pos \X {"partial", "new"})
  BY <1>1, <1>2, FS_Product
<1>4. IsFiniteSet(S)
  BY <1>3, FS_Subset
<1> QED
  BY <1>4, FS_CardinalityType

LEMMA MovesAreCounted ==
  ASSUME NEW S, S \subseteq Moves
  PROVE  IsFiniteSet(S) /\ Cardinality(S) \in Nat
<1>1. IsFiniteSet(S)
  BY MovesAreFinite, FS_Subset
<1> QED
  BY <1>1, FS_CardinalityType

(* What is left is a number, whatever happens.                             *)
Counted == undoAt \in Nat => StepsLeft \in Nat

LEMMA LeftIsCounted == Counted
<1>1. undoAt \in Nat => Cardinality(MovesLeft) \in Nat
  BY MovesAreAhead, MovesAreCounted DEF LeftIsAhead
<1>2. Cardinality(PushesLeft) \in Nat
  BY PushesAreFinite DEF PushesLeft
<1> QED
  BY <1>1, <1>2 DEF Counted, StepsLeft

(* The attempt goes on: the task, a coroutine or _rollback_all has done    *)
(* move m, and none of them has gone back.                                 *)
LEMMA GoesOn ==
  ASSUME TypeOK, TypeOK', UNCHANGED running,
         \A n \in Moves : StillAhead(n)' => StillAhead(n),
         NEW m \in Moves, StillAhead(m), ~StillAhead(m)'
  PROVE  StepsLeft' < StepsLeft
<1>1. LeftIsAhead /\ LeftIsAhead'
  BY MovesAreAhead, PTL
<1>2. undoAt \in Nat /\ undoAt' \in Nat
  BY Positions DEF TypeOK
<1>3. /\ MovesLeft = {n \in Moves : StillAhead(n)}
      /\ MovesLeft' = {n \in Moves : StillAhead(n)'}
  BY <1>1, <1>2 DEF LeftIsAhead
<1>4. /\ IsFiniteSet(MovesLeft)
      /\ Cardinality(MovesLeft) \in Nat /\ Cardinality(MovesLeft') \in Nat
  BY <1>3, MovesAreCounted
<1>5. Cardinality(MovesLeft') < Cardinality(MovesLeft)
  <2>1. MovesLeft' \subseteq MovesLeft /\ m \in MovesLeft /\ m \notin MovesLeft'
    BY <1>3
  <2> QED
    BY <1>4, <2>1, Fewer
<1>6. PushesLeft' = PushesLeft
  BY DEF PushesLeft
<1>7. Cardinality(PushesLeft) \in Nat
  BY PushesAreFinite DEF PushesLeft
<1> QED
  BY <1>4, <1>5, <1>6, <1>7 DEF StepsLeft

(* What it takes for no part of the attempt to go back.                    *)
LEMMA NoneGoesBack ==
  ASSUME TypeOK, TypeOK', job \notin {"done", "dead"},
         Stage' >= Stage,
         job' \notin {"done", "dead"} => \A i \in Pos : Rank(pc'[i]) >= Rank(pc[i]),
         (job' = "rollingBack" /\ job # "deploying") =>
           job = "rollingBack" /\ undoAt' >= undoAt
  PROVE  \A n \in Moves : StillAhead(n)' => StillAhead(n)
<1> SUFFICES ASSUME NEW n \in Moves, StillAhead(n)' PROVE StillAhead(n)
  OBVIOUS
<1>0. job' \notin {"done", "dead"}
  BY DEF StillAhead
<1>1. n[1] = 0 => n[2] > Stage
  <2>1. Stage \in Nat /\ Stage' \in Nat
    BY DEF Stage
  <2>2. n[1] = 0 => n[2] \in Nat /\ n[2] > Stage'
    BY Positions DEF StillAhead, Moves, Pos
  <2> QED
    BY <2>1, <2>2
<1>2. n[1] \in Pos => n[2] > Rank(pc[n[1]])
  BY <1>0 DEF StillAhead, Rank, Moves, Pos
<1>3. n[1] = N + 1 => \/ job \in {"queued", "deploying"}
                      \/ job = "rollingBack" /\ n[2] >= undoAt
  BY <1>0, Positions DEF StillAhead, Moves, Pos, TypeOK, Stage
<1> QED
  BY <1>1, <1>2, <1>3 DEF StillAhead

(* The stages of an attempt: the task does the next one.                   *)
LEMMA NextStage ==
  ASSUME TypeOK, TypeOK', UNCHANGED <<running, tries, crashes>>,
         job \notin {"done", "dead"}, Stage' > Stage,
         job' \notin {"done", "dead"} => \A i \in Pos : Rank(pc'[i]) >= Rank(pc[i]),
         job' = "rollingBack" => job = "deploying"
  PROVE  StepsLeft' < StepsLeft
<1>1. Stage \in 0 .. 5 /\ Stage' \in 0 .. 5
  BY DEF Stage
<1>s. PICK k \in 1 .. 5 : k = Stage'
  BY <1>1
<1> DEFINE m == <<0, k>>
<1>2. m \in Moves /\ m[1] = 0 /\ m[2] = k /\ m[1] \notin Pos /\ m[1] # N + 1
  BY <1>1, Positions DEF Moves, Pos
<1>3. StillAhead(m)
  BY <1>1, <1>s, <1>2 DEF StillAhead
<1>4. \A n \in Moves : StillAhead(n)' => StillAhead(n)
  <2>1. (job' = "rollingBack" /\ job # "deploying") =>
          job = "rollingBack" /\ undoAt' >= undoAt
    OBVIOUS
  <2>2. Stage' >= Stage
    BY <1>1
  <2> QED
    BY <2>1, <2>2, NoneGoesBack
<1>5. ~StillAhead(m)'
  BY <1>1, <1>s, <1>2 DEF StillAhead
<1> QED
  BY <1>2, <1>3, <1>4, <1>5, GoesOn

(* A coroutine moves, by its own step or because it is started.            *)
LEMMA NextPlace ==
  ASSUME TypeOK, TypeOK', UNCHANGED <<running, tries, crashes, job>>,
         job = "deploying",
         \A j \in Pos : Rank(pc'[j]) >= Rank(pc[j]),
         NEW i \in Pos, Rank(pc'[i]) > Rank(pc[i])
  PROVE  StepsLeft' < StepsLeft
<1>1. Rank(pc[i]) \in 0 .. 13 /\ Rank(pc'[i]) \in 1 .. 13
  BY RankBounds
<1>s. PICK k \in 1 .. 13 : k = Rank(pc'[i])
  BY <1>1
<1> DEFINE m == <<i, k>>
<1>2. m \in Moves /\ m[1] = i /\ m[2] = k /\ m[1] # 0 /\ m[1] # N + 1
  BY <1>1, Positions DEF Moves, Pos
<1>3. StillAhead(m)
  BY <1>1, <1>s, <1>2 DEF StillAhead
<1>4. \A n \in Moves : StillAhead(n)' => StillAhead(n)
  <2>1. Stage' = Stage /\ Stage \in Nat
    BY DEF Stage
  <2>2. Stage' >= Stage
    BY <2>1
  <2> QED
    BY <2>2, NoneGoesBack
<1>5. ~StillAhead(m)'
  BY <1>1, <1>s, <1>2 DEF StillAhead
<1> QED
  BY <1>2, <1>3, <1>4, <1>5, GoesOn

LEMMA OrchestratorRuns ==
  ASSUME TypeOK, TypeOK', AttemptInv,
         \/ Begin \/ StartRest \/ JudgeCanary \/ JudgeRolling \/ JudgeAtomic
         \/ RollBackNext \/ Sweep \/ AttemptRaises \/ Ack \/ Crash
  PROVE  \/ Returns' = Returns + 1 /\ Returns' <= MaxRetries + MaxCrashes
         \/ Returns' = Returns /\ StepsLeft' < StepsLeft
<1> USE DEF request, tables, network, counters, stage, loop, Returns
<1>1. CASE Begin
  <2>1. /\ UNCHANGED <<running, tries, crashes>>
        /\ job = "queued" /\ job' = "deploying"
        /\ \A i \in Pos : pc[i] = "idle"
    BY <1>1 DEF Begin, AttemptInv
  <2>2. \A i \in Pos : Rank(pc'[i]) >= Rank(pc[i])
    <3>1. \A i \in Pos : Rank(pc[i]) = 0
      BY <2>1 DEF Rank
    <3> QED
      BY <3>1, RankBounds
  <2> QED
    BY <2>1, <2>2, NextStage DEF Stage
<1>2. CASE StartRest
  <2>1. /\ UNCHANGED <<running, tries, crashes, job>> /\ job = "deploying"
        /\ \A i \in Pos : \/ pc'[i] = pc[i]
                          \/ pc[i] = "idle" /\ pc'[i] = "start"
        /\ \E i \in Pos : pc[i] = "idle" /\ pc'[i] = "start"
    <3>1. CASE strategy = "canary"
      <4>1. /\ N > 1 /\ \A i \in Pos \ {1} : pc[i] = "idle"
            /\ pc' = [i \in Pos |-> IF i = 1 THEN pc[1] ELSE "start"]
            /\ UNCHANGED <<running, tries, crashes, job>> /\ job = "deploying"
        BY <1>2, <3>1 DEF StartRest
      <4>2. 2 \in Pos \ {1}
        BY <4>1, Positions DEF Pos
      <4>3. \A i \in Pos : IF i = 1 THEN pc'[i] = pc[i]
                                   ELSE pc[i] = "idle" /\ pc'[i] = "start"
        BY <4>1
      <4>4. pc[2] = "idle" /\ pc'[2] = "start"
        BY <4>2, <4>3
      <4> QED
        BY <4>1, <4>2, <4>3, <4>4
    <3>2. CASE strategy # "canary"
      <4>1. /\ UNCHANGED <<running, tries, crashes, job>> /\ job = "deploying"
            /\ \E i \in Pos : pc[i] = "idle" /\ pc' = [pc EXCEPT ![i] = "start"]
        BY <1>2, <3>2 DEF StartRest, Goto
      <4> QED
        BY <4>1 DEF TypeOK
    <3> QED
      BY <3>1, <3>2
  <2>2. Rank("idle") = 0 /\ Rank("start") = 1
    BY DEF Rank
  <2>3. \A i \in Pos : Rank(pc'[i]) >= Rank(pc[i])
    BY <2>1, <2>2, RankBounds
  <2> QED
    BY <2>1, <2>2, <2>3, NextPlace
<1>3. CASE JudgeCanary \/ JudgeRolling \/ JudgeAtomic
  <2>1. /\ UNCHANGED <<running, tries, crashes, pc>>
        /\ job = "deploying" /\ job' \in {"rollingBack", "sweeping"}
    BY <1>3 DEF JudgeCanary, JudgeRolling, JudgeAtomic, Conclude
  <2>2. \A i \in Pos : Rank(pc'[i]) >= Rank(pc[i])
    BY <2>1, RankBounds
  <2> QED
    BY <2>1, <2>2, NextStage DEF Stage
<1>4. CASE RollBackNext
  <2>1. /\ UNCHANGED <<running, tries, crashes, pc>> /\ job = "rollingBack"
        /\ undoAt \in Pos /\ undoAt' = undoAt + 1
        /\ job' \in {"rollingBack", "sweeping"}
    BY <1>4 DEF RollBackNext
  <2>2. \A i \in Pos : Rank(pc'[i]) >= Rank(pc[i])
    BY <2>1, RankBounds
  <2>3. CASE job' = "sweeping"
    BY <2>1, <2>2, <2>3, NextStage DEF Stage
  <2>4. CASE job' = "rollingBack"
    <3>1. PICK k \in Pos : k = undoAt
      BY <2>1
    <3> DEFINE m == <<N + 1, k>>
    <3>2. m \in Moves /\ m[1] = N + 1 /\ m[2] = k /\ m[1] # 0 /\ m[1] \notin Pos
      BY Positions DEF Moves, Pos
    <3>3. StillAhead(m)
      BY <2>1, <3>1, <3>2, Positions DEF StillAhead
    <3>4. \A n \in Moves : StillAhead(n)' => StillAhead(n)
      <4>1. Stage' >= Stage
        BY <2>1, <2>4 DEF Stage
      <4>2. undoAt' >= undoAt
        BY <2>1, Positions
      <4> QED
        BY <2>1, <2>2, <4>1, <4>2, NoneGoesBack
    <3>5. ~StillAhead(m)'
      BY <2>1, <2>4, <3>1, <3>2, Positions DEF StillAhead
    <3> QED
      BY <2>1, <3>2, <3>3, <3>4, <3>5, GoesOn
  <2> QED
    BY <2>1, <2>3, <2>4
<1>5. CASE Sweep \/ Ack
  <2>1. /\ UNCHANGED <<running, tries, crashes, pc>>
        /\ \/ job = "sweeping" /\ job' = "unacked"
           \/ job = "unacked" /\ job' = "done"
    BY <1>5 DEF Sweep, Ack
  <2>2. \A i \in Pos : Rank(pc'[i]) >= Rank(pc[i])
    BY <2>1, RankBounds
  <2> QED
    BY <2>1, <2>2, NextStage DEF Stage
<1>6. CASE AttemptRaises \/ Crash
  <2>1. /\ running' = running /\ job \notin {"queued", "done", "dead"}
        /\ \/ job' = "queued" /\ tries' = tries + 1 /\ crashes' = crashes
           \/ job' = "queued" /\ tries' = tries /\ crashes' = crashes + 1
           \/ job' = "dead" /\ UNCHANGED <<tries, crashes>>
              /\ job \in {"deploying", "rollingBack", "sweeping"}
    BY <1>6 DEF AttemptRaises, Crash
  <2>2. CASE job' = "queued"
    <3>1. tries \in Nat /\ crashes \in Nat
      BY BoundAssumption DEF TypeOK
    <3>2. /\ tries' \in Nat /\ crashes' \in Nat
          /\ tries' <= MaxRetries /\ crashes' <= MaxCrashes
      BY BoundAssumption DEF TypeOK
    <3>3. MaxRetries \in Nat /\ MaxCrashes \in Nat
      BY BoundAssumption
    <3>4. tries' + crashes' = tries + crashes + 1
      BY <2>1, <2>2, <3>1
    <3>5. \A a, b, c, d \in Nat : a <= c /\ b <= d => a + b <= c + d
      OBVIOUS
    <3>6. tries' + crashes' <= MaxRetries + MaxCrashes
      BY <3>2, <3>3, <3>5
    <3> QED
      BY <3>4, <3>6
  <2>3. CASE job' = "dead"
    BY <2>1, <2>3, NextStage DEF Stage
  <2> QED
    BY <2>1, <2>2, <2>3
<1> QED
  BY <1>1, <1>2, <1>3, <1>4, <1>5, <1>6

LEMMA CoroutineRuns ==
  ASSUME TypeOK, TypeOK', [Next]_vars, NEW i \in Pos, Coroutine(i)
  PROVE  Returns' = Returns /\ StepsLeft' < StepsLeft
<1>1. job = "deploying" /\ UNCHANGED <<job, tries, crashes>>
  BY CoroutineSteps
<1>2. Rank(pc'[i]) > Rank(pc[i]) /\ pc' = [pc EXCEPT ![i] = pc'[i]]
  BY PlaceGrows, PlaceSteps
<1>3. \A j \in Pos \ {i} : pc'[j] = pc[j]
  BY <1>2 DEF TypeOK
<1>4. \A j \in Pos : Rank(pc'[j]) >= Rank(pc[j])
  BY <1>2, <1>3, RankBounds
<1>5. UNCHANGED running
  <2> USE DEF network
  <2>1. CASE Claim(i) \/ NoConfig(i) \/ DryRun(i) \/ Connect(i) \/ Connected(i)
    BY <2>1 DEF Claim, NoConfig, DryRun, Connect, Connected
  <2>2. CASE SaveBefore(i) \/ Build(i) \/ Applied(i) \/ Verified(i)
    BY <2>2 DEF SaveBefore, Build, Applied, Verified
  <2>3. CASE SaveAfter(i) \/ RecordSuccess(i) \/ AuditDeploy(i) \/ SshFails(i)
    BY <2>3 DEF SaveAfter, RecordSuccess, AuditDeploy, SshFails
  <2>4. CASE TryRaises(i) \/ Undo(i) \/ Mark(i) \/ Raises(i)
    BY <2>4 DEF TryRaises, Undo, Mark, Raises
  <2> QED
    BY <2>1, <2>2, <2>3, <2>4 DEF Coroutine
<1> QED
  BY <1>1, <1>2, <1>4, <1>5, NextPlace DEF Returns

(* A device takes more and more of its configuration.                      *)
LEMMA DeviceRuns ==
  ASSUME TypeOK, TypeOK', NEW i \in Pos, DeviceTakes(i)
  PROVE  Returns' = Returns /\ StepsLeft' < StepsLeft
<1>1. PICK c \in {"partial", "new"} \ {running[Order[i]]} :
        running[Order[i]] # "new" /\ running' = [running EXCEPT ![Order[i]] = c]
  BY DEF DeviceTakes
<1>2. UNCHANGED <<job, tries, crashes, pc, undoAt>>
  BY DEF DeviceTakes, counters, stage, loop
<1>3. MovesLeft' = MovesLeft
  <2>1. Stage' = Stage /\ UndosLeft' = UndosLeft
    BY <1>2 DEF Stage, UndosLeft
  <2> QED
    BY <1>2, <2>1 DEF MovesLeft
<1>4. \A j \in Pos : running'[Order[j]] =
        IF Order[j] = Order[i] THEN c ELSE running[Order[j]]
  BY <1>1, Positions DEF TypeOK
<1>5. running[Order[i]] \in {"old", "partial"}
  BY <1>1, Positions DEF TypeOK, Config
<1>6. PushesLeft' \subseteq PushesLeft
  BY <1>1, <1>4, <1>5 DEF PushesLeft
<1>7. <<i, c>> \in PushesLeft /\ <<i, c>> \notin PushesLeft'
  BY <1>1, <1>4, <1>5 DEF PushesLeft
<1>8. Cardinality(PushesLeft') < Cardinality(PushesLeft)
  <2>1. IsFiniteSet(PushesLeft)
    BY PushesAreFinite DEF PushesLeft
  <2> QED
    BY <1>6, <1>7, <2>1, Fewer
<1>9. Cardinality(PushesLeft) \in Nat /\ Cardinality(PushesLeft') \in Nat
  <2>1. PushesLeft \subseteq Pos \X {"partial", "new"}
    BY DEF PushesLeft
  <2>2. PushesLeft' \subseteq Pos \X {"partial", "new"}
    BY <1>6, <2>1
  <2> QED
    BY <2>1, <2>2, PushesAreFinite
<1>10. Cardinality(MovesLeft) \in Nat
  BY MovesAreAhead, MovesAreCounted DEF LeftIsAhead, TypeOK
<1> QED
  BY <1>2, <1>3, <1>8, <1>9, <1>10 DEF StepsLeft, Returns

(* Every step, a failing call and a crash too, sends the message back, as  *)
(* often as there are retries and redeliveries at most, or leaves fewer    *)
(* steps than it found, and their number is natural: no batch goes on for  *)
(* ever.                                                                   *)
THEOREM StepsDoRunOut == Spec => StepsRunOut /\ [](StepsLeft \in Nat)
<1> DEFINE OneLess == \/ Returns' = Returns + 1 /\ Returns' <= MaxRetries + MaxCrashes
                      \/ Returns' = Returns /\ StepsLeft' < StepsLeft
<1>1. Inv /\ Inv' /\ [Next]_vars => [OneLess]_vars
  <2> SUFFICES ASSUME Inv, Inv', Next PROVE OneLess
    OBVIOUS
  <2>1. TypeOK /\ TypeOK' /\ AttemptInv
    BY DEF Inv
  <2>2. ASSUME NEW i \in Pos, Coroutine(i) PROVE OneLess
    BY <2>1, <2>2, CoroutineRuns
  <2>3. ASSUME NEW i \in Pos, DeviceTakes(i) PROVE OneLess
    BY <2>1, <2>3, DeviceRuns
  <2> QED
    BY <2>1, <2>2, <2>3, OrchestratorRuns DEF Next, Worker
<1>2. Inv => StepsLeft \in Nat
  BY LeftIsCounted, Positions DEF Inv, TypeOK, Counted
<1> QED
  BY <1>1, <1>2, Invariance, PTL DEF Spec, StepsRunOut
================================================================================
