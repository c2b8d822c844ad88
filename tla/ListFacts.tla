------------------------------- MODULE ListFacts -------------------------------
(***************************************************************************)
(* Induction over numbers, and what it shows of the lists that commands    *)
(* are put together from.                                                  *)
(*                                                                         *)
(* The library's induction theorems take the hypothesis as an operator.    *)
(* Here a set of numbers stands for it, which has a least member.          *)
(***************************************************************************)
EXTENDS Integers, FiniteSets, Sequences, SequencesExt, FiniteSetTheorems,
        FunctionTheorems, WellFoundedInduction, TLAPS

LEMMA Least ==
  ASSUME NEW T, T \subseteq Nat, T # {}
  PROVE  \E x \in T : \A y \in T : x <= y
<1> DEFINE R == {ss \in Nat \X Nat : ss[1] < ss[2]}
<1>1. IsWellFoundedOn(R, Nat)
  BY NatLessThanWellFounded DEF OpToRel
<1> HIDE DEF R
<1>2. PICK x \in T : \A y \in T : ~ (<<y, x>> \in R)
  BY <1>1, WFMin
<1>3. ASSUME NEW y \in T
      PROVE  x <= y
  <2>1. <<y, x>> \notin R
    BY <1>2
  <2>2. x \in Nat /\ y \in Nat
    OBVIOUS
  <2> QED BY <2>1, <2>2 DEF R
<1> QED BY <1>3

LEMMA Induct ==
  ASSUME NEW m \in Nat, NEW P,
         0 \in P, \A n \in Nat : n < m /\ n \in P => n + 1 \in P
  PROVE  \A n \in 0 .. m : n \in P
<1> SUFFICES ASSUME NEW x \in 0 .. m, x \notin P
             PROVE  FALSE
  OBVIOUS
<1> DEFINE T == {n \in 0 .. m : n \notin P}
<1>1. T \subseteq Nat /\ T # {}
  OBVIOUS
<1> HIDE DEF T
<1>2. PICK n \in T : \A k \in T : n <= k
  BY <1>1, Least
<1>3. n \in 0 .. m /\ n \notin P /\ n # 0
  BY DEF T
<1>4. n - 1 \in Nat /\ n - 1 < m /\ n - 1 \in 0 .. m /\ (n - 1) + 1 = n
  BY <1>3
<1>5. n - 1 \in P
  BY <1>2, <1>4 DEF T
<1> QED BY <1>3, <1>4, <1>5

-----------------------------------------------------------------------------
(* FlattenSeq is the last value of a recursive function; it exists.        *)
PartsJoined(g, s, n) == g = [i \in 1 .. n |-> IF i = 1 THEN s[i] ELSE g[i - 1] \o s[i]]

LEMMA PartsExist ==
  ASSUME NEW s, NEW n \in Nat
  PROVE  \E g : PartsJoined(g, s, n)
<1> DEFINE P == {k \in Nat : \E g : PartsJoined(g, s, k)}
<1>1. 0 \in P
  <2>1. PartsJoined([i \in 1 .. 0 |-> i], s, 0)
    BY DEF PartsJoined
  <2> QED BY <2>1
<1>2. ASSUME NEW k \in Nat, k \in P
      PROVE  k + 1 \in P
  <2>1. PICK g : PartsJoined(g, s, k)
    BY <1>2
  <2> DEFINE h == [i \in 1 .. k + 1 |->
                     IF i <= k THEN g[i] ELSE IF i = 1 THEN s[i] ELSE g[k] \o s[i]]
  <2>2. ASSUME NEW i \in 1 .. k + 1
        PROVE  h[i] = IF i = 1 THEN s[i] ELSE h[i - 1] \o s[i]
    <3>1. CASE i <= k
      <4> i \in 1 .. k
        BY <3>1
      <4> DEFINE e == [j \in 1 .. k |-> IF j = 1 THEN s[j] ELSE g[j - 1] \o s[j]]
      <4>a. g = e
        BY <2>1 DEF PartsJoined
      <4>b. e[i] = (IF i = 1 THEN s[i] ELSE g[i - 1] \o s[i])
        OBVIOUS
      <4>c. h[i] = g[i]
        BY <3>1
      <4> HIDE DEF e
      <4>1. h[i] = g[i] /\ g[i] = (IF i = 1 THEN s[i] ELSE g[i - 1] \o s[i])
        BY <4>a, <4>b, <4>c
      <4>2. i # 1 => i - 1 \in 1 .. k + 1 /\ i - 1 <= k
        BY <3>1
      <4>3. i # 1 => h[i - 1] = g[i - 1]
        BY <4>2
      <4> QED BY <4>1, <4>3
    <3>2. CASE i = k + 1
      <4>1. h[i] = IF i = 1 THEN s[i] ELSE g[k] \o s[i]
        BY <3>2
      <4>2. i # 1 => i - 1 \in 1 .. k + 1 /\ i - 1 <= k /\ i - 1 = k
        BY <3>2
      <4>3. i # 1 => h[i - 1] = g[k]
        BY <4>2
      <4> QED BY <4>1, <4>3
    <3> QED BY <3>1, <3>2
  <2>3. PartsJoined(h, s, k + 1)
    <3>1. h = [i \in 1 .. k + 1 |-> h[i]]
      OBVIOUS
    <3> HIDE DEF h
    <3>2. [i \in 1 .. k + 1 |-> h[i]]
            = [i \in 1 .. k + 1 |-> IF i = 1 THEN s[i] ELSE h[i - 1] \o s[i]]
      BY <2>2
    <3> QED BY <3>1, <3>2 DEF PartsJoined
  <2> QED BY <2>3
<1> HIDE DEF P
<1>3. n \in P
  BY <1>1, <1>2, Induct
<1> QED BY <1>3 DEF P

LEMMA FlattenIsPart ==
  ASSUME NEW s, Len(s) \in Nat, Len(s) # 0
  PROVE  \E g : PartsJoined(g, s, Len(s)) /\ FlattenSeq(s) = g[Len(s)]
<1> DEFINE g == CHOOSE g : g = [i \in 1 .. Len(s) |-> IF i = 1 THEN s[i] ELSE g[i - 1] \o s[i]]
<1>1. FlattenSeq(s) = g[Len(s)]
  BY DEF FlattenSeq
<1>2. PartsJoined(g, s, Len(s))
  BY PartsExist DEF PartsJoined
<1> QED BY <1>1, <1>2

LEMMA JoinHas ==
  ASSUME NEW S, NEW u \in Seq(S), NEW v \in Seq(S)
  PROVE  u \o v \in Seq(S) /\ ToSet(u \o v) = ToSet(u) \cup ToSet(v)
<1>1. ToSet(u \o v) \subseteq ToSet(u) \cup ToSet(v)
  BY DEF ToSet
<1>2. ASSUME NEW i \in 1 .. Len(u)
      PROVE  u[i] \in ToSet(u \o v)
  <2>1. i \in 1 .. Len(u \o v) /\ (u \o v)[i] = u[i]
    OBVIOUS
  <2> QED BY <2>1 DEF ToSet
<1>3. ASSUME NEW i \in 1 .. Len(v)
      PROVE  v[i] \in ToSet(u \o v)
  <2>1. Len(u) + i \in 1 .. Len(u \o v) /\ (u \o v)[Len(u) + i] = v[i]
    OBVIOUS
  <2> QED BY <2>1 DEF ToSet
<1>4. ToSet(u) \subseteq ToSet(u \o v) /\ ToSet(v) \subseteq ToSet(u \o v)
  <2>1. DOMAIN u = 1 .. Len(u) /\ DOMAIN v = 1 .. Len(v)
    OBVIOUS
  <2>2. /\ ToSet(u) = {u[i] : i \in 1 .. Len(u)}
        /\ ToSet(v) = {v[i] : i \in 1 .. Len(v)}
    BY <2>1 DEF ToSet
  <2> DEFINE all == ToSet(u \o v)
  <2>3. (\A i \in 1 .. Len(u) : u[i] \in all) /\ (\A i \in 1 .. Len(v) : v[i] \in all)
    BY <1>2, <1>3
  <2> HIDE DEF all
  <2>4. ToSet(u) \subseteq all /\ ToSet(v) \subseteq all
    BY <2>2, <2>3
  <2> QED BY <2>4 DEF all
<1> QED BY <1>1, <1>4

(* The flattened list has what the lists in it have.                       *)
LEMMA FlattenHas ==
  ASSUME NEW S, NEW s \in Seq(Seq(S))
  PROVE  /\ FlattenSeq(s) \in Seq(S)
         /\ \A x \in ToSet(FlattenSeq(s)) : \E i \in 1 .. Len(s) : x \in ToSet(s[i])
         /\ \A i \in 1 .. Len(s) : ToSet(s[i]) \subseteq ToSet(FlattenSeq(s))
<1>1. CASE Len(s) = 0
  <2>1. FlattenSeq(s) = s /\ s = <<>>
    BY <1>1 DEF FlattenSeq
  <2> QED BY <2>1 DEF ToSet
<1>2. CASE Len(s) # 0
  <2> DEFINE m == Len(s)
  <2>0. m \in Nat /\ m # 0
    BY <1>2
  <2>1. PICK g : PartsJoined(g, s, m) /\ FlattenSeq(s) = g[m]
    BY <1>2, FlattenIsPart
  <2>2. \A i \in 1 .. m : s[i] \in Seq(S)
    OBVIOUS
  <2> DEFINE Good(v, k) == /\ v \in Seq(S)
                           /\ \A x \in ToSet(v) : \E i \in 1 .. m : x \in ToSet(s[i])
                           /\ \A i \in 1 .. k : ToSet(s[i]) \subseteq ToSet(v)
             P == {k \in Nat : k \in 1 .. m => Good(g[k], k)}
  <2> HIDE DEF m
  <2>3. 0 \in P
    OBVIOUS
  <2>4. ASSUME NEW k \in Nat, k < m, k \in P
        PROVE  k + 1 \in P
    <3>1. k + 1 \in 1 .. m
      BY <2>0, <2>4
    <3>2. CASE k = 0
      <4>1. g[k + 1] = s[k + 1]
        BY <2>1, <3>1, <3>2 DEF PartsJoined
      <4>2. \A i \in 1 .. k + 1 : i = k + 1
        BY <3>2
      <4>3. s[k + 1] \in Seq(S)
        BY <2>2, <3>1
      <4> HIDE DEF P
      <4>4. Good(s[k + 1], k + 1)
        BY <3>1, <4>2, <4>3
      <4> QED BY <4>1, <4>4 DEF P
    <3>3. CASE k # 0
      <4> DEFINE e == [j \in 1 .. m |-> IF j = 1 THEN s[j] ELSE g[j - 1] \o s[j]]
      <4>a. g = e
        BY <2>1 DEF PartsJoined
      <4>b. e[k + 1] = g[(k + 1) - 1] \o s[k + 1]
        <5>1. k + 1 # 1
          BY <3>3
        <5>2. e[k + 1] = IF k + 1 = 1 THEN s[k + 1] ELSE g[(k + 1) - 1] \o s[k + 1]
          BY <3>1
        <5> QED BY <5>1, <5>2
      <4>c. (k + 1) - 1 = k
        OBVIOUS
      <4>1. g[k + 1] = g[k] \o s[k + 1]
        BY <4>a, <4>b, <4>c
      <4>2. Good(g[k], k)
        BY <2>0, <2>4, <3>3
      <4>3. ToSet(g[k + 1]) = ToSet(g[k]) \cup ToSet(s[k + 1]) /\ g[k + 1] \in Seq(S)
        BY <2>2, <3>1, <4>1, <4>2, JoinHas
      <4>5. \A i \in 1 .. k + 1 : i \in 1 .. k \/ i = k + 1
        OBVIOUS
      <4> HIDE DEF P
      <4>4. Good(g[k + 1], k + 1)
        BY <2>2, <3>1, <4>2, <4>3, <4>5
      <4> QED BY <4>4 DEF P
    <3> QED BY <3>2, <3>3
  <2> HIDE DEF P
  <2>5. m \in P
    <3>1. \A n \in 0 .. m : n \in P
      BY <2>0, <2>3, <2>4, Induct
    <3> QED BY <2>0, <3>1
  <2>6. Good(g[m], m)
    BY <2>0, <2>5 DEF P
  <2> QED BY <2>1, <2>6 DEF m
<1> QED BY <1>1, <1>2

(* The list of a finite set has its members.                               *)
LEMMA ListOfSet ==
  ASSUME NEW S, IsFiniteSet(S)
  PROVE  SetToSeq(S) \in Seq(S) /\ ToSet(SetToSeq(S)) = S
<1>1. PICK f : f \in Bijection(1 .. Cardinality(S), S)
  BY FS_CardinalityType DEF ExistsBijection
<1>2. f \in [1 .. Cardinality(S) -> S] /\ IsInjective(f)
  <2>1. f \in [1 .. Cardinality(S) -> S]
    BY <1>1, Fun_BijectionProperties
  <2>2. \A a, b \in 1 .. Cardinality(S) : f[a] = f[b] => a = b
    BY <1>1, Fun_BijectionProperties
  <2>3. DOMAIN f = 1 .. Cardinality(S)
    BY <2>1
  <2> QED BY <2>1, <2>2, <2>3 DEF IsInjective
<1> DEFINE D == 1 .. Cardinality(S)
           q == SetToSeq(S)
<1>3. q \in [D -> S] /\ IsInjective(q)
  BY <1>2 DEF SetToSeq
<1>4. Cardinality(S) \in Nat
  BY FS_CardinalityType
<1> HIDE DEF q
<1>5. Cardinality(D) = Cardinality(S)
  BY <1>4, FS_Interval
<1>6. q \in Injection(D, S)
  <2>1. \A a, b \in D : q[a] = q[b] => a = b
    BY <1>3 DEF IsInjective
  <2> QED BY <1>3, <2>1, Fun_IsInj
<1>7. q \in Surjection(D, S)
  <2> HIDE DEF D
  <2>1. Cardinality(D) = Cardinality(S) <=> q \in Surjection(D, S)
    BY <1>6, FS_Injection
  <2> QED BY <1>5, <2>1
<1>8. \A x \in S : \E i \in D : q[i] = x
  <2> HIDE DEF D
  <2> QED BY <1>7, Fun_SurjectionProperties
<1>9. q \in Seq(S) /\ DOMAIN q = D
  BY <1>3, <1>4
<1> QED BY <1>3, <1>8, <1>9 DEF ToSet, q
=============================================================================
