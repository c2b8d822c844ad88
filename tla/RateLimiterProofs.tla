-------------------------- MODULE RateLimiterProofs --------------------------
(***************************************************************************)
(* WindowBound of RateLimiter, for any keys, limits, window and lag.       *)
(*                                                                         *)
(* What the check admitted is either still in the sorted set or older than *)
(* the window (Kept): so the admitted readings of a stretch of the window  *)
(* less the lag are all in the set when the last of them is counted.  What *)
(* EXPIRE drops is old enough because a key lives for a window after its   *)
(* last reading (Aged).                                                    *)
(***************************************************************************)
EXTENDS RateLimiter, FiniteSetTheorems, TLAPS

Aged == \A k \in Key : \A r \in window[k] : r + Window <= expiry[k] /\ r <= now

Kept ==
  \A k \in Key, t \in Tier : \A r \in admitted[k][t] :
    r \in window[k] \/ r + Window <= now

IInv == LimiterTypeOK /\ Aged /\ Kept /\ WindowBound

LEMMA SlidFacts ==
  ASSUME LimiterTypeOK, NEW k \in Key, NEW r \in Reading
  PROVE  /\ r \in 0 .. now /\ now - Lag <= r
         /\ Slid(k, r) \subseteq Nat
         /\ IsFiniteSet(Slid(k, r))
         /\ r \in Slid(k, r)
         /\ \A s \in Slid(k, r) : s = r \/ s \in window[k]
<1>1. r \in 0 .. now /\ now - Lag <= r /\ r \in Nat
  BY DEF Reading, LimiterTypeOK
<1>2. Live(k) \subseteq window[k] /\ window[k] \subseteq Nat /\ IsFiniteSet(window[k])
  BY DEF Live, LimiterTypeOK
<1>3. {s \in Live(k) : s > r - Window} \subseteq window[k]
  BY <1>2
<1>4. IsFiniteSet({s \in Live(k) : s > r - Window})
  BY <1>2, <1>3, FS_Subset
<1>5. IsFiniteSet(Slid(k, r))
  BY <1>4, FS_AddElement DEF Slid
<1> QED BY <1>1, <1>2, <1>3, <1>5 DEF Slid

(* What a transaction leaves of the types and ages.                        *)
LEMMA CountKeeps ==
  ASSUME LimiterTypeOK, Aged, NEW k \in Key, NEW r \in Reading, Count(k, r)
  PROVE  /\ now' = now
         /\ window' \in [Key -> SUBSET Nat] /\ \A q \in Key : IsFiniteSet(window'[q])
         /\ expiry' \in [Key -> Nat]
         /\ Aged'
         /\ \A q \in Key : \A s \in window[q] : s \in window'[q] \/ s + Window <= now
         /\ r \in window'[k]
<1> USE TimeAssumption
<1>1. /\ now' = now /\ now \in Nat
      /\ window' = [window EXCEPT ![k] = Slid(k, r)]
      /\ expiry' = [expiry EXCEPT ![k] = now + Window]
  BY DEF Count, LimiterTypeOK
<1>2. /\ window \in [Key -> SUBSET Nat] /\ expiry \in [Key -> Nat]
      /\ \A q \in Key : IsFiniteSet(window[q])
  BY DEF LimiterTypeOK
<1>3. /\ r \in 0 .. now
      /\ Slid(k, r) \subseteq Nat /\ IsFiniteSet(Slid(k, r)) /\ r \in Slid(k, r)
      /\ \A s \in Slid(k, r) : s = r \/ s \in window[k]
  BY SlidFacts
<1>4. window' \in [Key -> SUBSET Nat] /\ \A q \in Key : IsFiniteSet(window'[q])
  BY <1>1, <1>2, <1>3
<1>5. expiry' \in [Key -> Nat]
  BY <1>1, <1>2
<1>6. Aged'
  <2> SUFFICES ASSUME NEW q \in Key, NEW s \in window'[q]
               PROVE  s + Window <= expiry'[q] /\ s <= now'
    BY DEF Aged
  <2>1. CASE q # k
    BY <2>1, <1>1, <1>2 DEF Aged
  <2>2. CASE q = k
    <3>1. s \in Slid(k, r) /\ expiry'[q] = now + Window
      BY <2>2, <1>1, <1>2
    <3>2. s \in Nat /\ s <= now
      BY <3>1, <1>1, <1>3 DEF Aged
    <3> QED BY <3>1, <3>2, <1>1
  <2> QED BY <2>1, <2>2
<1>7. ASSUME NEW q \in Key, NEW s \in window[q]
      PROVE  s \in window'[q] \/ s + Window <= now
  <2>1. CASE q # k
    BY <2>1, <1>1, <1>2
  <2>2. CASE q = k /\ now < expiry[k] /\ s > r - Window
    BY <2>2, <1>1, <1>2 DEF Slid, Live
  <2>3. CASE q = k /\ ~ (now < expiry[k] /\ s > r - Window)
    <3>1. s + Window <= expiry[k] /\ s \in Nat /\ expiry[k] \in Nat
      BY <2>3, <1>2 DEF Aged
    <3> QED BY <3>1, <2>3, <1>1, <1>3
  <2> QED BY <2>1, <2>2, <2>3
<1>8. r \in window'[k]
  BY <1>1, <1>2, <1>3
<1> QED BY <1>1, <1>4, <1>5, <1>6, <1>7, <1>8

(* A step that admits nothing, and forgets only what is old, is harmless.  *)
LEMMA NothingAdmitted ==
  ASSUME IInv, UNCHANGED admitted,
         now' \in Nat, now <= now',
         window' \in [Key -> SUBSET Nat], \A q \in Key : IsFiniteSet(window'[q]),
         expiry' \in [Key -> Nat], Aged',
         \A q \in Key : \A s \in window[q] : s \in window'[q] \/ s + Window <= now
  PROVE  IInv'
<1>1. LimiterTypeOK'
  BY DEF IInv, LimiterTypeOK
<1>2. Kept'
  <2> SUFFICES ASSUME NEW k \in Key, NEW t \in Tier, NEW r \in admitted[k][t]
               PROVE  r \in window'[k] \/ r + Window <= now'
    BY DEF Kept
  <2>1. r \in Nat /\ now \in Nat
    BY DEF IInv, LimiterTypeOK
  <2>2. r \in window[k] \/ r + Window <= now
    BY DEF IInv, Kept
  <2>3. r \in window'[k] \/ r + Window <= now
    BY <2>2
  <2> QED BY <2>1, <2>3, TimeAssumption
<1>3. WindowBound'
  BY DEF IInv, WindowBound
<1> QED BY <1>1, <1>2, <1>3 DEF IInv

(* The argument of the bound: the readings of a stretch that ends with the *)
(* one admitted are in the set that was counted.                           *)
LEMMA AdmitBounded ==
  ASSUME IInv, NEW k \in Key, NEW t \in Tier, NEW r \in Reading,
         Allowed(k, t, r), NEW from \in -1 .. MaxNow,
         from < r, r <= from + Window - Lag
  PROVE  Cardinality({x \in admitted[k][t] \cup {r} :
                        from < x /\ x <= from + Window - Lag}) <= LimitOf(t)
<1> DEFINE S == {x \in admitted[k][t] \cup {r} : from < x /\ x <= from + Window - Lag}
<1>1. /\ r \in 0 .. now /\ now - Lag <= r /\ now \in Nat
      /\ IsFiniteSet(Slid(k, r)) /\ r \in Slid(k, r)
  BY SlidFacts DEF IInv, LimiterTypeOK
<1>2. S \subseteq Slid(k, r)
  <2> SUFFICES ASSUME NEW x \in admitted[k][t],
                      from < x, x <= from + Window - Lag
               PROVE  x \in Slid(k, r)
    BY <1>1
  <2>1. x \in Nat /\ Window \in Nat /\ Lag \in Nat /\ from \in Int /\ MaxNow \in Nat
    BY TimeAssumption DEF IInv, LimiterTypeOK
  <2>2. ~ (x + Window <= now)
    BY <2>1, <1>1
  <2>3. x \in window[k]
    BY <2>2 DEF IInv, Kept
  <2>4. x + Window <= expiry[k] /\ expiry[k] \in Nat
    BY <2>3 DEF IInv, Aged, LimiterTypeOK
  <2>5. now < expiry[k]
    BY <2>1, <2>2, <2>4, <1>1
  <2>6. x > r - Window
    BY <2>1, <1>1
  <2> QED BY <2>3, <2>5, <2>6 DEF Slid, Live
<1>3. /\ IsFiniteSet(S) /\ Cardinality(S) <= Cardinality(Slid(k, r))
      /\ Cardinality(S) \in Nat /\ Cardinality(Slid(k, r)) \in Nat
  BY <1>1, <1>2, FS_Subset, FS_CardinalityType
<1>4. Cardinality(Slid(k, r)) <= LimitOf(t) /\ LimitOf(t) \in Nat
  BY LimitAssumption DEF Allowed, LimitOf
<1>5. Cardinality(S) <= LimitOf(t)
  BY <1>3, <1>4
<1> QED BY <1>5

LEMMA AdmitKeeps ==
  ASSUME IInv, NEW k \in Key, NEW method \in Methods, Admit(k, method)
  PROVE  IInv'
<1> DEFINE t == TierOf(k, method)
<1>1. t \in Tier
  BY DEF TierOf, Tier
<1>2. PICK r \in Reading :
        /\ Allowed(k, t, r) /\ Count(k, r)
        /\ admitted' = [admitted EXCEPT ![k][t] = @ \cup {r}]
  BY DEF Admit
<1> HIDE DEF t
<1>3. LimiterTypeOK /\ Aged /\ Kept /\ WindowBound
  BY DEF IInv
<1>4. /\ now' = now
      /\ window' \in [Key -> SUBSET Nat] /\ \A q \in Key : IsFiniteSet(window'[q])
      /\ expiry' \in [Key -> Nat]
      /\ Aged'
      /\ \A q \in Key : \A s \in window[q] : s \in window'[q] \/ s + Window <= now
      /\ r \in window'[k]
  BY <1>2, <1>3, CountKeeps
<1>5. r \in Nat /\ now \in Nat
  BY <1>3, SlidFacts DEF LimiterTypeOK
<1>6. /\ admitted \in [Key -> [Tier -> SUBSET Nat]]
      /\ admitted' \in [Key -> [Tier -> SUBSET Nat]]
  BY <1>1, <1>2, <1>3, <1>5 DEF LimiterTypeOK
<1>7. \A q \in Key, u \in Tier :
        admitted'[q][u] = IF q = k /\ u = t THEN admitted[q][u] \cup {r} ELSE admitted[q][u]
  BY <1>1, <1>2, <1>6
<1>8. LimiterTypeOK'
  BY <1>4, <1>5, <1>6 DEF LimiterTypeOK
<1>9. Kept'
  <2> SUFFICES ASSUME NEW q \in Key, NEW u \in Tier, NEW x \in admitted'[q][u]
               PROVE  x \in window'[q] \/ x + Window <= now'
    BY DEF Kept
  <2>1. CASE x \in admitted[q][u]
    <3>1. x \in window[q] \/ x + Window <= now
      BY <2>1, <1>3 DEF Kept
    <3> QED BY <3>1, <1>4
  <2>2. CASE x \notin admitted[q][u]
    <3>1. q = k /\ x = r
      BY <2>2, <1>7
    <3> QED BY <3>1, <1>4
  <2> QED BY <2>1, <2>2
<1>10. WindowBound'
  <2> SUFFICES ASSUME NEW q \in Key, NEW u \in Tier, NEW from \in -1 .. MaxNow
               PROVE  Cardinality({x \in admitted'[q][u] :
                                     from < x /\ x <= from + Window - Lag}) <= LimitOf(u)
    BY DEF WindowBound
  <2>1. Cardinality({x \in admitted[q][u] : from < x /\ x <= from + Window - Lag})
          <= LimitOf(u)
    BY <1>3 DEF WindowBound
  <2>2. CASE q = k /\ u = t /\ from < r /\ r <= from + Window - Lag
    <3>1. admitted'[q][u] = admitted[k][t] \cup {r}
      BY <2>2, <1>7
    <3>2. Cardinality({x \in admitted[k][t] \cup {r} :
                         from < x /\ x <= from + Window - Lag}) <= LimitOf(t)
      BY <2>2, <1>1, <1>2, AdmitBounded
    <3> QED BY <2>2, <3>1, <3>2
  <2>3. CASE ~ (q = k /\ u = t /\ from < r /\ r <= from + Window - Lag)
    <3>1. {x \in admitted'[q][u] : from < x /\ x <= from + Window - Lag}
            = {x \in admitted[q][u] : from < x /\ x <= from + Window - Lag}
      BY <2>3, <1>7
    <3> QED BY <3>1, <2>1
  <2> QED BY <2>2, <2>3
<1> QED BY <1>4, <1>8, <1>9, <1>10 DEF IInv

LEMMA RefuseKeeps ==
  ASSUME IInv, NEW k \in Key, NEW method \in Methods, Refuse(k, method)
  PROVE  IInv'
<1>1. PICK r \in Reading : Count(k, r) /\ UNCHANGED admitted
  BY DEF Refuse
<1>2. now \in Nat /\ LimiterTypeOK /\ Aged
  BY DEF IInv, LimiterTypeOK
<1> QED BY <1>1, <1>2, CountKeeps, NothingAdmitted

LEMMA FailOpenKeeps ==
  ASSUME IInv, NEW k \in Key, FailOpen(k)
  PROVE  IInv'
<1>1. now \in Nat /\ LimiterTypeOK /\ Aged
  BY DEF IInv, LimiterTypeOK
<1>2. UNCHANGED admitted
  BY DEF FailOpen
<1>3. CASE \E r \in Reading : Count(k, r)
  <2>1. PICK r \in Reading : Count(k, r)
    BY <1>3
  <2> QED BY <2>1, <1>1, <1>2, CountKeeps, NothingAdmitted
<1>4. CASE UNCHANGED <<now, window, expiry>>
  BY <1>2, <1>4 DEF IInv, LimiterTypeOK, Aged, Kept, WindowBound
<1> QED BY <1>3, <1>4 DEF FailOpen

LEMMA TickKeeps ==
  ASSUME IInv, Tick
  PROVE  IInv'
<1>1. /\ now \in Nat /\ now' = now + 1 /\ UNCHANGED <<window, expiry, admitted>>
      /\ LimiterTypeOK /\ Aged
  BY DEF IInv, LimiterTypeOK, Tick
<1>2. Aged'
  <2> SUFFICES ASSUME NEW k \in Key, NEW r \in window[k]
               PROVE  r + Window <= expiry[k] /\ r <= now + 1
    BY <1>1 DEF Aged
  <2>1. r \in Nat /\ r <= now /\ r + Window <= expiry[k]
    BY <1>1 DEF Aged, LimiterTypeOK
  <2> QED BY <2>1, <1>1
<1>3. /\ now' \in Nat /\ now <= now'
      /\ window' \in [Key -> SUBSET Nat] /\ \A q \in Key : IsFiniteSet(window'[q])
      /\ expiry' \in [Key -> Nat]
      /\ \A q \in Key : \A s \in window[q] : s \in window'[q]
  BY <1>1 DEF LimiterTypeOK
<1> QED BY <1>1, <1>2, <1>3, NothingAdmitted

LEMMA InitHolds == LimiterInit => IInv
<1> SUFFICES ASSUME LimiterInit PROVE IInv
  OBVIOUS
<1>1. LimiterTypeOK /\ Aged /\ Kept
  BY FS_EmptySet DEF LimiterInit, LimiterTypeOK, Aged, Kept
<1>2. WindowBound
  <2> SUFFICES ASSUME NEW k \in Key, NEW t \in Tier, NEW from \in -1 .. MaxNow
               PROVE  Cardinality({r \in admitted[k][t] :
                                     from < r /\ r <= from + Window - Lag}) <= LimitOf(t)
    BY DEF WindowBound
  <2>1. {r \in admitted[k][t] : from < r /\ r <= from + Window - Lag} = {}
    BY DEF LimiterInit
  <2>2. Cardinality({}) = 0
    BY FS_EmptySet
  <2>3. LimitOf(t) \in Nat
    BY LimitAssumption DEF LimitOf
  <2> QED BY <2>1, <2>2, <2>3
<1> QED BY <1>1, <1>2 DEF IInv

(* The strengthened invariant, of which the bound is a part.               *)
THEOREM Invariance == LimiterSpec => []IInv
<1>1. LimiterInit => IInv
  BY InitHolds
<1>2. IInv /\ [LimiterNext]_limiter => IInv'
  <2> SUFFICES ASSUME IInv, [LimiterNext]_limiter PROVE IInv'
    OBVIOUS
  <2>1. CASE LimiterNext
    BY <2>1, AdmitKeeps, RefuseKeeps, FailOpenKeeps, TickKeeps DEF LimiterNext
  <2>2. CASE UNCHANGED limiter
    BY <2>2 DEF limiter, IInv, LimiterTypeOK, Aged, Kept, WindowBound
  <2> QED BY <2>1, <2>2
<1> QED BY <1>1, <1>2, PTL DEF LimiterSpec

(* The check of _sliding_window_check bounds what each tier gets, whatever *)
(* the limits, the window and the lag of readings                          *)
(* (api/middleware/rate_limiter.py:100-110).                               *)
THEOREM Bounded == LimiterSpec => []WindowBound
<1>1. IInv => WindowBound
  BY DEF IInv
<1> QED BY <1>1, Invariance, PTL
=============================================================================
