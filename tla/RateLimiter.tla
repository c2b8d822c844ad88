----------------------------- MODULE RateLimiter -----------------------------
(***************************************************************************)
(* The sliding-window rate limiter of the API                              *)
(* (api/middleware/rate_limiter.py), over redis.                           *)
(*                                                                         *)
(* Every replica reads its clock, then has redis trim, extend and count    *)
(* the key's sorted set in one transaction: readings reach redis at most   *)
(* Lag late, of clocks that differ or of replicas that are slow, and need  *)
(* not come in order.  A member of the set is a reading: two requests of   *)
(* one reading are one member.  RATE_LIMIT_WINDOW is taken to equal        *)
(* STRICT_WINDOW, as it does by default.                                   *)
(***************************************************************************)
EXTENDS Integers, FiniteSets

CONSTANTS
  Key,          \* pairs of a client's address and a path
  StrictKey,    \* those whose path starts with one of STRICT_PATHS
  Limit, StrictLimit,
  Window,       \* seconds
  Lag,          \* how late a reading may reach redis
  MaxNow        \* bound on the time

ASSUME LimitAssumption ==
  /\ StrictKey \subseteq Key
  /\ Limit \in Nat /\ StrictLimit \in Nat
ASSUME TimeAssumption == Window \in Nat /\ Lag \in 0 .. Window /\ MaxNow \in Nat

Methods == {"GET", "POST"}
Tier == {"default", "strict"}

VARIABLES
  now,        \* the time
  window,     \* window[k]: the sorted set under k
  expiry,     \* expiry[k]: when redis drops k
  admitted    \* ghost: admitted[k][t]: readings of what the check let through

limiter == <<now, window, expiry, admitted>>

LimiterInit ==
  /\ now = 0
  /\ window = [k \in Key |-> {}]
  /\ expiry = [k \in Key |-> 0]
  /\ admitted = [k \in Key |-> [t \in Tier |-> {}]]

TierOf(k, method) == IF k \in StrictKey /\ method = "POST" THEN "strict" ELSE "default"

LimitOf(tier) == IF tier = "strict" THEN StrictLimit ELSE Limit

Reading == {r \in 0 .. now : now - Lag <= r}

(* What redis has under k.                                                 *)
Live(k) == IF now < expiry[k] THEN window[k] ELSE {}

(* ZREMRANGEBYSCORE, ZADD.                                                 *)
Slid(k, r) == {s \in Live(k) : s > r - Window} \cup {r}

Wrong_Allowed_BeforeAdding(k, tier, r) ==
  Cardinality(Slid(k, r) \ {r}) <= LimitOf(tier)

Allowed(k, tier, r) == Cardinality(Slid(k, r)) <= LimitOf(tier)

(* The transaction of a request for k.  What is refused counts as well.    *)
Count(k, r) ==
  /\ window' = [window EXCEPT ![k] = Slid(k, r)]
  /\ expiry' = [expiry EXCEPT ![k] = now + Window]
  /\ now' = now

(* dispatch goes on to the handler ...                                     *)
Admit(k, method) ==
  \E r \in Reading :
    /\ Allowed(k, TierOf(k, method), r)
    /\ Count(k, r)
    /\ admitted' = [admitted EXCEPT ![k][TierOf(k, method)] = @ \cup {r}]

(* ... or answers 429 ...                                                  *)
Refuse(k, method) ==
  \E r \in Reading :
    /\ ~ Allowed(k, TierOf(k, method), r)
    /\ Count(k, r)
    /\ UNCHANGED admitted

(* ... or goes on because of an error, before or after redis has counted.  *)
FailOpen(k) ==
  /\ \/ \E r \in Reading : Count(k, r)
     \/ UNCHANGED <<now, window, expiry>>
  /\ UNCHANGED admitted

Tick ==
  /\ now < MaxNow
  /\ now' = now + 1
  /\ UNCHANGED <<window, expiry, admitted>>

LimiterNext ==
  \/ \E k \in Key, method \in Methods : Admit(k, method) \/ Refuse(k, method)
  \/ \E k \in Key : FailOpen(k)
  \/ Tick

LimiterSpec == LimiterInit /\ [][LimiterNext]_limiter

-----------------------------------------------------------------------------
LimiterTypeOK ==
  /\ now \in Nat
  /\ window \in [Key -> SUBSET Nat] /\ \A k \in Key : IsFiniteSet(window[k])
  /\ expiry \in [Key -> Nat]
  /\ admitted \in [Key -> [Tier -> SUBSET Nat]]

(* However requests of a client race to redis: in no stretch of the window *)
(* less the lag does the check let more of a tier through to a path than   *)
(* the tier's limit, counted by their readings                             *)
(* (api/middleware/rate_limiter.py:100-110).  It lets through fewer where  *)
(* requests of the other tier or refused ones filled the window.           *)
WindowBound ==
  \A k \in Key, t \in Tier, from \in -1 .. MaxNow :
    Cardinality({r \in admitted[k][t] : from < r /\ r <= from + Window - Lag})
      <= LimitOf(t)
=============================================================================
