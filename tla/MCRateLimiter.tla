---------------------------- MODULE MCRateLimiter ----------------------------
(***************************************************************************)
(* Two paths, one of them strict, and clocks that are up to a second late: *)
(* readings reach redis out of order.                                      *)
(***************************************************************************)
EXTENDS RateLimiter, TLC

CONSTANTS k1, k2
=============================================================================
