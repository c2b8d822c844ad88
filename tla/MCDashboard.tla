----------------------------- MODULE MCDashboard -----------------------------
(***************************************************************************)
(* One session and two devices; a limit that two calls reach.              *)
(***************************************************************************)
EXTENDS Dashboard, TLC

CONSTANTS s1, d1, d2
=============================================================================
