----------------------------- MODULE MCSnapshots -----------------------------
(***************************************************************************)
(* Two deployments of a device, the first run by two workers at once.      *)
(***************************************************************************)
EXTENDS Snapshots, TLC

CONSTANTS k1, k2, a1, a2, b1, x, v1, v2

MCDeploymentOf == [a \in Attempt |-> IF a = b1 THEN k2 ELSE k1]

(* Keys do not depend on each other: one will do, to begin with no line.   *)
MCInitial == [z \in Key |-> NoLine]

MCPushes == [k \in Deployment |-> [z \in Key |-> IF k = k1 THEN v1 ELSE v2]]

Workers == Permutations({a1, a2})
=============================================================================
