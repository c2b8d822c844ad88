--------------------------- MODULE MCBatchDeploy ---------------------------
(***************************************************************************)
(* Instances of BatchDeploy for TLC: the devices, and the device_ids of    *)
(* the request.                                                            *)
(***************************************************************************)
EXTENDS BatchDeploy

CONSTANTS d1, d2, d3

OneDevice == <<d1>>
TwoDevices == <<d1, d2>>
ThreeDevices == <<d1, d2, d3>>
NamedTwice == <<d1, d1>>
=============================================================================
