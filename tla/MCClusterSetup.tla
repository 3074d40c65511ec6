--------------------------- MODULE MCClusterSetup ---------------------------
(* A deployment of two nodes that may grow to three, with the load generator *)
(* and two faults.  The monitoring VM is left out: like the load generator   *)
(* it can only make an apply fail.                                           *)
EXTENDS ClusterSetup

CONSTANTS d1, d2, d3

ThreeNodes == {d1, d2, d3}
TwoNodes == {d1, d2}
LoadgenOnly == {"loadgen"}
=============================================================================
