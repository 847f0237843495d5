--------------------------- MODULE MCTaintTracking ---------------------------
(***************************************************************************)
(* Instances of TaintTracking for TLC: two clients, which have a shim      *)
(* each or share the proxy.                                                *)
(***************************************************************************)
EXTENDS TaintTracking, TLC

CONSTANTS c1, c2, l1, l2

ShimsOrProxy    == {(c1 :> l1) @@ (c2 :> l2), (c1 :> l1) @@ (c2 :> l1)}
Interchangeable == Permutations(Files)
=============================================================================
