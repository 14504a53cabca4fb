------------------------------ MODULE MCPimLock ------------------------------
(* Instances of PimLock for TLC: two calls of one process, which compete   *)
(* like those of two, and one of another.                                  *)
EXTENDS PimLock, TLC

CONSTANTS c1, c2, c3, p1, p2

TwoInOne == (c1 :> p1) @@ (c2 :> p1) @@ (c3 :> p2)
=============================================================================
