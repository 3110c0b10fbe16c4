------------------------------ MODULE MCPools -------------------------------
(* TLC instances of Pools.                                                 *)
EXTENDS Pools, TLC

\* Requests and pools are interchangeable.
Symmetry == Permutations(Req) \cup Permutations(Store)
=============================================================================
