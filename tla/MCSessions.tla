----------------------------- MODULE MCSessions -----------------------------
(* Small instances of Sessions for TLC. *)
EXTENDS Sessions, TLC

\* Requests, tokens and families are interchangeable.
Symmetry == Permutations(Req) \cup Permutations(Token) \cup Permutations(Family)
=============================================================================
