------------------------------- MODULE MCMfa -------------------------------
(* Small instances of Mfa for TLC. *)
EXTENDS Mfa, TLC

\* Requests, sessions, factors and challenges are interchangeable.
Symmetry ==
  Permutations(Req) \cup Permutations(Family) \cup Permutations(Factor)
    \cup Permutations(Challenge)
=============================================================================
