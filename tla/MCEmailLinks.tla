---------------------------- MODULE MCEmailLinks ----------------------------
(* Small instances of EmailLinks for TLC. *)
EXTENDS EmailLinks, TLC

\* Requests, links and passwords are interchangeable.
Symmetry == Permutations(Req) \cup Permutations(Link) \cup Permutations(Password)
=============================================================================
