--------------------------- MODULE MCProviderFlow ---------------------------
(* TLC instances of ProviderFlow.                                          *)
EXTENDS ProviderFlow, TLC

\* Everything but the clock is interchangeable.
Symmetry ==
  Permutations(Browser) \cup Permutations(User) \cup Permutations(Flow) \cup Permutations(Req)
=============================================================================
