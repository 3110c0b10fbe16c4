---------------------------- MODULE MCIdentities ----------------------------
(* TLC instances of Identities.                                            *)
EXTENDS Identities, TLC

CONSTANTS alice, bob,        \* people
          a1, a2, b,             \* addresses; a1 and a2 differ in case only
          ka, kb,                \* their mailboxes
          sa, sb                 \* provider accounts

MCKeyOf == (a1 :> ka) @@ (a2 :> ka) @@ (b :> kb)

MCOwnerOf == (ka :> alice) @@ (kb :> bob) @@ (sa :> alice) @@ (sb :> bob)

Symmetry == Permutations(User) \cup Permutations(Req)

=============================================================================
