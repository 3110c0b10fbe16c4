----------------------------- MODULE MCAccounts -----------------------------
(* An account and the tokens made for it, for TLC: its own and its managers' changes
   (Accounts), and what access tokens say and open (Tokens). They share no state here, so
   a behaviour is one of the first or of the second.                                    *)
EXTENDS Accounts

CONSTANTS
  Caller, Project, Key, Legacy, Ordinary, Reserved, RoleLists, Answers, MaxAllowedRoles,
  MaxCustomClaims, MaxKeyAdminLifetime, TokenTTL, MaxFlight, MaxEdits, MaxSigned

VARIABLES
  part,   \* which of the two runs
  clock, roles, dropped, edits, keys, signed, caller

T == INSTANCE Tokens WITH
  Req <- Caller, TTL <- TokenTTL, MaxTokens <- MaxSigned,
  now <- clock, account <- roles, tokens <- signed, req <- caller

signing == <<clock, roles, dropped, edits, keys, signed, caller>>

MCInit ==
  /\ part \in {"account", "tokens"}
  /\ Init /\ T!Init
  /\ part = "tokens" => ~guest

MCNext ==
  \/ part = "account" /\ Next /\ UNCHANGED <<part, signing>>
  \/ part = "tokens" /\ T!Next /\ UNCHANGED <<part, vars>>

MCSpec == MCInit /\ [][MCNext]_<<part, vars, signing>>

MCOwnPatches ==
  [profile |-> {[a |-> 1]}, password |-> {None}, email |-> {[b |-> 1]}]
MCManagedPatches == {[user |-> [a |-> None], app |-> [a |-> 1]]}

\* A hook that adds a claim, picks a role, or tries to set what auth sets.
MCAnswers ==
  {<<>>, "role" :> "editor", ("role" :> "editor") @@ ("plan" :> "gold"), "role" :> "service",
   "scope" :> "service", "keyId" :> "k", "auth_time" :> 1, "actor" :> "x"}

MCRoleLists == {None, {"user", "editor"}, {"user", "service"}}

\* Requests, and keys of operators, are interchangeable.
Symmetry == Permutations(Req) \cup Permutations(Key \ Legacy)

\* Each gate takes its kind of token only (Tokens).
EachGateItsToken == T!EachGateItsToken

\* A hook picks among the account's roles and sets nothing of auth's (Tokens).
HookOnlyPicksARole == T!HookOnlyPicksARole

\* A role that was taken back is in no token for long (Tokens).
TakenBackGrantsExpire == T!TakenBackGrantsExpire

=============================================================================
