--------------------------- MODULE SessionLedger ---------------------------
(***************************************************************************)
(* What the refresh-token store promises about sessions, whatever engine   *)
(* keeps it and however requests interleave: a session is opened once, for *)
(* one account, with a deadline and a sign-in time that never change; its  *)
(* level can only rise; once it has ended it never comes back.             *)
(***************************************************************************)
EXTENDS Naturals

CONSTANTS User, Family, None

VARIABLE ledger     \* ledger[f]: the entry of session f

Unborn == [state |-> "unborn", user |-> None, deadline |-> 0, auth |-> 0, level |-> 0]
Ended == [Unborn EXCEPT !.state = "ended"]

LiveEntry == [state: {"live"}, user: User, deadline: Nat, auth: Nat, level: {1, 2}]

LedgerInit == ledger = [f \in Family |-> Unborn]

\* A sign-in or a password change opens a session.
Open(f) ==
  /\ ledger[f] = Unborn
  /\ ledger'[f] \in LiveEntry
  /\ ledger' = [ledger EXCEPT ![f] = ledger'[f]]

\* A step-up raises the level; a plain refresh is invisible here.
Raise(f) ==
  /\ ledger[f].state = "live"
  /\ ledger' = [ledger EXCEPT ![f].level = 2]

\* A sign-out, a replay or an account change ends any number of live sessions.
End(S) ==
  /\ \A f \in S : ledger[f].state = "live"
  /\ ledger' = [f \in Family |-> IF f \in S THEN Ended ELSE ledger[f]]

LedgerNext ==
  \/ \E f \in Family : Open(f) \/ Raise(f)
  \/ \E S \in SUBSET Family : End(S)

LedgerSpec == LedgerInit /\ [][LedgerNext]_ledger
=============================================================================
