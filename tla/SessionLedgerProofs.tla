------------------------ MODULE SessionLedgerProofs ------------------------
(***************************************************************************)
(* Sessions implements SessionLedger, and its revocations are total where  *)
(* the locks make them so.                                                 *)
(***************************************************************************)
EXTENDS SessionsProofs

-----------------------------------------------------------------------------
(* What the ledger shows of a family.                                      *)

LEMMA ViewLive ==
  ASSUME NEW tk, NEW op, NEW f \in Family, f \in DOMAIN op,
         NEW t \in LiveIn(tk, f), \A x \in LiveIn(tk, f) : x = t
  PROVE  View(tk, op)[f] = Entry(tk[t])
<1>1. (CHOOSE x \in LiveIn(tk, f) : TRUE) = t
  OBVIOUS
<1> QED BY <1>1 DEF View

LEMMA ViewNotLive ==
  ASSUME NEW tk, NEW op, NEW f \in Family
  PROVE  /\ f \notin DOMAIN op => View(tk, op)[f] = NoEntry("unborn")
         /\ f \in DOMAIN op /\ LiveIn(tk, f) = {} => View(tk, op)[f] = NoEntry("ended")
BY DEF View

LEMMA ViewIsFunction ==
  /\ LedgerView = [f \in Family |-> LedgerView[f]]
  /\ LedgerView' = [f \in Family |-> LedgerView'[f]]
BY DEF LedgerView, View

\* Tables in which a family has at most one live token, and only once opened.
Sound(tk, op) ==
  /\ \A t, u \in DOMAIN tk :
       ~tk[t].revoked /\ ~tk[u].revoked /\ tk[t].family = tk[u].family => t = u
  /\ \A t \in DOMAIN tk : tk[t].family \in DOMAIN op

LEMMA SoundTables ==
  /\ IInv => Sound(tokens, opened)
  /\ IInv' => Sound(tokens', opened')
BY DEF IInv, OneLivePerFamily, NeverOutlivesSignIn, IsLive, Stored, Sound

\* In sound tables every family shows its one live token, or none.
LEMMA ViewCases ==
  ASSUME NEW tk, NEW op, Sound(tk, op), NEW f \in Family
  PROVE  /\ \A t \in LiveIn(tk, f) : f \in DOMAIN op /\ View(tk, op)[f] = Entry(tk[t])
         /\ f \notin DOMAIN op => View(tk, op)[f] = NoEntry("unborn")
         /\ f \in DOMAIN op /\ LiveIn(tk, f) = {} => View(tk, op)[f] = NoEntry("ended")
<1>1. ASSUME NEW t \in LiveIn(tk, f) PROVE f \in DOMAIN op /\ View(tk, op)[f] = Entry(tk[t])
  <2>1. f \in DOMAIN op
    BY <1>1 DEF LiveIn, Sound
  <2>2. \A x \in LiveIn(tk, f) : x = t
    BY <1>1 DEF LiveIn, Sound
  <2> QED BY <2>1, <2>2, ViewLive
<1> QED BY <1>1, ViewNotLive

\* Two pairs of tables that agree on a family show the same entry of it.
LEMMA SameEntry ==
  ASSUME NEW tk, NEW op, NEW tk2, NEW op2, Sound(tk, op), Sound(tk2, op2),
         NEW f \in Family, f \in DOMAIN op <=> f \in DOMAIN op2,
         \A t \in LiveIn(tk, f) : \E s \in LiveIn(tk2, f) : Entry(tk2[s]) = Entry(tk[t]),
         \A s \in LiveIn(tk2, f) : \E t \in LiveIn(tk, f) : TRUE
  PROVE  View(tk2, op2)[f] = View(tk, op)[f]
<1>1. CASE LiveIn(tk, f) = {}
  <2>1. LiveIn(tk2, f) = {}
    BY <1>1
  <2> QED BY <1>1, <2>1, ViewNotLive
<1>2. CASE LiveIn(tk, f) # {}
  <2>1. PICK t \in LiveIn(tk, f) : TRUE
    BY <1>2
  <2>2. PICK s \in LiveIn(tk2, f) : Entry(tk2[s]) = Entry(tk[t])
    BY <2>1
  <2> QED BY <2>1, <2>2, ViewCases
<1> QED BY <1>1, <1>2

\* A step that leaves both tables alone is invisible.
LEMMA InvisibleStep ==
  ASSUME UNCHANGED <<tokens, opened>>
  PROVE  UNCHANGED LedgerView
BY DEF LedgerView, View, LiveIn
-----------------------------------------------------------------------------
(* Every visible step of the store is a step of the ledger.                *)

\* The first token of a session opens its entry.
LEMMA OpenStep ==
  ASSUME IInv, IInv', NEW r \in Req, StartSession(r)
  PROVE  Ledger!LedgerNext
<1>1. /\ TypeOK /\ ReqOK(req[r]) /\ req[r] \in ReqState /\ req[r].pc = "start"
      /\ Sound(tokens, opened) /\ Sound(tokens', opened')
  BY SoundTables DEF IInv, RequestsOK, StartSession, TypeOK
<1>2. PICK t \in Token, f \in Family, u \in User :
        /\ t = req[r].succ /\ f = req[r].fam /\ u = req[r].user
        /\ t \notin Stored /\ f \notin DOMAIN opened
  BY <1>1 DEF ReqOK, Opening, TypeOK
<1>3. PICK row \in TokenRow :
        row = [family |-> f, user |-> u, expiry |-> req[r].expiry, auth |-> req[r].auth,
               aal |-> req[r].aal, revoked |-> FALSE]
  BY <1>1 DEF TokenRow, ReqState
<1>4. row.family = f /\ ~row.revoked /\ Entry(row) \in Ledger!LiveEntry
  BY <1>3 DEF TokenRow, Entry, Ledger!LiveEntry, AAL, Tick
<1>5. /\ DOMAIN tokens' = Stored \cup {t} /\ tokens'[t] = row
      /\ \A x \in Stored : tokens'[x] = tokens[x]
      /\ DOMAIN opened' = DOMAIN opened \cup {f}
  BY <1>1, <1>2, <1>3 DEF StartSession, InsertRow, Stored, TypeOK
<1>6. LedgerView[f] = Ledger!Unborn
  BY <1>2, ViewNotLive DEF LedgerView, NoEntry, Ledger!Unborn
<1>7. LedgerView'[f] = Entry(row)
  <2>1. t \in LiveIn(tokens', f)
    BY <1>4, <1>5 DEF LiveIn
  <2> QED BY <1>1, <1>5, <2>1, ViewCases DEF LedgerView
<1>8. ASSUME NEW g \in Family, g # f PROVE LedgerView'[g] = LedgerView[g]
  <2>1. LiveIn(tokens', g) = LiveIn(tokens, g)
    BY <1>2, <1>4, <1>5, <1>8 DEF LiveIn, Stored
  <2>2. \A x \in LiveIn(tokens, g) : tokens'[x] = tokens[x]
    BY <1>5 DEF LiveIn, Stored
  <2>3. View(tokens', opened')[g] = View(tokens, opened)[g]
    BY <1>1, <1>5, <1>8, <2>1, <2>2, SameEntry
  <2> QED BY <2>3 DEF LedgerView
<1>9. LedgerView' = [LedgerView EXCEPT ![f] = LedgerView'[f]]
  BY <1>8, ViewIsFunction
<1> QED BY <1>4, <1>6, <1>7, <1>9 DEF Ledger!LedgerNext, Ledger!Open

\* A refresh is invisible; a step-up raises the level of its session.
LEMMA RaiseStep ==
  ASSUME IInv, IInv', NEW r \in Req, RotateCommit(r)
  PROVE  Ledger!LedgerNext \/ UNCHANGED LedgerView
<1>1. /\ TypeOK /\ ReqOK(req[r]) /\ req[r] \in ReqState /\ req[r].pc = "rotating"
      /\ Sound(tokens, opened) /\ Sound(tokens', opened')
      /\ opened' = opened
  BY SoundTables DEF IInv, RequestsOK, RotateCommit, TypeOK
<1>2. PICK t \in Stored, s \in Token :
        t = req[r].tok /\ s = req[r].succ /\ s \notin Stored /\ ~tokens[t].revoked
  BY <1>1 DEF ReqOK, TypeOK
<1>3. tokens[t] \in TokenRow
  BY <1>1, <1>2 DEF TypeOK
<1>4. PICK f \in Family : f = tokens[t].family
  BY <1>3 DEF TokenRow
<1>5. PICK row \in TokenRow : row = Successor(r)
  BY <1>2, <1>3 DEF Successor, TokenRow, AAL
<1>6. row.family = f /\ ~row.revoked
  BY <1>2, <1>3, <1>4, <1>5 DEF Successor, TokenRow
<1>7. \/ Entry(row) = Entry(tokens[t])
      \/ Entry(row) = [Entry(tokens[t]) EXCEPT !.level = 2]
  BY <1>2, <1>3, <1>5 DEF Successor, TokenRow, Entry
<1>8. /\ DOMAIN tokens' = Stored \cup {s} /\ tokens'[s] = row /\ tokens'[t].revoked
      /\ \A x \in Stored : x # t => tokens'[x] = tokens[x]
  BY <1>1, <1>2, <1>3, <1>5 DEF RotateCommit, RevokeRows, Stored, TypeOK, TokenRow
<1>9. LedgerView[f] = Entry(tokens[t])
  BY <1>1, <1>2, <1>4, ViewCases DEF LedgerView, LiveIn, Stored
<1>10. LedgerView'[f] = Entry(row)
  <2>1. s \in LiveIn(tokens', f)
    BY <1>6, <1>8 DEF LiveIn
  <2> QED BY <1>1, <1>8, <2>1, ViewCases DEF LedgerView
<1>11. ASSUME NEW g \in Family, g # f PROVE LedgerView'[g] = LedgerView[g]
  <2>1. LiveIn(tokens', g) = LiveIn(tokens, g)
    BY <1>2, <1>4, <1>6, <1>8, <1>11 DEF LiveIn, Stored
  <2>2. \A x \in LiveIn(tokens, g) : tokens'[x] = tokens[x]
    BY <1>4, <1>8, <1>11 DEF LiveIn, Stored
  <2>3. View(tokens', opened')[g] = View(tokens, opened)[g]
    BY <1>1, <2>1, <2>2, SameEntry
  <2> QED BY <2>3 DEF LedgerView
<1>12. CASE Entry(row) = Entry(tokens[t])
  BY <1>9, <1>10, <1>11, <1>12 DEF LedgerView, View
<1>13. CASE Entry(row) = [Entry(tokens[t]) EXCEPT !.level = 2]
  <2>1. LedgerView[f].state = "live"
    BY <1>9 DEF Entry
  <2>2. LedgerView' = [LedgerView EXCEPT ![f].level = 2]
    BY <1>9, <1>10, <1>11, <1>13, ViewIsFunction
  <2> QED BY <2>1, <2>2 DEF Ledger!LedgerNext, Ledger!Raise
<1> QED BY <1>7, <1>12, <1>13

\* Revoking or deleting rows ends sessions and changes no other.
LEMMA EndStep ==
  ASSUME IInv, IInv', opened' = opened, DOMAIN tokens' \subseteq Stored,
         \A t \in DOMAIN tokens' :
           /\ tokens'[t].revoked \/ tokens'[t] = tokens[t]
  PROVE  Ledger!LedgerNext
<1>1. TypeOK /\ Sound(tokens, opened) /\ Sound(tokens', opened')
  BY SoundTables DEF IInv
<1>2. \A f \in Family : LiveIn(tokens', f) \subseteq LiveIn(tokens, f)
  BY DEF LiveIn, Stored
<1>3. PICK S : S = {f \in Family : LiveIn(tokens, f) # {} /\ LiveIn(tokens', f) = {}}
  OBVIOUS
<1>4. ASSUME NEW f \in S
      PROVE  LedgerView[f].state = "live" /\ LedgerView'[f] = Ledger!Ended
  <2>1. PICK t \in LiveIn(tokens, f) : TRUE
    BY <1>3
  <2>2. f \in DOMAIN opened /\ LedgerView[f] = Entry(tokens[t])
    BY <1>1, <1>3, <2>1, ViewCases DEF LedgerView
  <2>3. LedgerView'[f] = NoEntry("ended")
    BY <1>1, <1>3, <2>2, ViewCases DEF LedgerView
  <2>4. NoEntry("ended") = Ledger!Ended
    BY DEF NoEntry, Ledger!Ended, Ledger!Unborn
  <2> QED BY <2>2, <2>3, <2>4 DEF Entry
<1>5. ASSUME NEW f \in Family \ S PROVE LedgerView'[f] = LedgerView[f]
  <2>1. \A x \in LiveIn(tokens', f) : tokens'[x] = tokens[x]
    BY DEF LiveIn
  <2>2. LiveIn(tokens, f) = LiveIn(tokens', f)
    BY <1>1, <1>2, <1>3, <1>5 DEF LiveIn, Sound
  <2>3. View(tokens', opened')[f] = View(tokens, opened)[f]
    BY <1>1, <2>1, <2>2, SameEntry
  <2> QED BY <2>3 DEF LedgerView
<1>6. LedgerView' = [f \in Family |-> IF f \in S THEN Ledger!Ended ELSE LedgerView[f]]
  BY <1>4, <1>5 DEF LedgerView, View
<1> QED BY <1>3, <1>4, <1>6 DEF Ledger!LedgerNext, Ledger!End

\* The tables change in these ways only.
LEMMA LedgerStep ==
  ASSUME IInv, IInv', [Next]_vars
  PROVE  Ledger!LedgerNext \/ UNCHANGED LedgerView
<1>1. CASE UNCHANGED <<tokens, opened>>
  BY <1>1, InvisibleStep
<1>2. ASSUME NEW r \in Req, Step(r), ~UNCHANGED <<tokens, opened>>
      PROVE  Ledger!LedgerNext \/ UNCHANGED LedgerView
  <2>1. StartSession(r) \/ RotateCommit(r) \/ RevokeCommit(r)
    BY <1>2 DEF Step, StartFails, RotateSpend, RotateRefuse, RotateNotFound, Reject, RevokeOthers
  <2>2. CASE StartSession(r)
    BY <2>2, OpenStep
  <2>3. CASE RotateCommit(r)
    BY <2>3, RaiseStep
  <2>4. CASE RevokeCommit(r)
    <3>1. opened' = opened /\ tokens' = RevokeRows(Reaches(req[r]))
      BY <2>4 DEF RevokeCommit
    <3>2. /\ DOMAIN tokens' \subseteq Stored
          /\ \A t \in DOMAIN tokens' : tokens'[t].revoked \/ tokens'[t] = tokens[t]
      BY <3>1 DEF RevokeRows, IInv, TypeOK, TokenRow
    <3> QED BY <3>1, <3>2, EndStep
  <2> QED BY <2>1, <2>2, <2>3, <2>4
<1>3. ASSUME NEW r \in Req, Begin(r) \/ Abort(r) PROVE UNCHANGED <<tokens, opened>>
  BY <1>3 DEF Begin, Abort, SignIn, Refresh, RefreshPreviewed, StepUp, RevokeUser, MarkVerified,
              ApplyRoleChange, ResetMFA, LogoutOthers, ChangePassword
<1>4. ASSUME NEW t \in Token, LogoutLocal(t) PROVE Ledger!LedgerNext
  <2>1. opened' = opened /\ tokens' = RevokeRows({t})
    BY <1>4 DEF LogoutLocal
  <2>2. /\ DOMAIN tokens' \subseteq Stored
        /\ \A x \in DOMAIN tokens' : tokens'[x].revoked \/ tokens'[x] = tokens[x]
    BY <2>1 DEF RevokeRows, IInv, TypeOK, TokenRow
  <2> QED BY <2>1, <2>2, EndStep
<1>5. ASSUME NEW u \in User, DeleteUser(u) PROVE Ledger!LedgerNext
  BY <1>5, EndStep DEF DeleteUser
<1>6. ASSUME NEW u \in User, NEW ok \in BOOLEAN, EditAccount(u, ok) PROVE UNCHANGED <<tokens, opened>>
  BY <1>6 DEF EditAccount
<1>7. CASE Tock \/ UNCHANGED vars
  BY <1>7, <1>1 DEF Tock, vars
<1> QED
  BY <1>1, <1>2, <1>3, <1>4, <1>5, <1>6, <1>7 DEF Next

LEMMA LedgerStart == Init => Ledger!LedgerInit
<1> SUFFICES ASSUME Init PROVE Ledger!LedgerInit
  OBVIOUS
<1>1. \A f \in Family : f \notin DOMAIN opened
  BY DEF Init
<1>2. LedgerView = [f \in Family |-> Ledger!Unborn]
  BY <1>1 DEF LedgerView, View, NoEntry, Ledger!Unborn
<1> QED BY <1>2 DEF Ledger!LedgerInit

\* The refresh-token tables implement the session ledger under both engines: a
\* session is opened once, keeps its account, deadline and sign-in time, never loses
\* its level and never comes back after it ended.
THEOREM ImplementsLedger == Spec => KeepsLedger
<1>1. IInv /\ IInv' /\ [Next]_vars => [Ledger!LedgerNext]_LedgerView
  BY LedgerStep
<1> QED
  BY <1>1, LedgerStart, Invariant, PTL DEF Spec, KeepsLedger, Ledger!LedgerSpec
-----------------------------------------------------------------------------
(* Revocations.                                                            *)

\* A role change (ApplyRoleChange) or an MFA reset (ResetMFA) ends every session of
\* its account under both engines, rotations in flight included: while it holds the
\* account FOR UPDATE no successor can be stored (SnapshotComplete).
THEOREM LockedRevocation == Spec => LockedRevocationIsTotal
<1> DEFINE Total == \A r \in Req :
             RevokeCommit(r) /\ req[r].op \in {"role", "mfaReset"}
               => \A t \in DOMAIN tokens' :
                    tokens'[t].user = req[r].user => tokens'[t].revoked
<1>1. IInv /\ [Next]_vars => [Total]_vars
  <2> SUFFICES ASSUME IInv, NEW r \in Req, RevokeCommit(r),
                      req[r].op \in {"role", "mfaReset"},
                      NEW t \in DOMAIN tokens', tokens'[t].user = req[r].user
               PROVE  tokens'[t].revoked
    OBVIOUS
  <2>1. TypeOK /\ req[r].pc = "revoking" /\ tokens' = RevokeRows(Reaches(req[r]))
    BY DEF IInv, RevokeCommit
  <2>2. t \in Stored /\ tokens[t] \in TokenRow
    BY <2>1 DEF RevokeRows, TypeOK
  <2>3. tokens[t].user = req[r].user
    BY <2>1, <2>2 DEF RevokeRows, TokenRow
  <2>4. tokens[t].revoked \/ t \in Reaches(req[r])
    BY <2>1, <2>2, <2>3, SessionsAssumption
       DEF Reaches, PgReaches, MySQLReaches, Matching, InScope, IInv, SnapshotComplete
  <2> QED BY <2>1, <2>2, <2>4 DEF RevokeRows, TokenRow
<1> QED
  BY <1>1, Invariant, PTL DEF Spec, LockedRevocationIsTotal
=============================================================================
