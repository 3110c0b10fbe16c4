--------------------------- MODULE SessionsProofs ---------------------------
(***************************************************************************)
(* Proofs about Sessions, for any number of accounts, sessions, tokens and *)
(* concurrent requests and for both engines.                               *)
(*                                                                         *)
(* IInv is inductive.  Most actions only replace the record of one request *)
(* (RequestStep covers them); the seven that change a table have a lemma   *)
(* each.                                                                   *)
(***************************************************************************)
EXTENDS Sessions, TLAPS

-----------------------------------------------------------------------------
(* Steps that only replace the record of one request.                      *)

\* The idle record is well formed and claims nothing.
LEMMA IdleOK ==
  ASSUME TypeOK
  PROVE  /\ Idle \in ReqState
         /\ ReqOK(Idle)
         /\ \A q \in ReqState : Compatible(Idle, q) /\ Compatible(q, Idle)
<1>1. Idle \in ReqState
  BY DEF Idle, ReqState, PCs, Ops, AAL, Tick
<1>2. None \notin minted
  BY SessionsAssumption DEF TypeOK
<1>3. ReqOK(Idle)
  BY <1>2 DEF Idle, ReqOK, Opening
<1>4. ASSUME NEW q \in ReqState PROVE Compatible(Idle, q) /\ Compatible(q, Idle)
  BY DEF Idle, Compatible, Opening
<1> QED
  BY <1>1, <1>3, <1>4

\* A request may move to any well-formed record that fits the tables and the other
\* requests, as long as the tables stay as they are.
LEMMA RequestStep ==
  ASSUME IInv, NEW r \in Req, NEW s \in ReqState, Become(r, s),
         UNCHANGED <<users, tokens, now, minted, opened, parent>>,
         signIns \subseteq signIns', signIns' \subseteq User \X Nat,
         ReqOK(s)',
         \A q \in Req : q # r => Compatible(s, req[q]) /\ Compatible(req[q], s),
         Engine = "postgres" /\ s.pc = "revoking" /\ s.op \in {"role", "mfaReset"}
           => \A t \in Stored : tokens[t].user = s.user /\ ~tokens[t].revoked => t \in s.snap
  PROVE  IInv'
<1> USE DEF IInv
<1>1. /\ req' \in [Req -> ReqState]
      /\ req'[r] = s
      /\ \A q \in Req : q # r => req'[q] = req[q]
  BY DEF Become, TypeOK
<1>2. Stored' = Stored
  BY DEF Stored
<1>3. TypeOK'
  BY <1>1, <1>2 DEF TypeOK
<1>4. RequestsOK'
  <2> SUFFICES ASSUME NEW q \in Req PROVE ReqOK(req[q])'
    BY DEF RequestsOK
  <2>1. CASE q = r
    BY <2>1, <1>1, <1>2 DEF ReqOK, Opening
  <2>2. CASE q # r
    BY <2>2, <1>1, <1>2 DEF RequestsOK, ReqOK, Opening
  <2> QED BY <2>1, <2>2
<1>5. RequestsApart'
  BY <1>1 DEF RequestsApart, Compatible, Opening
<1>6. OneLivePerFamily' /\ NoFork' /\ SpentByRotation' /\ NeverOutlivesSignIn' /\ NoOrphanSession'
  BY <1>2 DEF OneLivePerFamily, NoFork, SpentByRotation, NeverOutlivesSignIn, NoOrphanSession, IsLive
<1>7. SignInTimeIsReal'
  BY <1>2 DEF SignInTimeIsReal
<1>8. SnapshotComplete'
  BY <1>1, <1>2 DEF SnapshotComplete
<1> QED BY <1>3, <1>4, <1>5, <1>6, <1>7, <1>8

\* A request that ends without touching a table.
LEMMA FinishStep ==
  ASSUME IInv, NEW r \in Req, Finish(r),
         UNCHANGED <<users, tokens, now, minted, opened, parent, signIns>>
  PROVE  IInv'
<1>1. TypeOK /\ \A q \in Req : req[q] \in ReqState
  BY DEF IInv, TypeOK
<1>2. Idle \in ReqState /\ ReqOK(Idle) /\ Idle.pc = "idle"
  BY <1>1, IdleOK DEF Idle
<1>3. ReqOK(Idle)'
  BY <1>2 DEF ReqOK, Opening, Stored
<1>4. \A q \in Req : Compatible(Idle, req[q]) /\ Compatible(req[q], Idle)
  BY <1>1, IdleOK
<1>5. Become(r, Idle) /\ signIns \subseteq signIns' /\ signIns' \subseteq User \X Nat
  BY <1>1 DEF Finish, TypeOK
<1> QED
  BY <1>2, <1>3, <1>4, <1>5, RequestStep

LEMMA SignInStep ==
  ASSUME IInv, NEW r \in Req, NEW u \in User, NEW t \in Token, NEW f \in Family,
         SignIn(r, u, t, f)
  PROVE  IInv'
<1>1. TypeOK /\ RequestsOK /\ now + TTL \in Nat /\ now \in Nat
  BY SessionsAssumption DEF IInv, TypeOK
<1>2. PICK s \in ReqState : s = [Idle EXCEPT !.pc = "start", !.op = "signIn", !.user = u,
                            !.succ = t, !.fam = f, !.auth = now,
                            !.expiry = now + TTL]
  BY <1>1 DEF ReqState, PCs, Ops, AAL, Tick, Idle
<1>3. s.pc = "start" /\ s.user = u /\ s.succ = t /\ s.fam = f /\ s.auth = now /\ s.expiry = now + TTL
  BY <1>2 DEF Idle
<1>4. Become(r, s) /\ UNCHANGED <<users, tokens, now, minted, opened, parent>>
  BY <1>2 DEF SignIn
<1>5. signIns \subseteq signIns' /\ signIns' \subseteq User \X Nat /\ <<u, now>> \in signIns'
  BY <1>1 DEF SignIn, TypeOK
<1>6. ReqOK(s)'
  BY <1>1, <1>3, <1>4, <1>5 DEF ReqOK, Opening, SignIn, FreshToken, FreshFamily
<1>7. \A q \in Req : q # r => Compatible(s, req[q]) /\ Compatible(req[q], s)
  BY <1>3 DEF Compatible, Opening, SignIn, FreshToken, FreshFamily
<1> QED
  BY <1>3, <1>4, <1>5, <1>6, <1>7, RequestStep

\* Every action below that only moves a request is an instance of this: it names
\* the record s and shows what s claims about the tables.
LEMMA RefreshStep ==
  ASSUME IInv, NEW r \in Req, NEW t \in Token, NEW s \in Token,
         Refresh(r, t, s) \/ RefreshPreviewed(r, t, s)
  PROVE  IInv'
<1>1. TypeOK /\ signIns' = signIns /\ UNCHANGED <<users, tokens, now, minted, opened, parent>>
  BY DEF IInv, Refresh, RefreshPreviewed
<1>2. CASE Refresh(r, t, s)
  <2>1. PICK n \in ReqState : n = [Idle EXCEPT !.pc = "rotate", !.op = "refresh", !.tok = t, !.succ = s]
    BY DEF ReqState, PCs, Ops, AAL, Tick, Idle
  <2>2. n.pc = "rotate" /\ n.op = "refresh" /\ n.tok = t /\ n.succ = s
    BY <2>1 DEF Idle
  <2>3. ReqOK(n)'
    BY <1>1, <1>2, <2>2 DEF ReqOK, Opening, Refresh, FreshToken
  <2>4. \A q \in Req : q # r => Compatible(n, req[q]) /\ Compatible(req[q], n)
    BY <1>2, <2>2 DEF Compatible, Opening, Refresh, FreshToken
  <2>5. Become(r, n)
    BY <1>2, <2>1 DEF Refresh
  <2> QED
    BY <1>1, <2>2, <2>3, <2>4, <2>5, RequestStep DEF TypeOK
<1>3. CASE RefreshPreviewed(r, t, s)
  <2>1. tokens[t].user \in User /\ users[tokens[t].user].rev \in Nat
    BY <1>1, <1>3 DEF RefreshPreviewed, IsLive, TypeOK, TokenRow, Account
  <2>2. PICK n \in ReqState :
          n = [Idle EXCEPT !.pc = "rotate", !.op = "refresh", !.tok = t, !.succ = s,
                            !.built = TRUE, !.claims = users[tokens[t].user].rev]
    BY <2>1 DEF ReqState, PCs, Ops, AAL, Tick, Idle
  <2>3. n.pc = "rotate" /\ n.op = "refresh" /\ n.tok = t /\ n.succ = s
    BY <2>2 DEF Idle
  <2>4. ReqOK(n)'
    BY <1>1, <1>3, <2>3 DEF ReqOK, Opening, RefreshPreviewed, FreshToken
  <2>5. \A q \in Req : q # r => Compatible(n, req[q]) /\ Compatible(req[q], n)
    BY <1>3, <2>3 DEF Compatible, Opening, RefreshPreviewed, FreshToken
  <2>6. Become(r, n)
    BY <1>3, <2>2 DEF RefreshPreviewed
  <2> QED
    BY <1>1, <2>3, <2>4, <2>5, <2>6, RequestStep DEF TypeOK
<1> QED
  BY <1>2, <1>3

\* A request that will only ask why its token is dead.
LEMMA RejectedStep ==
  ASSUME IInv, NEW r \in Req, NEW t \in Token \cup {None}, NEW op \in {"refresh", "stepUp"},
         Become(r, [Idle EXCEPT !.pc = "reject", !.op = op, !.tok = t]),
         UNCHANGED <<users, tokens, now, minted, opened, parent, signIns>>
  PROVE  IInv'
<1>1. TypeOK /\ None \notin minted
  BY SessionsAssumption DEF IInv, TypeOK
<1>2. PICK n \in ReqState : n = [Idle EXCEPT !.pc = "reject", !.op = op, !.tok = t]
  BY DEF ReqState, PCs, Ops, AAL, Tick, Idle
<1>3. n.pc = "reject" /\ n.succ = None
  BY <1>2 DEF Idle
<1>4. ReqOK(n)'
  BY <1>1, <1>3 DEF ReqOK, Opening
<1>5. \A q \in Req : q # r => Compatible(n, req[q]) /\ Compatible(req[q], n)
  BY <1>3 DEF Compatible, Opening
<1> QED
  BY <1>1, <1>2, <1>3, <1>4, <1>5, RequestStep DEF TypeOK

LEMMA StepUpStep ==
  ASSUME IInv, NEW r \in Req, NEW u \in User, NEW t \in Token, NEW s \in Token,
         StepUp(r, u, t, s)
  PROVE  IInv'
<1>1. TypeOK /\ UNCHANGED <<users, tokens, now, minted, opened, parent, signIns>>
  BY DEF IInv, StepUp
<1>2. CASE tokens[t].revoked
  BY <1>1, <1>2, RejectedStep DEF StepUp
<1>3. CASE ~tokens[t].revoked
  <2>1. PICK n \in ReqState : n = [Idle EXCEPT !.pc = "rotate", !.op = "stepUp", !.user = u,
                                      !.tok = t, !.succ = s]
    BY DEF ReqState, PCs, Ops, AAL, Tick, Idle
  <2>2. n.pc = "rotate" /\ n.op = "stepUp" /\ n.tok = t /\ n.succ = s
    BY <2>1 DEF Idle
  <2>3. ReqOK(n)'
    BY <1>1, <1>3, <2>2 DEF ReqOK, Opening, StepUp, FreshToken
  <2>4. \A q \in Req : q # r => Compatible(n, req[q]) /\ Compatible(req[q], n)
    BY <1>3, <2>2 DEF Compatible, Opening, StepUp, FreshToken
  <2>5. Become(r, n)
    BY <1>3, <2>1 DEF StepUp
  <2> QED
    BY <1>1, <2>2, <2>3, <2>4, <2>5, RequestStep DEF TypeOK
<1> QED
  BY <1>2, <1>3

LEMMA RotateSpendStep ==
  ASSUME IInv, NEW r \in Req, RotateSpend(r)
  PROVE  IInv'
<1>1. /\ TypeOK /\ ReqOK(req[r]) /\ req[r] \in ReqState /\ req[r].pc = "rotate"
      /\ UNCHANGED <<users, tokens, now, minted, opened, parent, signIns>>
  BY DEF IInv, RequestsOK, RotateSpend, TypeOK
<1>2. PICK t \in Stored : t = req[r].tok /\ ~tokens[t].revoked
  BY DEF RotateSpend, Rotatable, IsLive
<1>3. tokens[t].user \in User /\ users[tokens[t].user].rev \in Nat
  BY <1>1, <1>2 DEF TypeOK, TokenRow, Account
<1>4. PICK n \in ReqState :
        n = [req[r] EXCEPT !.pc = "rotating", !.user = tokens[t].user,
                              !.claims = IF req[r].built THEN @ ELSE users[tokens[t].user].rev,
                              !.read = users[tokens[t].user].rev]
  BY <1>1, <1>3 DEF ReqState, PCs
<1>5. /\ n.pc = "rotating" /\ n.op = req[r].op /\ n.tok = t /\ n.succ = req[r].succ
      /\ n.user = tokens[t].user /\ n.fam = req[r].fam
      /\ n.read = users[tokens[t].user].rev
      /\ n.claims = IF req[r].built THEN req[r].claims ELSE users[tokens[t].user].rev
  BY <1>1, <1>2, <1>4 DEF ReqState
<1>6. n.op = "refresh" => n.claims = n.read
  BY <1>2, <1>5 DEF RotateSpend, Accepts
<1>7. ReqOK(n)'
  BY <1>1, <1>2, <1>5, <1>6 DEF ReqOK, Opening, Stored
<1>8. \A q \in Req : q # r => Compatible(n, req[q]) /\ Compatible(req[q], n)
  BY <1>1, <1>2, <1>5 DEF IInv, RequestsApart, Compatible, Opening, RotateSpend, Locked
<1>9. Become(r, n)
  BY <1>2, <1>4 DEF RotateSpend
<1> QED
  BY <1>1, <1>5, <1>7, <1>8, <1>9, RequestStep DEF TypeOK

LEMMA RotateNotFoundStep ==
  ASSUME IInv, NEW r \in Req, RotateNotFound(r)
  PROVE  IInv'
<1>1. req[r].tok \in Token \cup {None}
  BY DEF IInv, TypeOK, ReqState
<1>2. CASE req[r].op = "refresh"
  <2>1. PICK t \in Token \cup {None} : t = req[r].tok
    BY <1>1
  <2> QED
    BY <1>2, <2>1, RejectedStep DEF RotateNotFound
<1>3. CASE req[r].op # "refresh"
  BY <1>3, FinishStep DEF RotateNotFound
<1> QED
  BY <1>2, <1>3

-----------------------------------------------------------------------------
(* Steps that start a revoking statement.                                  *)

\* Starting the statement of record q takes a snapshot that holds every matching
\* row; the tables stay as they are.
LEMMA BeginRevokeStep ==
  ASSUME IInv, NEW r \in Req, NEW q \in ReqState, BeginRevoke(r, q),
         UNCHANGED <<users, tokens, now, minted, opened, parent, signIns>>,
         q.op \in RevokeOps,
         q.op # "replay" => q.user \in User,
         q.succ \notin minted,
         \A o \in Req : o # r => (q.succ # None => q.succ # req[o].succ),
         q.op = "password" => /\ q.succ \in Token
                              /\ q.fam \in Family \ DOMAIN opened
                              /\ \A o \in Req : o # r => q.fam # req[o].fam
                              /\ q.auth # 0 => <<q.user, q.auth>> \in signIns
  PROVE  IInv'
<1>1. TypeOK /\ Matching(q) \subseteq minted /\ Matching(q) \subseteq Token
  BY DEF IInv, TypeOK, Matching
<1>2. PICK n \in ReqState :
        n = [q EXCEPT !.pc = "revoking",
                      !.snap = IF Engine = "postgres" THEN PgSnapshot(q) ELSE {}]
  BY <1>1 DEF ReqState, PCs, PgSnapshot
<1>3. /\ n.pc = "revoking" /\ n.op = q.op /\ n.user = q.user /\ n.succ = q.succ
      /\ n.fam = q.fam /\ n.auth = q.auth
  BY <1>2 DEF ReqState
<1>4. n.snap = IF Engine = "postgres" THEN Matching(q) ELSE {}
  BY <1>2 DEF ReqState, PgSnapshot
<1>8. n.snap \subseteq minted
  BY <1>1, <1>4
<1>5. ReqOK(n)'
  <2>1. n.op # "replay" => n.user \in User
    BY <1>3
  <2>2. n.op = "password" => /\ n.succ \in Token
                             /\ n.fam \in Family \ DOMAIN opened
                             /\ n.auth # 0 => <<n.user, n.auth>> \in signIns
    BY <1>3
  <2>3. n.succ \notin minted /\ n.op \in RevokeOps
    BY <1>3
  <2> QED
    BY <1>3, <1>8, <2>1, <2>2, <2>3 DEF ReqOK, Opening
<1>6. ASSUME NEW o \in Req, o # r PROVE Compatible(n, req[o]) /\ Compatible(req[o], n)
  <2>1. n.succ # None => n.succ # req[o].succ
    BY <1>3, <1>6
  <2>2. n.op = "password" => n.fam # req[o].fam
    BY <1>3, <1>6
  <2> QED
    BY <1>3, <2>1, <2>2, <1>1 DEF Compatible, Opening, TypeOK, ReqState
<1>7. n.op \in {"role", "mfaReset"} /\ Engine = "postgres"
        => \A t \in Stored : tokens[t].user = n.user /\ ~tokens[t].revoked => t \in n.snap
  BY <1>3, <1>4 DEF Matching, InScope
<1>9. Become(r, n)
  BY <1>2 DEF BeginRevoke
<1> QED
  BY <1>1, <1>5, <1>6, <1>7, <1>9, RequestStep DEF TypeOK

LEMMA RejectStep ==
  ASSUME IInv, NEW r \in Req, Reject(r)
  PROVE  IInv'
<1>1. CASE ~(req[r].tok \in Stored /\ tokens[req[r].tok].revoked)
  BY <1>1, FinishStep DEF Reject
<1>2. CASE req[r].tok \in Stored /\ tokens[req[r].tok].revoked
  <2>1. TypeOK /\ None \notin minted /\ tokens[req[r].tok].family \in Family
    BY <1>2, SessionsAssumption DEF IInv, TypeOK, TokenRow
  <2>2. PICK q \in ReqState : q = [Idle EXCEPT !.op = "replay", !.fam = tokens[req[r].tok].family]
    BY <2>1 DEF ReqState, PCs, Ops, RevokeOps, AAL, Tick, Idle
  <2>3. q.op = "replay" /\ q.succ = None
    BY <2>2 DEF Idle
  <2>4. BeginRevoke(r, q)
    BY <1>2, <2>2 DEF Reject
  <2> QED
    BY <2>1, <2>3, <2>4, BeginRevokeStep DEF Reject, RevokeOps
<1> QED
  BY <1>1, <1>2

\* The revocations that begin with the account alone.
LEMMA RevokeAccountStep ==
  ASSUME IInv, NEW r \in Req, NEW u \in User,
         \/ RevokeUser(r, u) \/ MarkVerified(r, u)
         \/ ApplyRoleChange(r, u) \/ ResetMFA(r, u)
  PROVE  IInv'
<1>1. PICK op \in {"global", "verify", "role", "mfaReset"} :
        BeginRevoke(r, [Idle EXCEPT !.op = op, !.user = u])
  BY DEF RevokeUser, MarkVerified, ApplyRoleChange, ResetMFA
<1>2. PICK q \in ReqState : q = [Idle EXCEPT !.op = op, !.user = u]
  BY DEF ReqState, PCs, Ops, RevokeOps, AAL, Tick, Idle
<1>3. q.op = op /\ q.succ = None /\ q.user = u
  BY <1>2 DEF Idle
<1>4. None \notin minted /\ UNCHANGED <<users, tokens, now, minted, opened, parent, signIns>>
  BY SessionsAssumption DEF IInv, TypeOK, RevokeUser, MarkVerified, ApplyRoleChange, ResetMFA
<1> QED
  BY <1>1, <1>2, <1>3, <1>4, BeginRevokeStep DEF RevokeOps

LEMMA LogoutOthersStep ==
  ASSUME IInv, NEW r \in Req, NEW u \in User, NEW t \in Token, LogoutOthers(r, u, t)
  PROVE  IInv'
<1>1. TypeOK /\ None \notin minted /\ tokens[t].family \in Family
  BY SessionsAssumption DEF IInv, TypeOK, LogoutOthers, IsLive, TokenRow
<1>2. PICK n \in ReqState : n = [Idle EXCEPT !.pc = "revoke", !.op = "others", !.user = u,
                            !.fam = tokens[t].family]
  BY <1>1 DEF ReqState, PCs, Ops, RevokeOps, AAL, Tick, Idle
<1>3. n.pc = "revoke" /\ n.op = "others" /\ n.user = u /\ n.succ = None
  BY <1>2 DEF Idle
<1>4. UNCHANGED <<users, tokens, now, minted, opened, parent, signIns>> /\ Become(r, n)
  BY <1>2 DEF LogoutOthers
<1>5. ReqOK(n)'
  BY <1>1, <1>3, <1>4 DEF ReqOK, Opening
<1>6. \A q \in Req : q # r => Compatible(n, req[q]) /\ Compatible(req[q], n)
  BY <1>3 DEF Compatible, Opening
<1> QED
  BY <1>1, <1>3, <1>4, <1>5, <1>6, RequestStep DEF TypeOK

LEMMA RevokeOthersStep ==
  ASSUME IInv, NEW r \in Req, RevokeOthers(r)
  PROVE  IInv'
<1>1. /\ ReqOK(req[r]) /\ req[r] \in ReqState /\ req[r].pc = "revoke"
      /\ \A o \in Req : o # r => Compatible(req[r], req[o])
      /\ UNCHANGED <<users, tokens, now, minted, opened, parent, signIns>>
  BY DEF IInv, RequestsOK, RequestsApart, RevokeOthers, TypeOK
<1>2. PICK q \in ReqState : q = req[r]
  BY <1>1
<1>3. q.op = "others" /\ q.user \in User /\ q.succ \notin minted
  BY <1>1, <1>2 DEF ReqOK
<1>4. \A o \in Req : o # r => (q.succ # None => q.succ # req[o].succ)
  BY <1>1, <1>2 DEF Compatible
<1>5. BeginRevoke(r, q)
  BY <1>2 DEF RevokeOthers
<1> QED
  BY <1>1, <1>3, <1>4, <1>5, BeginRevokeStep DEF RevokeOps

LEMMA ChangePasswordStep ==
  ASSUME IInv, NEW r \in Req, NEW u \in User, NEW c \in Token, NEW t \in Token,
         NEW f \in Family, ChangePassword(r, u, c, t, f)
  PROVE  IInv'
<1>1. /\ TypeOK /\ c \in Stored /\ tokens[c] \in TokenRow /\ tokens[c].user = u
      /\ UNCHANGED <<users, tokens, now, minted, opened, parent, signIns>>
  BY DEF IInv, TypeOK, ChangePassword
<1>2. PICK q \in ReqState :
        q = [Idle EXCEPT !.op = "password", !.user = u, !.succ = t, !.fam = f,
                                 !.auth = tokens[c].auth, !.aal = tokens[c].aal]
  BY <1>1 DEF ReqState, PCs, Ops, RevokeOps, AAL, Tick, Idle, TokenRow
<1>3. /\ q.op = "password" /\ q.user = u /\ q.succ = t /\ q.fam = f
      /\ q.auth = tokens[c].auth
  BY <1>2 DEF Idle
<1>4. q.auth # 0 => <<q.user, q.auth>> \in signIns
  BY <1>1, <1>3 DEF IInv, SignInTimeIsReal
<1>5. /\ t \notin minted /\ f \notin DOMAIN opened
      /\ \A o \in Req : req[o].succ # t /\ req[o].fam # f
  BY DEF ChangePassword, FreshToken, FreshFamily
<1>6. BeginRevoke(r, q)
  BY <1>2 DEF ChangePassword
<1> QED
  BY <1>1, <1>3, <1>4, <1>5, <1>6, BeginRevokeStep DEF RevokeOps
-----------------------------------------------------------------------------
(* Steps that change a table.                                              *)

\* The INSERT of a session's first token.
LEMMA StartSessionStep ==
  ASSUME IInv, NEW r \in Req, StartSession(r)
  PROVE  IInv'
<1> USE DEF IInv
<1>1. /\ TypeOK /\ ReqOK(req[r]) /\ req[r] \in ReqState /\ req[r].pc = "start"
      /\ UNCHANGED <<users, now, parent, signIns>>
  BY DEF RequestsOK, StartSession, TypeOK
<1>2. PICK t \in Token, f \in Family, u \in User :
        /\ t = req[r].succ /\ f = req[r].fam /\ u = req[r].user
        /\ t \notin minted /\ f \notin DOMAIN opened
  BY <1>1 DEF ReqOK, Opening
<1>3. PICK row \in TokenRow :
        row = [family |-> f, user |-> u, expiry |-> req[r].expiry, auth |-> req[r].auth,
               aal |-> req[r].aal, revoked |-> FALSE]
  BY <1>1 DEF TokenRow, ReqState
<1>4. /\ row.family = f /\ row.user = u /\ ~row.revoked
      /\ row.expiry <= now + TTL
      /\ row.auth # 0 => <<u, row.auth>> \in signIns
  BY <1>1, <1>2, <1>3 DEF ReqOK, Opening
<1>5. /\ Stored' = Stored \cup {t} /\ tokens' \in [Stored' -> TokenRow]
      /\ tokens'[t] = row /\ t \notin Stored
      /\ \A x \in Stored : tokens'[x] = tokens[x]
  BY <1>1, <1>2, <1>3 DEF StartSession, InsertRow, Stored, TypeOK
<1>6. /\ DOMAIN opened' = DOMAIN opened \cup {f} /\ opened' \in [DOMAIN opened' -> Nat]
      /\ opened'[f] = now /\ \A x \in DOMAIN opened : opened'[x] = opened[x]
  BY <1>1, <1>2 DEF StartSession, TypeOK
<1>7. /\ minted' = minted \cup {t} /\ req'[r] = Idle /\ req' \in [Req -> ReqState]
      /\ \A q \in Req : q # r => req'[q] = req[q]
  BY <1>1, <1>2, IdleOK DEF StartSession, Finish, Become, TypeOK
<1>8. TypeOK'
  BY <1>1, <1>5, <1>6, <1>7 DEF TypeOK
<1>9. RequestsOK'
  <2> SUFFICES ASSUME NEW q \in Req PROVE ReqOK(req[q])'
    BY DEF RequestsOK
  <2>1. CASE q = r
    BY <2>1, <1>7, <1>8, SessionsAssumption DEF ReqOK, Opening, Idle, TypeOK
  <2>2. CASE q # r
    <3>1. ReqOK(req[q]) /\ Compatible(req[r], req[q]) /\ req'[q] = req[q]
      BY <2>2, <1>7 DEF RequestsOK, RequestsApart
    <3>2. req[q].succ # t /\ (Opening(req[q]) => req[q].fam # f)
      BY <3>1, <1>1, <1>2, SessionsAssumption DEF Compatible, Opening
    <3> QED
      BY <3>1, <3>2, <1>1, <1>5, <1>6, <1>7 DEF ReqOK, Opening
  <2> QED BY <2>1, <2>2
<1>10. RequestsApart'
  BY <1>7 DEF RequestsApart, Compatible, Opening, Idle
<1>11. OneLivePerFamily'
  BY <1>2, <1>4, <1>5 DEF OneLivePerFamily, IsLive, NeverOutlivesSignIn
<1>12. SpentByRotation' /\ NoFork'
  BY <1>1, <1>2, <1>5, <1>7 DEF SpentByRotation, NoFork
<1>13. NeverOutlivesSignIn'
  BY <1>1, <1>2, <1>4, <1>5, <1>6 DEF NeverOutlivesSignIn
<1>14. SignInTimeIsReal' /\ NoOrphanSession'
  BY <1>1, <1>2, <1>4, <1>5 DEF SignInTimeIsReal, NoOrphanSession, StartSession
<1>15. SnapshotComplete'
  <2>1. \A q \in Req : req[q].pc = "revoking" /\ req[q].op \in {"role", "mfaReset"}
                         => req[q].user # u
    BY <1>2 DEF StartSession, InsertWaits, LocksUser
  <2>2. Idle.pc = "idle"
    BY DEF Idle
  <2> QED
    BY <2>1, <2>2, <1>4, <1>5, <1>7 DEF SnapshotComplete
<1> QED BY <1>8, <1>9, <1>10, <1>11, <1>12, <1>13, <1>14, <1>15

\* The INSERT of a successor, published together with the end of its predecessor.
LEMMA RotateCommitStep ==
  ASSUME IInv, NEW r \in Req, RotateCommit(r)
  PROVE  IInv'
<1> USE DEF IInv
<1>1. /\ TypeOK /\ ReqOK(req[r]) /\ req[r] \in ReqState /\ req[r].pc = "rotating"
      /\ UNCHANGED <<users, now, opened, signIns>>
  BY DEF RequestsOK, RotateCommit, TypeOK
<1>2. PICK t \in Stored, s \in Token :
        /\ t = req[r].tok /\ s = req[r].succ /\ s \notin minted
        /\ ~tokens[t].revoked /\ tokens[t].user = req[r].user
  BY <1>1 DEF ReqOK
<1>3. tokens[t] \in TokenRow /\ t \in Token /\ t \in minted /\ s \notin Stored /\ s # t
  BY <1>1, <1>2 DEF TypeOK
<1>4. PICK row \in TokenRow : row = Successor(r)
  BY <1>2, <1>3 DEF Successor, TokenRow, AAL
<1>5. /\ row.family = tokens[t].family /\ row.user = tokens[t].user /\ ~row.revoked
      /\ row.expiry = tokens[t].expiry /\ row.auth = tokens[t].auth
  BY <1>2, <1>3, <1>4 DEF Successor, TokenRow
<1>6. PICK old \in TokenRow : old = [tokens[t] EXCEPT !.revoked = TRUE]
  BY <1>3 DEF TokenRow
<1>7. /\ old.revoked /\ old.family = tokens[t].family /\ old.user = tokens[t].user
      /\ old.expiry = tokens[t].expiry /\ old.auth = tokens[t].auth
  BY <1>3, <1>6 DEF TokenRow
<1>8. /\ Stored' = Stored \cup {s} /\ tokens' \in [Stored' -> TokenRow]
      /\ tokens'[s] = row /\ tokens'[t] = old
      /\ \A x \in Stored : x # t => tokens'[x] = tokens[x]
  BY <1>1, <1>2, <1>3, <1>4, <1>6 DEF RotateCommit, RevokeRows, Stored, TypeOK
<1>9. /\ minted' = minted \cup {s} /\ req'[r] = Idle /\ req' \in [Req -> ReqState]
      /\ \A q \in Req : q # r => req'[q] = req[q]
      /\ parent' = [parent EXCEPT ![s] = t]
  BY <1>1, <1>2, IdleOK DEF RotateCommit, Finish, Become, TypeOK
<1>10. TypeOK'
  BY <1>1, <1>3, <1>8, <1>9 DEF TypeOK
<1>11. RequestsOK'
  <2> SUFFICES ASSUME NEW q \in Req PROVE ReqOK(req[q])'
    BY DEF RequestsOK
  <2>1. CASE q = r
    BY <2>1, <1>9, <1>10, SessionsAssumption DEF ReqOK, Opening, Idle, TypeOK
  <2>2. CASE q # r
    <3>1. ReqOK(req[q]) /\ Compatible(req[r], req[q]) /\ req'[q] = req[q]
      BY <2>2, <1>9 DEF RequestsOK, RequestsApart
    <3>2. req[q].succ # s /\ (req[q].pc = "rotating" => req[q].tok # t)
      BY <3>1, <1>1, <1>2, SessionsAssumption DEF Compatible
    <3> QED
      BY <3>1, <3>2, <1>1, <1>8, <1>9 DEF ReqOK, Opening
  <2> QED BY <2>1, <2>2
<1>12. RequestsApart'
  BY <1>9 DEF RequestsApart, Compatible, Opening, Idle
<1>13. OneLivePerFamily'
  BY <1>2, <1>5, <1>7, <1>8 DEF OneLivePerFamily, IsLive
<1>14. parent[s] = None /\ \A x \in Token : parent[x] # t
  BY <1>2, <1>3, SessionsAssumption DEF SpentByRotation
<1>15. SpentByRotation'
  BY <1>1, <1>2, <1>3, <1>7, <1>8, <1>9, <1>14 DEF SpentByRotation, TypeOK
<1>16. NoFork'
  BY <1>1, <1>3, <1>9, <1>14 DEF NoFork, TypeOK
<1>17. NeverOutlivesSignIn' /\ SignInTimeIsReal' /\ NoOrphanSession'
  BY <1>1, <1>2, <1>5, <1>7, <1>8 DEF NeverOutlivesSignIn, SignInTimeIsReal, NoOrphanSession
<1>18. SnapshotComplete'
  <2>1. \A q \in Req : req[q].pc = "revoking" /\ req[q].op \in {"role", "mfaReset"}
                         => req[q].user # row.user
    BY <1>2, <1>5 DEF RotateCommit, InsertWaits, LocksUser
  <2>2. Idle.pc = "idle"
    BY DEF Idle
  <2> QED
    BY <2>1, <2>2, <1>7, <1>8, <1>9 DEF SnapshotComplete
<1> QED BY <1>10, <1>11, <1>12, <1>13, <1>15, <1>16, <1>17, <1>18
\* Revoking rows that no rotation holds keeps the tables sound, and with them what
\* every request in flight knows.
LEMMA RevokedTables ==
  ASSUME IInv, NEW S, S \subseteq Stored, \A t \in S : ~Locked(t),
         tokens' = RevokeRows(S), req' \in [Req -> ReqState],
         users' \in [User -> Account], \A u \in User : users'[u].here = users[u].here,
         UNCHANGED <<now, minted, opened, parent, signIns>>
  PROVE  /\ TypeOK' /\ OneLivePerFamily' /\ NoFork' /\ SpentByRotation'
         /\ NeverOutlivesSignIn' /\ SignInTimeIsReal' /\ NoOrphanSession'
         /\ Stored' = Stored
         /\ \A t \in Stored : /\ tokens'[t].user = tokens[t].user
                              /\ tokens[t].revoked => tokens'[t].revoked
         /\ \A q \in Req : req'[q] = req[q] => ReqOK(req[q])'
<1> USE DEF IInv
<1>1. TypeOK
  OBVIOUS
<1>2. /\ Stored' = Stored /\ tokens' \in [Stored -> TokenRow]
      /\ \A t \in S : tokens'[t] = [tokens[t] EXCEPT !.revoked = TRUE]
      /\ \A t \in Stored \ S : tokens'[t] = tokens[t]
  BY <1>1 DEF RevokeRows, Stored, TypeOK, TokenRow
<1>3. \A t \in Stored : /\ tokens'[t].family = tokens[t].family
                        /\ tokens'[t].user = tokens[t].user
                        /\ tokens'[t].expiry = tokens[t].expiry
                        /\ tokens'[t].auth = tokens[t].auth
                        /\ tokens[t].revoked => tokens'[t].revoked
  <2> SUFFICES ASSUME NEW t \in Stored
               PROVE  /\ tokens'[t].family = tokens[t].family
                      /\ tokens'[t].user = tokens[t].user
                      /\ tokens'[t].expiry = tokens[t].expiry
                      /\ tokens'[t].auth = tokens[t].auth
                      /\ tokens[t].revoked => tokens'[t].revoked
    OBVIOUS
  <2>1. tokens[t] \in TokenRow
    BY <1>1 DEF TypeOK
  <2>2. CASE t \in S
    <3>1. tokens'[t] = [tokens[t] EXCEPT !.revoked = TRUE]
      BY <1>2, <2>2
    <3> QED BY <2>1, <3>1 DEF TokenRow
  <2>3. CASE t \notin S
    BY <1>2, <2>3
  <2> QED BY <2>2, <2>3
<1>4. TypeOK'
  BY <1>1, <1>2 DEF TypeOK
<1>5. OneLivePerFamily' /\ NoFork' /\ SpentByRotation'
  BY <1>2, <1>3 DEF OneLivePerFamily, NoFork, SpentByRotation, IsLive
<1>6. NeverOutlivesSignIn' /\ SignInTimeIsReal'
  BY <1>2, <1>3 DEF NeverOutlivesSignIn, SignInTimeIsReal
<1>7. NoOrphanSession'
  BY <1>1, <1>2, <1>3 DEF NoOrphanSession, TypeOK, TokenRow
<1>8. ASSUME NEW q \in Req, req'[q] = req[q] PROVE ReqOK(req[q])'
  <2>1. ReqOK(req[q]) /\ (req[q].pc = "rotating" => req[q].tok \notin S)
    BY DEF RequestsOK, Locked
  <2> QED
    BY <1>2, <1>3, <1>8, <2>1 DEF ReqOK, Opening
<1> QED BY <1>2, <1>3, <1>4, <1>5, <1>6, <1>7, <1>8

LEMMA LogoutLocalStep ==
  ASSUME IInv, NEW t \in Token, LogoutLocal(t)
  PROVE  IInv'
<1>1. {t} \subseteq Stored /\ \A x \in {t} : ~Locked(x)
  BY DEF LogoutLocal, IsLive
<1>2. /\ req' \in [Req -> ReqState] /\ req' = req
      /\ users' \in [User -> Account] /\ users' = users
      /\ tokens' = RevokeRows({t})
      /\ UNCHANGED <<now, minted, opened, parent, signIns>>
  BY DEF IInv, TypeOK, LogoutLocal
<1>3. /\ TypeOK' /\ OneLivePerFamily' /\ NoFork' /\ SpentByRotation'
      /\ NeverOutlivesSignIn' /\ SignInTimeIsReal' /\ NoOrphanSession'
      /\ Stored' = Stored
      /\ \A x \in Stored : /\ tokens'[x].user = tokens[x].user
                           /\ tokens[x].revoked => tokens'[x].revoked
      /\ \A q \in Req : ReqOK(req[q])'
  BY <1>1, <1>2, RevokedTables
<1>4. RequestsOK' /\ RequestsApart'
  BY <1>2, <1>3 DEF IInv, RequestsOK, RequestsApart, Compatible, Opening
<1>5. SnapshotComplete'
  BY <1>2, <1>3 DEF IInv, SnapshotComplete
<1> QED BY <1>3, <1>4, <1>5 DEF IInv

\* The revoking UPDATE reaches only rows of its scope that are live.
LEMMA ReachesStored ==
  ASSUME NEW q
  PROVE  Reaches(q) \subseteq Stored
BY DEF Reaches, PgReaches, MySQLReaches, Matching

\* The record RevokeCommit leaves behind: idle, or, after a password change, the
\* session to open.
LEMMA RevokedRecord ==
  ASSUME IInv, NEW r \in Req, RevokeCommit(r)
  PROVE  \E n \in ReqState :
           /\ Become(r, n) /\ n.pc \in {"idle", "start"}
           /\ n.succ \in {None, req[r].succ}
           /\ n.pc = "start" => /\ req[r].op = "password" /\ req[r].pc = "revoking"
                                /\ n.user = req[r].user /\ n.succ = req[r].succ
                                /\ n.fam = req[r].fam /\ n.auth = req[r].auth
                                /\ n.expiry = now + TTL
<1>1. req[r] \in ReqState /\ now + TTL \in Nat /\ req[r].pc = "revoking"
  BY SessionsAssumption DEF IInv, TypeOK, RevokeCommit
<1>2. CASE req[r].op = "password"
  <2>1. PICK n \in ReqState :
          n = [Idle EXCEPT !.pc = "start", !.op = "password", !.user = req[r].user,
                           !.succ = req[r].succ, !.fam = req[r].fam, !.aal = req[r].aal,
                           !.auth = req[r].auth, !.expiry = now + TTL]
    BY <1>1 DEF ReqState, PCs, Ops, RevokeOps, AAL, Tick, Idle
  <2>2. /\ n.pc = "start" /\ n.user = req[r].user /\ n.succ = req[r].succ
        /\ n.fam = req[r].fam /\ n.auth = req[r].auth /\ n.expiry = now + TTL
    BY <2>1 DEF Idle
  <2>3. Become(r, n)
    BY <1>2, <2>1 DEF RevokeCommit
  <2> QED
    BY <1>1, <1>2, <2>2, <2>3
<1>3. CASE req[r].op # "password"
  <2>1. Idle \in ReqState /\ Idle.pc = "idle" /\ Idle.succ = None
    BY IdleOK DEF IInv, Idle
  <2>2. Become(r, Idle)
    BY <1>3 DEF RevokeCommit, Finish
  <2> QED
    BY <2>1, <2>2
<1> QED BY <1>2, <1>3

\* The end of a revoking statement.
LEMMA RevokeCommitStep ==
  ASSUME IInv, NEW r \in Req, RevokeCommit(r)
  PROVE  IInv'
<1>1. /\ TypeOK /\ ReqOK(req[r]) /\ req[r] \in ReqState /\ req[r].pc = "revoking"
      /\ UNCHANGED <<now, minted, opened, parent, signIns>>
  BY DEF IInv, RequestsOK, RevokeCommit, TypeOK
<1>2. PICK n \in ReqState :
           /\ Become(r, n) /\ n.pc \in {"idle", "start"}
           /\ n.succ \in {None, req[r].succ}
           /\ n.pc = "start" => /\ req[r].op = "password" /\ req[r].pc = "revoking"
                                /\ n.user = req[r].user /\ n.succ = req[r].succ
                                /\ n.fam = req[r].fam /\ n.auth = req[r].auth
                                /\ n.expiry = now + TTL
  BY RevokedRecord
<1>3. /\ req' \in [Req -> ReqState] /\ req'[r] = n
      /\ \A q \in Req : q # r => req'[q] = req[q]
  BY <1>1, <1>2 DEF Become, TypeOK
<1>4. users' \in [User -> Account] /\ \A u \in User : users'[u].here = users[u].here
  <2>1. CASE users' = users
    BY <1>1, <2>1 DEF TypeOK
  <2>2. CASE /\ req[r].op \in {"verify", "role"}
             /\ users' = [users EXCEPT ![req[r].user].rev = @ + 1]
    <3>1. req[r].user \in User /\ users[req[r].user] \in Account
      BY <1>1, <2>2 DEF ReqOK, TypeOK
    <3>2. [users[req[r].user] EXCEPT !.rev = @ + 1] \in Account
      BY <3>1 DEF Account
    <3> QED
      BY <1>1, <2>2, <3>1, <3>2 DEF TypeOK, Account
  <2> QED BY <2>1, <2>2 DEF RevokeCommit
<1>5. PICK S : S = Reaches(req[r])
  OBVIOUS
<1>6. S \subseteq Stored /\ (\A t \in S : ~Locked(t)) /\ tokens' = RevokeRows(S)
  BY <1>5, ReachesStored DEF RevokeCommit
<1>7. /\ TypeOK' /\ OneLivePerFamily' /\ NoFork' /\ SpentByRotation'
      /\ NeverOutlivesSignIn' /\ SignInTimeIsReal' /\ NoOrphanSession'
      /\ Stored' = Stored
      /\ \A t \in Stored : /\ tokens'[t].user = tokens[t].user
                           /\ tokens[t].revoked => tokens'[t].revoked
      /\ \A q \in Req : req'[q] = req[q] => ReqOK(req[q])'
  BY <1>1, <1>3, <1>4, <1>6, RevokedTables
<1>8. ReqOK(req[r])'
  <2>1. None \notin minted /\ now + TTL \in Nat
    BY <1>1, SessionsAssumption DEF TypeOK
  <2>2. n.succ \notin minted
    BY <1>1, <1>2, <2>1 DEF ReqOK
  <2>3. n.pc = "start" => /\ n.user \in User /\ n.succ \in Token
                          /\ n.fam \in Family \ DOMAIN opened
                          /\ n.auth # 0 => <<n.user, n.auth>> \in signIns
                          /\ n.expiry <= now + TTL
    BY <1>1, <1>2, <2>1 DEF ReqOK, Opening
  <2> QED
    BY <1>1, <1>2, <1>3, <2>2, <2>3 DEF ReqOK, Opening
<1>9. RequestsOK'
  BY <1>3, <1>7, <1>8 DEF RequestsOK
<1>10. RequestsApart'
  <2>1. \A q \in Req : q # r => Compatible(n, req[q]) /\ Compatible(req[q], n)
    BY <1>1, <1>2 DEF IInv, RequestsApart, Compatible, Opening
  <2> QED
    BY <1>3, <2>1 DEF IInv, RequestsApart, Compatible, Opening
<1>11. SnapshotComplete'
  BY <1>2, <1>3, <1>7 DEF IInv, SnapshotComplete
<1> QED BY <1>7, <1>9, <1>10, <1>11 DEF IInv
\* A change of the account row that keeps the row.
LEMMA EditAccountStep ==
  ASSUME IInv, NEW u \in User, NEW ok \in BOOLEAN, EditAccount(u, ok)
  PROVE  IInv'
<1>1. TypeOK /\ UNCHANGED <<tokens, req, now, minted, opened, parent, signIns>>
  BY DEF IInv, EditAccount
<1>2. users' = [users EXCEPT ![u] = [here |-> TRUE, allowed |-> ok, rev |-> users[u].rev + 1]]
  BY DEF EditAccount
<1>3. users[u].rev \in Nat /\ users[u].here = TRUE
  BY <1>1 DEF TypeOK, Account, EditAccount
<1>4. PICK a \in Account : a = [here |-> TRUE, allowed |-> ok, rev |-> users[u].rev + 1]
  <2>1. PICK n \in Nat : n = users[u].rev + 1
    BY <1>3
  <2>2. [here |-> TRUE, allowed |-> ok, rev |-> n] \in Account
    BY Zenon DEF Account
  <2> QED BY <2>1, <2>2
<1>5. a.here = users[u].here
  BY <1>3, <1>4
<1>6. users' = [users EXCEPT ![u] = a]
  BY <1>2, <1>4
<1>7. users' \in [User -> Account] /\ \A x \in User : users'[x].here = users[x].here
  BY <1>1, <1>5, <1>6 DEF TypeOK
<1>8. Stored' = Stored
  BY <1>1 DEF Stored
<1>9. TypeOK'
  BY <1>1, <1>7, <1>8 DEF TypeOK
<1>10. RequestsOK' /\ RequestsApart' /\ SnapshotComplete'
  BY <1>1, <1>8 DEF IInv, RequestsOK, ReqOK, RequestsApart, Compatible, Opening, SnapshotComplete
<1>11. OneLivePerFamily' /\ NoFork' /\ SpentByRotation' /\ NeverOutlivesSignIn' /\ SignInTimeIsReal'
  BY <1>1, <1>8 DEF IInv, OneLivePerFamily, IsLive, NoFork, SpentByRotation,
                    NeverOutlivesSignIn, SignInTimeIsReal
<1>12. NoOrphanSession'
  BY <1>1, <1>7, <1>8 DEF IInv, NoOrphanSession, TypeOK, TokenRow
<1> QED BY <1>9, <1>10, <1>11, <1>12 DEF IInv

\* Deleting an account takes its tokens with it; no rotation holds one of them.
LEMMA DeleteUserStep ==
  ASSUME IInv, NEW u \in User, DeleteUser(u)
  PROVE  IInv'
<1>1. TypeOK /\ UNCHANGED <<req, now, minted, opened, parent, signIns>>
  BY DEF IInv, DeleteUser
<1>2. /\ Stored' \subseteq Stored /\ tokens' \in [Stored' -> TokenRow]
      /\ \A t \in Stored' : tokens'[t] = tokens[t] /\ tokens[t].user # u
      /\ \A t \in Stored : tokens[t].user # u => t \in Stored'
  BY <1>1 DEF DeleteUser, Stored, TypeOK
<1>3. users[u] \in Account
  BY <1>1 DEF TypeOK
<1>4. PICK a \in Account : a = [users[u] EXCEPT !.here = FALSE]
  BY <1>3 DEF Account
<1>5. users' = [users EXCEPT ![u] = a]
  BY <1>4 DEF DeleteUser
<1>6. users' \in [User -> Account] /\ \A x \in User : x # u => users'[x] = users[x]
  BY <1>1, <1>5 DEF TypeOK
<1>7. TypeOK'
  BY <1>1, <1>2, <1>6 DEF TypeOK
<1>8. RequestsOK'
  <2> SUFFICES ASSUME NEW q \in Req PROVE ReqOK(req[q])'
    BY DEF RequestsOK
  <2>1. ReqOK(req[q]) /\ (req[q].pc = "rotating" => req[q].tok \in Stored')
    BY <1>2 DEF IInv, RequestsOK, ReqOK, DeleteUser, Locked
  <2> QED
    BY <1>1, <1>2, <2>1 DEF ReqOK, Opening
<1>9. RequestsApart' /\ SnapshotComplete'
  BY <1>1, <1>2 DEF IInv, RequestsApart, Compatible, Opening, SnapshotComplete
<1>10. OneLivePerFamily' /\ NoFork' /\ SpentByRotation' /\ NeverOutlivesSignIn' /\ SignInTimeIsReal'
  BY <1>1, <1>2 DEF IInv, OneLivePerFamily, IsLive, NoFork, SpentByRotation,
                    NeverOutlivesSignIn, SignInTimeIsReal
<1>11. NoOrphanSession'
  BY <1>1, <1>2, <1>6 DEF IInv, NoOrphanSession, TypeOK, TokenRow
<1> QED BY <1>7, <1>8, <1>9, <1>10, <1>11 DEF IInv

LEMMA TockStep ==
  ASSUME IInv, Tock
  PROVE  IInv'
<1>1. /\ TypeOK /\ now' = now + 1 /\ now \in Nat
      /\ UNCHANGED <<users, tokens, req, minted, opened, parent, signIns>>
  BY DEF IInv, Tock, TypeOK
<1>2. Stored' = Stored
  BY <1>1 DEF Stored
<1>3. TypeOK'
  BY <1>1, <1>2 DEF TypeOK
<1>4. RequestsOK'
  <2> SUFFICES ASSUME NEW q \in Req PROVE ReqOK(req[q])'
    BY DEF RequestsOK
  <2>1. req[q].expiry <= now + TTL => req[q].expiry <= now' + TTL
    BY <1>1, SessionsAssumption DEF TypeOK, ReqState, Tick
  <2> QED
    BY <1>1, <1>2, <2>1 DEF IInv, RequestsOK, ReqOK, Opening
<1>5. RequestsApart' /\ SnapshotComplete'
  BY <1>1, <1>2 DEF IInv, RequestsApart, Compatible, Opening, SnapshotComplete
<1>6. OneLivePerFamily' /\ NoFork' /\ SpentByRotation' /\ NeverOutlivesSignIn'
  BY <1>1, <1>2 DEF IInv, OneLivePerFamily, IsLive, NoFork, SpentByRotation, NeverOutlivesSignIn
<1>7. SignInTimeIsReal' /\ NoOrphanSession'
  BY <1>1, <1>2 DEF IInv, SignInTimeIsReal, NoOrphanSession
<1> QED BY <1>3, <1>4, <1>5, <1>6, <1>7 DEF IInv
-----------------------------------------------------------------------------
(* The inductive invariant.                                                *)

LEMMA InitIInv == Init => IInv
<1> SUFFICES ASSUME Init PROVE IInv
  OBVIOUS
<1>1. Stored = {} /\ DOMAIN opened = {} /\ minted = {} /\ signIns = {} /\ now = 1
  BY DEF Init, Stored
<1>2. Idle \in ReqState
  BY DEF Idle, ReqState, PCs, Ops, AAL, Tick
<1>3. TypeOK
  BY <1>1, <1>2 DEF Init, TypeOK, Account, Stored
<1>4. ReqOK(Idle) /\ \A q \in ReqState : Compatible(Idle, q)
  BY <1>3, IdleOK
<1>5. RequestsOK /\ RequestsApart
  BY <1>2, <1>4 DEF Init, RequestsOK, RequestsApart
<1>6. OneLivePerFamily /\ NoFork /\ NeverOutlivesSignIn /\ SignInTimeIsReal /\ NoOrphanSession
  BY <1>1 DEF OneLivePerFamily, NoFork, NeverOutlivesSignIn, SignInTimeIsReal, NoOrphanSession
<1>7. SpentByRotation /\ SnapshotComplete
  BY <1>1 DEF Init, SpentByRotation, SnapshotComplete
<1> QED BY <1>3, <1>5, <1>6, <1>7 DEF IInv

LEMMA NextIInv == IInv /\ [Next]_vars => IInv'
<1> SUFFICES ASSUME IInv, [Next]_vars PROVE IInv'
  OBVIOUS
<1>1. ASSUME NEW r \in Req, Begin(r) PROVE IInv'
  BY <1>1, SignInStep, RefreshStep, StepUpStep, RevokeAccountStep, LogoutOthersStep,
     ChangePasswordStep DEF Begin
<1>2. ASSUME NEW r \in Req, Step(r) PROVE IInv'
  <2>1. CASE StartSession(r)  BY <2>1, StartSessionStep
  <2>2. CASE StartFails(r)    BY <2>2, FinishStep DEF StartFails
  <2>3. CASE RotateSpend(r)   BY <2>3, RotateSpendStep
  <2>4. CASE RotateRefuse(r)  BY <2>4, FinishStep DEF RotateRefuse
  <2>5. CASE RotateNotFound(r)  BY <2>5, RotateNotFoundStep
  <2>6. CASE RotateCommit(r)  BY <2>6, RotateCommitStep
  <2>7. CASE Reject(r)        BY <2>7, RejectStep
  <2>8. CASE RevokeOthers(r)  BY <2>8, RevokeOthersStep
  <2>9. CASE RevokeCommit(r)  BY <2>9, RevokeCommitStep
  <2> QED
    BY <1>2, <2>1, <2>2, <2>3, <2>4, <2>5, <2>6, <2>7, <2>8, <2>9 DEF Step
<1>3. ASSUME NEW r \in Req, Abort(r) PROVE IInv'
  BY <1>3, FinishStep DEF Abort
<1>4. ASSUME NEW t \in Token, LogoutLocal(t) PROVE IInv'
  BY <1>4, LogoutLocalStep
<1>5. ASSUME NEW u \in User, NEW ok \in BOOLEAN, EditAccount(u, ok) PROVE IInv'
  BY <1>5, EditAccountStep
<1>8. ASSUME NEW u \in User, DeleteUser(u) PROVE IInv'
  BY <1>8, DeleteUserStep
<1>6. CASE Tock
  BY <1>6, TockStep
<1>7. CASE UNCHANGED vars
  <2> USE <1>7 DEF IInv, vars
  <2>1. Stored' = Stored
    BY DEF Stored
  <2>2. TypeOK'
    BY <2>1 DEF TypeOK
  <2>3. RequestsOK' /\ RequestsApart' /\ SnapshotComplete'
    BY <2>1 DEF RequestsOK, ReqOK, RequestsApart, Compatible, Opening, SnapshotComplete
  <2>4. OneLivePerFamily' /\ NoFork' /\ SpentByRotation' /\ NeverOutlivesSignIn'
    BY <2>1 DEF OneLivePerFamily, IsLive, NoFork, SpentByRotation, NeverOutlivesSignIn
  <2>5. SignInTimeIsReal' /\ NoOrphanSession'
    BY <2>1 DEF SignInTimeIsReal, NoOrphanSession
  <2> QED BY <2>2, <2>3, <2>4, <2>5
<1> QED
  BY <1>1, <1>2, <1>3, <1>4, <1>5, <1>6, <1>7, <1>8 DEF Next

\* The invariant holds in every reachable state, for every instance.
THEOREM Invariant == Spec => []IInv
BY InitIInv, NextIInv, PTL DEF Spec

\* Every variable keeps its type.
THEOREM TypeCorrect == Spec => []TypeOK
<1>1. IInv => TypeOK
  BY DEF IInv
<1> QED BY <1>1, Invariant, PTL

\* A session has one live refresh token and never forks, whatever the number of
\* concurrent uses of its tokens (RotateRefreshToken, ElevateRefreshToken).
THEOREM SessionIsAChain == Spec => [](OneLivePerFamily /\ NoFork)
<1>1. IInv => OneLivePerFamily /\ NoFork
  BY DEF IInv
<1> QED BY <1>1, Invariant, PTL

\* Rotation neither extends a session nor refreshes its sign-in time, and a refresh
\* never signs claims of an account version the rotation did not read.
THEOREM RotationKeepsSignIn ==
  Spec => [](NeverOutlivesSignIn /\ SignInTimeIsReal /\ RefreshClaimsCurrent)
<1>1. IInv => NeverOutlivesSignIn /\ SignInTimeIsReal /\ RefreshClaimsCurrent
  BY DEF IInv, RequestsOK, ReqOK, RefreshClaimsCurrent
<1> QED BY <1>1, Invariant, PTL

\* No refresh token outlives its account (ON DELETE CASCADE and the foreign key).
THEOREM NoSessionWithoutAccount == Spec => []NoOrphanSession
<1>1. IInv => NoOrphanSession
  BY DEF IInv
<1> QED BY <1>1, Invariant, PTL
=============================================================================
