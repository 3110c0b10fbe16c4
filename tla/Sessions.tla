------------------------------ MODULE Sessions ------------------------------
(***************************************************************************)
(* Refresh-token sessions of one project.                                  *)
(*                                                                         *)
(* A sign-in opens a session: a family of refresh tokens.  A refresh       *)
(* spends the family's live token and stores its successor; a step-up      *)
(* (MFA) does the same and raises the session's level.  A spent token      *)
(* presented again revokes its family.  Sign-out, password change, email   *)
(* verification, role change and MFA reset revoke a whole scope of tokens. *)
(*                                                                         *)
(* The state is the committed contents of auth.users and                   *)
(* auth.refresh_tokens plus, for every request in flight, what its handler *)
(* has read so far and the row locks its open transaction holds.  A        *)
(* statement that may have to wait for a lock is an action of its own: the *)
(* interleavings of statements are the point of the model.                 *)
(*                                                                         *)
(* The two engines differ in what a revoking UPDATE sees (a snapshot taken *)
(* when the statement starts, or the rows as it reaches them) and in which *)
(* locks on the users row make the foreign-key check of an INSERT wait.    *)
(***************************************************************************)
EXTENDS Naturals, FiniteSets

CONSTANTS
  User,      \* accounts
  Family,    \* sessions (family_id)
  Token,     \* refresh tokens (token_hash)
  Req,       \* requests the server handles at the same time
  None,      \* no user, family or token
  Engine,    \* "postgres" or "mysql"
  TTL,       \* lifetime of a session, in ticks
  MaxTime,   \* bound on the clock
  MaxRev     \* bound on the changes of an account

ASSUME SessionsAssumption ==
  /\ None \notin User \cup Family \cup Token
  /\ Engine \in {"postgres", "mysql"}
  /\ TTL \in Nat \ {0}
  /\ MaxTime \in Nat
  /\ MaxRev \in Nat

VARIABLES
  users,     \* users[u]: the account row, reduced to what a session needs
  tokens,    \* the rows of refresh_tokens: a function from stored tokens
  req,       \* req[r]: the handler state of request r
  now,       \* the clock
  \* history
  minted,    \* tokens ever stored
  opened,    \* opened[f]: the tick at which the session f was stored
  parent,    \* parent[t]: the token t was rotated from, None for a first one
  signIns    \* <<user, tick>> of every completed proof of identity

vars == <<users, tokens, req, now, minted, opened, parent, signIns>>

-----------------------------------------------------------------------------
(* Rows and request records.                                               *)

AAL == {1, 2}
Tick == Nat

\* An account: whether the row exists, whether refreshAllowed accepts it, and
\* the version of everything an access token carries of it.
Account == [here: BOOLEAN, allowed: BOOLEAN, rev: Nat]

\* A row of refresh_tokens.  auth = 0 stands for a NULL last_auth_at.
TokenRow == [family: Family, user: User, expiry: Tick, auth: Tick,
             aal: AAL, revoked: BOOLEAN]

\* The operations that run one revoking UPDATE.
RevokeOps == {"replay", "global", "others",
              "password", "verify", "role", "mfaReset"}

Ops == {"none", "signIn", "refresh", "stepUp"} \cup RevokeOps

PCs == {"idle", "start", "rotate", "rotating", "reject", "revoke", "revoking"}

ReqState == [pc: PCs, op: Ops,
             user: User \cup {None},     \* the account the request acts on
             tok: Token \cup {None},     \* the presented refresh token
             succ: Token \cup {None},    \* the token it will store
             fam: Family \cup {None},    \* the family it will open, revoke or keep
             snap: SUBSET Token,         \* rows the revoking UPDATE has seen
             built: BOOLEAN,             \* claims built ahead of the rotation
             claims: Nat, read: Nat,     \* account version in the claims, and
                                         \* the one the rotation read
             auth: Tick, expiry: Tick, aal: AAL]  \* the session to store

Idle == [pc |-> "idle", op |-> "none", user |-> None, tok |-> None,
         succ |-> None, fam |-> None, snap |-> {}, built |-> FALSE, claims |-> 0, read |-> 0,
         auth |-> 0, expiry |-> 0, aal |-> 1]

Stored == DOMAIN tokens

IsLive(t) == t \in Stored /\ ~tokens[t].revoked

Unexpired(t) == tokens[t].expiry > now

-----------------------------------------------------------------------------
(* Row locks.                                                              *)

\* The open transaction of a rotation holds the row lock of the token it spends.
Locked(t) == \E r \in Req : req[r].pc = "rotating" /\ req[r].tok = t

\* Transactions that changed or locked the users row before their revoking UPDATE.
LocksUser(r, u) ==
  /\ req[r].pc = "revoking"
  /\ req[r].user = u
  /\ req[r].op \in {"password", "verify", "role", "mfaReset"}

UserLocked(u) == \E r \in Req : LocksUser(r, u)

\* Variant: the role change and the MFA reset do not hold the account FOR UPDATE.
InsertNeverWaits(u) == FALSE

\* Storing a token takes the foreign-key lock of its account: under Postgres a
\* FOR KEY SHARE lock, which waits for SELECT ... FOR UPDATE (a role change, an
\* MFA reset) but not for an UPDATE that leaves the key alone; under InnoDB a
\* shared lock, which waits for every writer of the row.
InsertWaits(u) ==
  \E r \in Req :
    /\ LocksUser(r, u)
    /\ Engine = "postgres" => req[r].op \in {"role", "mfaReset"}

-----------------------------------------------------------------------------
(* Statements.                                                             *)

InsertRow(t, row) == [x \in Stored \cup {t} |-> IF x = t THEN row ELSE tokens[x]]

RevokeRows(S) ==
  [x \in Stored |-> IF x \in S THEN [tokens[x] EXCEPT !.revoked = TRUE]
                               ELSE tokens[x]]

\* The WHERE clause of the revoking UPDATE of request record q, without the
\* `revoked = false` that every one of them also has.
InScope(q, t) ==
  CASE q.op = "replay" -> tokens[t].family = q.fam
    [] q.op = "others" -> tokens[t].user = q.user /\ tokens[t].family # q.fam
    [] OTHER -> tokens[t].user = q.user

Matching(q) == {t \in Stored : InScope(q, t) /\ ~tokens[t].revoked}

\* Variants: the UPDATE passes over rows that another transaction holds.
PgSkipsLocked(q) == {t \in q.snap \cap Matching(q) : ~Locked(t)}
MySQLSkipsLocked(q) == {t \in Matching(q) : ~Locked(t)}

\* What the UPDATE of q sees.  Under Postgres (READ COMMITTED) the rows of the
\* snapshot taken when the statement starts, each checked again after a wait for
\* its lock; under InnoDB the rows that match when the scan gets to them.
PgSnapshot(q) == Matching(q)
PgReaches(q) == q.snap \cap Matching(q)
MySQLReaches(q) == Matching(q)
Reaches(q) == IF Engine = "postgres" THEN PgReaches(q) ELSE MySQLReaches(q)

\* token.New and uuid.New: a value nobody has stored or is about to store.
FreshToken(t) == t \notin minted /\ \A r \in Req : req[r].succ # t
FreshFamily(f) == f \notin DOMAIN opened /\ \A r \in Req : req[r].fam # f

Become(r, state) == req' = [req EXCEPT ![r] = state]

Finish(r) == Become(r, Idle)

-----------------------------------------------------------------------------
(* Signing in.                                                             *)

\* exchangePassword up to the session it shapes: the account is read once, the
\* password checked, and nothing is locked while the claims are built.
SignIn(r, u, t, f) ==
  /\ req[r].pc = "idle"
  /\ users[u].here /\ users[u].allowed
  /\ FreshToken(t) /\ FreshFamily(f)
  /\ Become(r, [Idle EXCEPT !.pc = "start", !.op = "signIn", !.user = u,
                            !.succ = t, !.fam = f, !.auth = now,
                            !.expiry = now + TTL])
  /\ signIns' = signIns \cup {<<u, now>>}
  /\ UNCHANGED <<users, tokens, now, minted, opened, parent>>

\* startSession: the INSERT of the session's first refresh token.
StartSession(r) ==
  LET s == req[r] IN
  /\ s.pc = "start"
  /\ users[s.user].here
  /\ ~InsertWaits(s.user)
  /\ tokens' = InsertRow(s.succ, [family |-> s.fam, user |-> s.user,
                                  expiry |-> s.expiry, auth |-> s.auth,
                                  aal |-> s.aal, revoked |-> FALSE])
  /\ minted' = minted \cup {s.succ}
  /\ opened' = [f \in DOMAIN opened \cup {s.fam} |->
                  IF f = s.fam THEN now ELSE opened[f]]
  /\ Finish(r)
  /\ UNCHANGED <<users, now, parent, signIns>>

\* The account went away meanwhile: the foreign key refuses the INSERT.
StartFails(r) ==
  /\ req[r].pc = "start"
  /\ ~users[req[r].user].here
  /\ Finish(r)
  /\ UNCHANGED <<users, tokens, now, minted, opened, parent, signIns>>

-----------------------------------------------------------------------------
(* Rotation: refresh and step-up.                                          *)

\* exchangeRefreshToken without a custom_access_token hook: no preview.
Refresh(r, t, s) ==
  /\ req[r].pc = "idle"
  /\ t \in minted /\ FreshToken(s)
  /\ Become(r, [Idle EXCEPT !.pc = "rotate", !.op = "refresh", !.tok = t, !.succ = s])
  /\ UNCHANGED <<users, tokens, now, minted, opened, parent, signIns>>

\* exchangeRefreshToken with the hook: refreshPreview builds the claims from the
\* account as it is before the rotation; a refused account ends the request.
RefreshPreviewed(r, t, s) ==
  /\ req[r].pc = "idle"
  /\ t \in minted /\ FreshToken(s)
  /\ IsLive(t)
  /\ users[tokens[t].user].here /\ users[tokens[t].user].allowed
  /\ Become(r, [Idle EXCEPT !.pc = "rotate", !.op = "refresh", !.tok = t, !.succ = s,
                            !.built = TRUE, !.claims = users[tokens[t].user].rev])
  /\ UNCHANGED <<users, tokens, now, minted, opened, parent, signIns>>

\* stepUpSession: the caller u presents a token.  A spent one is rejected as on
\* /refresh, a live one goes on to the code and then to ElevateRefreshToken.
StepUp(r, u, t, s) ==
  /\ req[r].pc = "idle"
  /\ t \in Stored /\ tokens[t].user = u
  /\ IF tokens[t].revoked
       THEN Become(r, [Idle EXCEPT !.pc = "reject", !.op = "stepUp", !.tok = t])
       ELSE /\ users[u].here /\ users[u].allowed /\ FreshToken(s)
            /\ Become(r, [Idle EXCEPT !.pc = "rotate", !.op = "stepUp", !.user = u,
                                      !.tok = t, !.succ = s])
  /\ UNCHANGED <<users, tokens, now, minted, opened, parent, signIns>>

Rotatable(t) == IsLive(t) /\ Unexpired(t)

\* Variant: claims built ahead of the rotation are not compared with the account.
AcceptsStaleClaims(r, u) ==
  IF req[r].op = "refresh" THEN users[u].allowed ELSE u = req[r].user

\* What shape answers for the account the transaction reads: refreshAllowed and,
\* for claims built ahead, sameAccount; a step-up only compares the account's id.
Accepts(r, u) ==
  IF req[r].op = "refresh"
    THEN users[u].allowed /\ (req[r].built => req[r].claims = users[u].rev)
    ELSE u = req[r].user

\* Variant: the token is read as live, not spent under its row lock.
RotateSpendUnlocked(r) ==
  LET t == req[r].tok IN
  /\ req[r].pc = "rotate"
  /\ Rotatable(t)
  /\ Accepts(r, tokens[t].user)
  /\ Become(r, [req[r] EXCEPT !.pc = "rotating", !.user = tokens[t].user,
                              !.claims = IF req[r].built THEN @ ELSE users[tokens[t].user].rev,
                              !.read = users[tokens[t].user].rev])
  /\ UNCHANGED <<users, tokens, now, minted, opened, parent, signIns>>

\* The first statements of the rotation: spend the live token, which takes its
\* row lock, read the account, and let shape accept it.
RotateSpend(r) ==
  LET t == req[r].tok IN
  /\ req[r].pc = "rotate"
  /\ ~Locked(t) /\ Rotatable(t)
  /\ Accepts(r, tokens[t].user)
  /\ Become(r, [req[r] EXCEPT !.pc = "rotating", !.user = tokens[t].user,
                              !.claims = IF req[r].built THEN @ ELSE users[tokens[t].user].rev,
                              !.read = users[tokens[t].user].rev])
  /\ UNCHANGED <<users, tokens, now, minted, opened, parent, signIns>>

\* shape refuses: the transaction rolls back and the token stays as it was.
RotateRefuse(r) ==
  /\ req[r].pc = "rotate"
  /\ ~Locked(req[r].tok) /\ Rotatable(req[r].tok)
  /\ ~Accepts(r, tokens[req[r].tok].user)
  /\ Finish(r)
  /\ UNCHANGED <<users, tokens, now, minted, opened, parent, signIns>>

\* Variant: the step-up has no answer for a token that is gone.
RotateNotFoundOnRefresh(r) ==
  /\ req[r].pc = "rotate" /\ req[r].op = "refresh"
  /\ ~Locked(req[r].tok) /\ ~Rotatable(req[r].tok)
  /\ Become(r, [Idle EXCEPT !.pc = "reject", !.op = "refresh", !.tok = req[r].tok])
  /\ UNCHANGED <<users, tokens, now, minted, opened, parent, signIns>>

\* The UPDATE returned no row: a refresh asks why (rejectDeadRefreshToken), a
\* step-up only answers 401.
RotateNotFound(r) ==
  /\ req[r].pc = "rotate"
  /\ ~Locked(req[r].tok) /\ ~Rotatable(req[r].tok)
  /\ IF req[r].op = "refresh"
       THEN Become(r, [Idle EXCEPT !.pc = "reject", !.op = "refresh", !.tok = req[r].tok])
       ELSE Finish(r)
  /\ UNCHANGED <<users, tokens, now, minted, opened, parent, signIns>>

\* Variant: a successor that forgets the level of its session.
SuccessorForgetsLevel(r) ==
  [tokens[req[r].tok] EXCEPT !.aal = IF req[r].op = "stepUp" THEN 2 ELSE 1]

\* The row of the successor: the family, expiry and sign-in time of the token it
\* replaces, at the level a step-up raises.
Successor(r) ==
  [tokens[req[r].tok] EXCEPT !.revoked = FALSE,
                             !.aal = IF req[r].op = "stepUp" THEN 2 ELSE @]

\* The INSERT of the successor and COMMIT, which publishes both rows at once.
RotateCommit(r) ==
  LET t == req[r].tok
      s == req[r].succ
  IN
  /\ req[r].pc = "rotating"
  /\ ~InsertWaits(req[r].user)
  /\ tokens' = [x \in Stored \cup {s} |->
                  IF x = s THEN Successor(r) ELSE RevokeRows({t})[x]]
  /\ minted' = minted \cup {s}
  /\ parent' = [parent EXCEPT ![s] = t]
  /\ Finish(r)
  /\ UNCHANGED <<users, now, opened, signIns>>

-----------------------------------------------------------------------------
(* Revocation.                                                             *)

\* Start the revoking UPDATE of the request record q: its snapshot is taken.
BeginRevoke(r, q) ==
  Become(r, [q EXCEPT !.pc = "revoking",
                      !.snap = IF Engine = "postgres" THEN PgSnapshot(q) ELSE {}])

\* rejectDeadRefreshToken: the state of the token is read again; an unknown or an
\* expired one only answers, a revoked one revokes its family.
Reject(r) ==
  LET t == req[r].tok IN
  /\ req[r].pc = "reject"
  /\ IF t \in Stored /\ tokens[t].revoked
       THEN BeginRevoke(r, [Idle EXCEPT !.op = "replay", !.fam = tokens[t].family])
       ELSE Finish(r)
  /\ UNCHANGED <<users, tokens, now, minted, opened, parent, signIns>>

\* logoutLocal: one UPDATE by token hash, which waits for the row and writes it
\* whatever it finds.
LogoutLocal(t) ==
  /\ IsLive(t) /\ ~Locked(t)
  /\ tokens' = RevokeRows({t})
  /\ UNCHANGED <<users, req, now, minted, opened, parent, signIns>>

\* RevokeUserRefreshTokens: global sign-out, and the last call of a password
\* reset and of a repeated sign-up.  No lock on the account.
RevokeUser(r, u) ==
  /\ req[r].pc = "idle"
  /\ BeginRevoke(r, [Idle EXCEPT !.op = "global", !.user = u])
  /\ UNCHANGED <<users, tokens, now, minted, opened, parent, signIns>>

\* logoutScoped with scope=others reads the presented token first...
LogoutOthers(r, u, t) ==
  /\ req[r].pc = "idle"
  /\ IsLive(t) /\ tokens[t].user = u
  /\ Become(r, [Idle EXCEPT !.pc = "revoke", !.op = "others", !.user = u,
                            !.fam = tokens[t].family])
  /\ UNCHANGED <<users, tokens, now, minted, opened, parent, signIns>>

\* ... and then runs RevokeOtherSessions for the family it read.
RevokeOthers(r) ==
  /\ req[r].pc = "revoke"
  /\ BeginRevoke(r, req[r])
  /\ UNCHANGED <<users, tokens, now, minted, opened, parent, signIns>>

\* ChangePassword: the users row is written, then every token revoked.  The
\* caller's access token, which some session c of the account earned, gives the
\* level and the sign-in time that the session started afterwards carries.
ChangePassword(r, u, c, t, f) ==
  /\ req[r].pc = "idle"
  /\ users[u].here /\ ~UserLocked(u)
  /\ c \in Stored /\ tokens[c].user = u
  /\ FreshToken(t) /\ FreshFamily(f)
  /\ BeginRevoke(r, [Idle EXCEPT !.op = "password", !.user = u, !.succ = t, !.fam = f,
                                 !.auth = tokens[c].auth, !.aal = tokens[c].aal])
  /\ UNCHANGED <<users, tokens, now, minted, opened, parent, signIns>>

\* MarkVerified, ApplyRoleChange and ResetMFA: the users row is written or locked,
\* then every token revoked, in one transaction.
MarkVerified(r, u) ==
  /\ req[r].pc = "idle"
  /\ users[u].here /\ ~UserLocked(u)
  /\ BeginRevoke(r, [Idle EXCEPT !.op = "verify", !.user = u])
  /\ UNCHANGED <<users, tokens, now, minted, opened, parent, signIns>>

ApplyRoleChange(r, u) ==
  /\ req[r].pc = "idle"
  /\ users[u].here /\ ~UserLocked(u)
  /\ users[u].rev < MaxRev
  /\ BeginRevoke(r, [Idle EXCEPT !.op = "role", !.user = u])
  /\ UNCHANGED <<users, tokens, now, minted, opened, parent, signIns>>

ResetMFA(r, u) ==
  /\ req[r].pc = "idle"
  /\ users[u].here /\ ~UserLocked(u)
  /\ BeginRevoke(r, [Idle EXCEPT !.op = "mfaReset", !.user = u])
  /\ UNCHANGED <<users, tokens, now, minted, opened, parent, signIns>>

\* The UPDATE waits for the rotations that hold a row it reaches, rechecks each
\* row it waited for, revokes, and the transaction commits.
RevokeCommit(r) ==
  LET q == req[r] IN
  /\ q.pc = "revoking"
  /\ \A t \in Reaches(q) : ~Locked(t)
  /\ tokens' = RevokeRows(Reaches(q))
  /\ users' = IF q.op \in {"verify", "role"} /\ users[q.user].rev < MaxRev
                THEN [users EXCEPT ![q.user].rev = @ + 1] ELSE users
  /\ IF q.op = "password"
       THEN Become(r, [Idle EXCEPT !.pc = "start", !.op = "password", !.user = q.user,
                                   !.succ = q.succ, !.fam = q.fam, !.aal = q.aal,
                                   !.auth = q.auth, !.expiry = now + TTL])
       ELSE Finish(r)
  /\ UNCHANGED <<now, minted, opened, parent, signIns>>

-----------------------------------------------------------------------------
(* The account itself, failures and time.                                  *)

\* A change of the account that revokes nothing: an operator's SQL (enabled,
\* roles), a new address.  It may take away the right to refresh, or give it.
EditAccount(u, ok) ==
  /\ users[u].here /\ ~UserLocked(u)
  /\ users[u].rev < MaxRev
  /\ users' = [users EXCEPT ![u] = [here |-> TRUE, allowed |-> ok, rev |-> users[u].rev + 1]]
  /\ UNCHANGED <<tokens, req, now, minted, opened, parent, signIns>>

\* Variant: no ON DELETE CASCADE.
DeleteUserOnly(u) ==
  /\ users[u].here /\ ~UserLocked(u)
  /\ users' = [users EXCEPT ![u].here = FALSE]
  /\ UNCHANGED <<tokens, req, now, minted, opened, parent, signIns>>

\* DeleteUser: the tokens go with the account (ON DELETE CASCADE), once no other
\* transaction holds the account or one of its tokens.
DeleteUser(u) ==
  /\ users[u].here /\ ~UserLocked(u)
  /\ \A t \in Stored : tokens[t].user = u => ~Locked(t)
  /\ users' = [users EXCEPT ![u].here = FALSE]
  /\ tokens' = [t \in {x \in Stored : tokens[x].user # u} |-> tokens[t]]
  /\ UNCHANGED <<req, now, minted, opened, parent, signIns>>

\* A request fails where it stands: its client or the database goes away, a hook
\* refuses, or the database picks its transaction to break a deadlock.  The open
\* transaction rolls back; what earlier statements committed stays.
Abort(r) ==
  /\ req[r].pc # "idle"
  /\ Finish(r)
  /\ UNCHANGED <<users, tokens, now, minted, opened, parent, signIns>>

Tock ==
  /\ now < MaxTime
  /\ now' = now + 1
  /\ UNCHANGED <<users, tokens, req, minted, opened, parent, signIns>>

-----------------------------------------------------------------------------

Init ==
  /\ users = [u \in User |-> [here |-> TRUE, allowed |-> TRUE, rev |-> 0]]
  /\ tokens = [t \in {} |-> Idle]
  /\ req = [r \in Req |-> Idle]
  /\ now = 1
  /\ minted = {}
  /\ opened = [f \in {} |-> 0]
  /\ parent = [t \in Token |-> None]
  /\ signIns = {}

\* The steps of a request that has begun.
Step(r) ==
  \/ StartSession(r) \/ StartFails(r)
  \/ RotateSpend(r) \/ RotateRefuse(r) \/ RotateNotFound(r) \/ RotateCommit(r)
  \/ Reject(r) \/ RevokeOthers(r) \/ RevokeCommit(r)

Begin(r) ==
  \/ \E u \in User, t \in Token, f \in Family : SignIn(r, u, t, f)
  \/ \E t, s \in Token : Refresh(r, t, s) \/ RefreshPreviewed(r, t, s)
  \/ \E u \in User, t, s \in Token : StepUp(r, u, t, s)
  \/ \E u \in User : RevokeUser(r, u) \/ MarkVerified(r, u)
                      \/ ApplyRoleChange(r, u) \/ ResetMFA(r, u)
  \/ \E u \in User, t \in Token : LogoutOthers(r, u, t)
  \/ \E u \in User, c, t \in Token, f \in Family : ChangePassword(r, u, c, t, f)

Next ==
  \/ \E r \in Req : Begin(r) \/ Step(r) \/ Abort(r)
  \/ \E t \in Token : LogoutLocal(t)
  \/ \E u \in User, ok \in BOOLEAN : EditAccount(u, ok)
  \/ \E u \in User : DeleteUser(u)
  \/ Tock

Spec == Init /\ [][Next]_vars

\* The database breaks a cycle of a rotation r, which waits to store its
\* successor, and a revocation q, which waits for the token r has spent.
Deadlocked(r, q) ==
  /\ req[r].pc = "rotating"
  /\ InsertWaits(req[r].user)
  /\ LocksUser(q, req[r].user)
  /\ req[r].tok \in Reaches(req[q])

BreakDeadlock == \E r, q \in Req : Deadlocked(r, q) /\ (Abort(r) \/ Abort(q))

\* Row locks are granted in the order they were asked for, so a step that can be
\* taken again and again is taken; the deadlock detector always runs.
FairSpec ==
  /\ Spec
  /\ \A r \in Req : SF_vars(Step(r))
  /\ WF_vars(BreakDeadlock)

-----------------------------------------------------------------------------
(* Properties.                                                             *)

\* Every variable has its type.
TypeOK ==
  /\ users \in [User -> Account]
  /\ Stored \subseteq minted
  /\ tokens \in [Stored -> TokenRow]
  /\ req \in [Req -> ReqState]
  /\ now \in Nat
  /\ minted \subseteq Token
  /\ DOMAIN opened \subseteq Family
  /\ opened \in [DOMAIN opened -> Nat]
  /\ parent \in [Token -> Token \cup {None}]
  /\ signIns \subseteq User \X Nat

\* A session has at most one live refresh token, however many requests present
\* its tokens at once (RotateRefreshToken: "of two concurrent uses exactly one
\* gets a row back").
OneLivePerFamily ==
  \A t, u \in Stored :
    IsLive(t) /\ IsLive(u) /\ tokens[t].family = tokens[u].family => t = u

\* A session is a chain: no token is ever rotated into two successors.
NoFork == \A t, u \in minted : parent[t] # None /\ parent[t] = parent[u] => t = u

\* Rotation never extends a session beyond the lifetime it was opened with
\* (newRefreshSession: "rotation can neither outlive the login...").
NeverOutlivesSignIn ==
  \A t \in Stored : /\ tokens[t].family \in DOMAIN opened
                     /\ tokens[t].expiry <= opened[tokens[t].family] + TTL

\* The sign-in time a session carries is one at which its account really proved
\* who it is: neither a rotation nor a password change makes it look recent.
SignInTimeIsReal ==
  \A t \in Stored : tokens[t].auth # 0 => <<tokens[t].user, tokens[t].auth>> \in signIns

\* The claims of a refresh are those of the account the rotation itself read, even
\* when the hook built them earlier (sameAccount).
RefreshClaimsCurrent ==
  \A r \in Req : req[r].pc = "rotating" /\ req[r].op = "refresh"
                   => req[r].claims = req[r].read

\* No refresh token outlives its account, whatever was in flight when the account
\* was deleted.
NoOrphanSession == \A t \in Stored : users[tokens[t].user].here

\* A role change or an MFA reset ends every session of the account, rotations in
\* flight included: it holds the account FOR UPDATE first ("A change revokes every
\* refresh token of the account in the same transaction").
LockedRevocationIsTotal ==
  [][\A r \in Req : RevokeCommit(r) /\ req[r].op \in {"role", "mfaReset"}
       => \A t \in DOMAIN tokens' : tokens'[t].user = req[r].user => tokens'[t].revoked]_vars

\* No token that was live when a revoking statement started is live when it ends,
\* rows another transaction had locked included: a survivor was stored meanwhile.
NothingSeenSurvives ==
  [][\A r \in Req : RevokeCommit(r)
       => \A t \in req[r].snap \cap Stored : tokens'[t].revoked]_vars

\* A replayed token ends its session ("its whole family is revoked").
ReplayEndsFamily ==
  [][\A r \in Req : RevokeCommit(r) /\ req[r].op = "replay"
       => \A t \in Stored : tokens[t].family = req[r].fam => tokens'[t].revoked]_vars

\* Every revocation ends every session of its scope: a replay its family, a
\* sign-out, a password change or a verification the account's sessions.
RevocationIsTotal ==
  [][\A r \in Req : RevokeCommit(r)
       => \A t \in Stored : InScope(req[r], t) => tokens'[t].revoked]_vars

\* The sessions as the abstract ledger sees them, in the tables tk and op.
NoEntry(state) == [state |-> state, user |-> None, deadline |-> 0, auth |-> 0, level |-> 0]

Entry(row) == [state |-> "live", user |-> row.user, deadline |-> row.expiry,
               auth |-> row.auth, level |-> row.aal]

LiveIn(tk, f) == {t \in DOMAIN tk : ~tk[t].revoked /\ tk[t].family = f}

View(tk, op) ==
  [f \in Family |->
    IF f \notin DOMAIN op THEN NoEntry("unborn")
    ELSE IF LiveIn(tk, f) = {} THEN NoEntry("ended")
    ELSE Entry(tk[CHOOSE t \in LiveIn(tk, f) : TRUE])]

LedgerView == View(tokens, opened)

Ledger == INSTANCE SessionLedger WITH ledger <- LedgerView

\* The store keeps the ledger: a session is opened once and keeps its account, its
\* deadline and its sign-in time, its level only rises, and a session that has
\* ended never comes back, for both engines and every interleaving.
KeepsLedger == Ledger!LedgerSpec

\* Every request that has begun comes to an end: lock waits and the deadlocks of a
\* rotation with a revocation included.
RequestsEnd == \A r \in Req : req[r].pc # "idle" ~> req[r].pc = "idle"

-----------------------------------------------------------------------------
(* The inductive invariant behind the safety properties.                   *)

\* Request record s will open the session s.fam.
Opening(s) == s.pc = "start" \/ (s.pc = "revoking" /\ s.op = "password")

\* What a request in flight knows stays true until it acts on it: the token a
\* rotation spent is still live and still its account's, a new token or family is
\* still unused, and a session to store carries a real sign-in time.
ReqOK(s) ==
  /\ s.succ \notin minted
  /\ s.pc \in {"rotate", "rotating"} => /\ s.op \in {"refresh", "stepUp"}
                                       /\ s.tok \in Token /\ s.succ \in Token
  /\ s.pc = "rotating" => /\ s.tok \in Stored /\ ~tokens[s.tok].revoked
                          /\ s.user = tokens[s.tok].user
                          /\ s.op = "refresh" => s.claims = s.read
  /\ s.pc = "revoke" => s.op = "others" /\ s.user \in User
  /\ s.pc = "revoking" => /\ s.op \in RevokeOps
                          /\ s.op # "replay" => s.user \in User
                          /\ s.snap \subseteq minted
  /\ Opening(s) => /\ s.user \in User /\ s.succ \in Token
                   /\ s.fam \in Family \ DOMAIN opened
                   /\ s.auth # 0 => <<s.user, s.auth>> \in signIns
  /\ s.pc = "start" => s.expiry <= now + TTL

\* Two requests never hold the lock of one row nor store one token or family.
Compatible(s, q) ==
  /\ s.pc = "rotating" /\ q.pc = "rotating" => s.tok # q.tok
  /\ s.succ # None => s.succ # q.succ
  /\ Opening(s) /\ Opening(q) => s.fam # q.fam

RequestsOK == \A r \in Req : ReqOK(req[r])

RequestsApart == \A r, q \in Req : r # q => Compatible(req[r], req[q])

\* A token that has a successor is spent.
SpentByRotation ==
  \A t \in Token : parent[t] # None =>
    /\ t \in minted /\ parent[t] \in minted
    /\ parent[t] \in Stored => tokens[parent[t]].revoked

\* While the account is locked FOR UPDATE no token of it escapes the snapshot.
SnapshotComplete ==
  \A r \in Req :
    /\ Engine = "postgres"
    /\ req[r].pc = "revoking"
    /\ req[r].op \in {"role", "mfaReset"}
    => \A t \in Stored : tokens[t].user = req[r].user /\ ~tokens[t].revoked
                          => t \in req[r].snap

IInv ==
  /\ TypeOK /\ RequestsOK /\ RequestsApart
  /\ OneLivePerFamily /\ NoFork /\ SpentByRotation
  /\ NeverOutlivesSignIn /\ SignInTimeIsReal /\ NoOrphanSession
  /\ SnapshotComplete
=============================================================================
