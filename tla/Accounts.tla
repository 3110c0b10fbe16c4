------------------------------ MODULE Accounts ------------------------------
(* The own account and its administration: PATCH /user (handler/user.go), the managed
   users' routes (handler/user_admin*.go) and the store calls behind them (account.go of
   pgstore and mysqlstore), with sign-ins and refreshes running beside them. One account.

   Passwords are numbered as they are set, 0 is none. A session or token remembers, as
   history, when its owner really signed in (root) and which password was shown (proof).
   Sessions that ended are forgotten: module Sessions has their rows. Second factors and
   assurance levels are module Mfa's.                                               *)
EXTENDS Naturals, Sequences, SequencesExt

CONSTANTS
  Req, None,
  OwnPatches, ManagedPatches,   \* metadata changes that are tried, own ones per request
  MaxMetadata,   \* MaxMetadataBytes, in keys
  Window,        \* reauthWindow
  TTL,           \* lifetime of an access token
  MaxPasswords, MaxPatches, MaxTime,   \* bounds
  MaxSessions, MaxTokens   \* bounds: live at the same time

VARIABLES
  now,
  guest,      \* users.is_guest, until the account is upgraded (module Guests)
  state,      \* "on", "off" (disabled), "gone"
  password,   \* number of the stored password
  meta,       \* user_metadata and app_metadata
  patched,    \* history: metadata changes in commit order
  rowLock,    \* request holding the account's row
  sessions,   \* live sessions
  tokens,     \* access tokens out there
  req

account == <<guest, state, password>>
vars == <<now, account, meta, patched, rowLock, sessions, tokens, req>>

Idle == [pc |-> "idle", token |-> None, change |-> None, how |-> None, at |-> None,
         proof |-> None, merged |-> None]

Become(r, q) == req' = [req EXCEPT ![r] = q]

-----------------------------------------------------------------------------
(* Metadata: a map of top-level keys; a patch's None removes its key.      *)

\* MergeMetadata
Merge(stored, patch) ==
  LET given == {k \in DOMAIN patch : patch[k] # None}
      kept == DOMAIN stored \ DOMAIN patch
  IN [k \in given \cup kept |-> IF k \in given THEN patch[k] ELSE stored[k]]

\* mergeIfPatched, for the user's and the app's part.
MergeBoth(stored, change) ==
  [part \in {"user", "app"} |->
     IF change[part] = None THEN stored[part] ELSE Merge(stored[part], change[part])]

Patches(change) == change.user # None \/ change.app # None

\* ErrMetadataTooLarge, of a part that was patched.
TooLarge(merged, change) ==
  \E part \in {"user", "app"} :
    change[part] # None /\ Cardinality(DOMAIN merged[part]) > MaxMetadata

-----------------------------------------------------------------------------
(* Freshness.                                                              *)

RecentlySignedIn(t) == t.at # None /\ now - t.at <= Window

FreshEnough(t) == RecentlySignedIn(t) \/ (guest /\ now - t.iat <= Window)

\* A session is started or refreshed: its access token.
TokenOf(s) == [at |-> s.at, iat |-> now, root |-> s.root]

StartSession(s) ==
  /\ Cardinality(sessions) < MaxSessions /\ Cardinality(tokens) < MaxTokens
  /\ sessions' = sessions \cup {s}
  /\ tokens' = tokens \cup {TokenOf(s)}

-----------------------------------------------------------------------------
(* Signing in with the password, refreshing.                               *)

\* exchangePassword has read the account; the password typed is the one it read.
LoginRead(r) ==
  /\ req[r].pc = "idle" /\ state = "on" /\ password # 0
  /\ Become(r, [Idle EXCEPT !.pc = "login", !.proof = password])
  /\ UNCHANGED <<now, account, meta, patched, rowLock, sessions, tokens>>

\* generateAuthResponse, once the hash was checked: a session of its own.
LoginStart(r) ==
  /\ req[r].pc = "login" /\ state # "gone"
  /\ StartSession([at |-> now, root |-> now,
                   proof |-> req[r].proof, under |-> password])
  /\ Become(r, Idle)
  /\ UNCHANGED <<now, account, meta, patched, rowLock>>

\* A refresh keeps when and how the owner signed in.
Refresh(s) ==
  /\ s \in sessions /\ state = "on" /\ Cardinality(tokens) < MaxTokens
  /\ tokens' = tokens \cup {TokenOf(s)}
  /\ UNCHANGED <<now, account, meta, patched, rowLock, sessions, req>>

-----------------------------------------------------------------------------
(* PATCH /user.                                                            *)

\* Ways mayChangeSensitive and currentPasswordMatches let a change through.
MayChange(t, want, how) ==
  CASE want = "password" -> ~guest /\ ((how = "recent" /\ FreshEnough(t))
                                       \/ (how = "current" /\ ~FreshEnough(t) /\ password # 0))
    [] want = "email" -> how = "recent" /\ FreshEnough(t)
    [] want = "profile" -> how = None

\* UpdateUser up to applyUserUpdate: the token, userAccount, and what a password or an
\* address change needs. One request asks for at most one of the two (validate).
PatchUser(r, t, want, how, patch) ==
  /\ req[r].pc = "idle" /\ t \in tokens /\ now < t.iat + TTL
  /\ state = "on"
  /\ MayChange(t, want, how)
  /\ LET q == [Idle EXCEPT !.pc = want, !.change = [user |-> patch, app |-> None]] IN
       Become(r, IF want = "profile" THEN q ELSE [q EXCEPT !.token = t, !.how = how, !.at = now])
  /\ UNCHANGED <<now, account, meta, patched, rowLock, sessions, tokens>>

\* UpdateManagedUser: a manager's change of both parts.
PatchManaged(r, change) ==
  /\ req[r].pc = "idle"
  /\ Become(r, [Idle EXCEPT !.pc = "profile", !.change = change])
  /\ UNCHANGED <<now, account, meta, patched, rowLock, sessions, tokens>>

\* Variant: the row is read without FOR UPDATE.
ReadRow(r) ==
  LET merged == MergeBoth(meta, req[r].change) IN
  /\ req[r].pc \in {"profile", "password", "email"} /\ req[r].merged = None
  /\ state # "gone" /\ ~TooLarge(merged, req[r].change)
  /\ Become(r, [req[r] EXCEPT !.merged = merged])
  /\ UNCHANGED <<now, account, meta, patched, rowLock, sessions, tokens>>

\* UpdateProfile, SELECT ... FOR UPDATE and the merge. Every PATCH goes through it.
LockRow(r) ==
  LET merged == MergeBoth(meta, req[r].change) IN
  /\ req[r].pc \in {"profile", "password", "email"} /\ req[r].merged = None
  /\ rowLock = None /\ state # "gone" /\ ~TooLarge(merged, req[r].change)
  /\ rowLock' = r
  /\ Become(r, [req[r] EXCEPT !.merged = merged])
  /\ UNCHANGED <<now, account, meta, patched, sessions, tokens>>

\* UpdateProfile's UPDATE and COMMIT; then the password, or the mail, or the answer.
WriteRow(r) ==
  /\ req[r].merged # None /\ req[r].pc \in {"profile", "password", "email"}
  /\ Patches(req[r].change) => Len(patched) < MaxPatches
  /\ meta' = req[r].merged
  /\ patched' = IF Patches(req[r].change) THEN Append(patched, req[r].change) ELSE patched
  /\ rowLock' = IF rowLock = r THEN None ELSE rowLock
  /\ Become(r, CASE req[r].pc = "profile" -> Idle
                 [] req[r].pc = "password" -> [req[r] EXCEPT !.pc = "set"]
                 [] req[r].pc = "email" -> [req[r] EXCEPT !.pc = "mail"])
  /\ UNCHANGED <<now, account, sessions, tokens>>

\* Variant: the sessions are left alone.
SetPasswordOnly(r) ==
  /\ req[r].pc = "set" /\ rowLock = None /\ state # "gone"
  /\ password < MaxPasswords
  /\ password' = password + 1
  /\ Become(r, [req[r] EXCEPT !.pc = "session", !.proof = password + 1])
  /\ UNCHANGED <<now, guest, state, meta, patched, rowLock, tokens, sessions>>

\* Store.ChangePassword: one transaction that ends every session as well.
ChangePassword(r) ==
  /\ req[r].pc = "set" /\ rowLock = None /\ state # "gone"
  /\ password < MaxPasswords
  /\ password' = password + 1
  /\ sessions' = {}
  /\ Become(r, [req[r] EXCEPT !.pc = "session", !.proof = password + 1])
  /\ UNCHANGED <<now, guest, state, meta, patched, rowLock, tokens>>

\* Variant: the new session's own sign-in time stays.
NewAuthTime(t) == now

\* The caller's AuthTime, none when their token says none, replaces the new session's.
CarriedAuthTime(t) == t.at

\* changePassword's startSession for the caller.
CarrySession(r) ==
  LET t == req[r].token IN
  /\ req[r].pc = "session" /\ state # "gone"
  /\ StartSession([at |-> CarriedAuthTime(t), root |-> t.root,
                   proof |-> req[r].proof, under |-> password])
  /\ Become(r, Idle)
  /\ UNCHANGED <<now, account, meta, patched, rowLock>>

\* requestEmailChange, whose link is module EmailLinks'.
RequestEmailChange(r) ==
  /\ req[r].pc = "mail"
  /\ Become(r, Idle)
  /\ UNCHANGED <<now, account, meta, patched, rowLock, sessions, tokens>>

\* Any step may fail (store, hashing, hook, not found, too large): the request answers an
\* error, its transaction is rolled back, what it committed before stays.
Fail(r) ==
  /\ req[r].pc # "idle"
  /\ rowLock' = IF rowLock = r THEN None ELSE rowLock
  /\ Become(r, Idle)
  /\ UNCHANGED <<now, account, meta, patched, sessions, tokens>>

-----------------------------------------------------------------------------
(* Managing the account, and the project's own SQL.                        *)

\* SetUserRole (ApplyRoleChange): under the row lock, every session ends. Roles: Tokens.
SetUserRole ==
  /\ rowLock = None /\ state # "gone"
  /\ sessions' = {}
  /\ UNCHANGED <<now, account, meta, patched, rowLock, tokens, req>>

\* DeleteManagedUser (DeleteUser): its sessions go with the row.
DeleteManagedUser ==
  /\ rowLock = None /\ state # "gone"
  /\ state' = "gone" /\ sessions' = {}
  /\ UNCHANGED <<now, guest, password, meta, patched, rowLock, tokens, req>>

\* The project disables the account in its table.
Disable ==
  /\ rowLock = None /\ state = "on"
  /\ state' = "off"
  /\ UNCHANGED <<now, guest, password, meta, patched, rowLock, sessions, tokens, req>>

\* Time passes; tokens that expired are of no use any more.
Tick ==
  /\ now < MaxTime
  /\ now' = now + 1
  /\ tokens' = {t \in tokens : now + 1 < t.iat + TTL}
  /\ UNCHANGED <<account, meta, patched, rowLock, sessions, req>>

\* A guest with its session, or an account with a session that does not say when its
\* owner signed in, from before that column.
Init ==
  /\ now = 0
  /\ guest \in BOOLEAN /\ state = "on"
  /\ password = IF guest THEN 0 ELSE 1
  /\ meta = [user |-> <<>>, app |-> <<>>]
  /\ patched = <<>>
  /\ rowLock = None
  /\ sessions = {[at |-> IF guest THEN 0 ELSE None, root |-> 0,
                  proof |-> password, under |-> password]}
  /\ tokens = {}
  /\ req = [r \in Req |-> Idle]

Next ==
  \/ \E r \in Req : \/ LoginRead(r) \/ LoginStart(r)
                    \/ LockRow(r) \/ WriteRow(r) \/ ChangePassword(r) \/ CarrySession(r)
                    \/ RequestEmailChange(r) \/ Fail(r)
  \/ \E s \in sessions : Refresh(s)
  \/ \E r \in Req, t \in tokens, want \in {"profile", "password", "email"},
        how \in {"recent", "current", None} :
       \E patch \in OwnPatches[want] : PatchUser(r, t, want, how, patch)
  \/ \E r \in Req, change \in ManagedPatches : PatchManaged(r, change)
  \/ SetUserRole \/ DeleteManagedUser \/ Disable \/ Tick

Spec == Init /\ [][Next]_vars

-----------------------------------------------------------------------------
(* Properties.                                                             *)

\* The stored metadata is what the committed patches make of it, one after the other:
\* no concurrent PATCH, own or managed, undoes another one's keys.
NoPatchLost ==
  meta = FoldLeft(MergeBoth, [user |-> <<>>, app |-> <<>>], patched)

\* A password or address change under way had a proof: the current password, or a real
\* sign-in within the window (a guest: a token issued within it). No chain of refreshes
\* and password changes makes an old sign-in look recent.
SensitiveNeedsProof ==
  \A r \in Req :
    req[r].pc \in {"password", "email", "set", "session", "mail"} =>
      LET t == req[r].token IN
      \/ req[r].how = "current"
      \/ req[r].at - t.root <= Window
      \/ guest /\ req[r].at - t.iat <= Window

\* A password change ends the sessions the old password opened. One is left behind only
\* where its sign-in (or its own password change) had read the account before the change
\* and stored its session after it: it was started under another password than it proved.
OldPasswordSessionsEnd ==
  \A s \in sessions : s.proof # password => s.proof # s.under

=============================================================================
