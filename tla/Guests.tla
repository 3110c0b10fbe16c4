------------------------------- MODULE Guests -------------------------------
(***************************************************************************)
(* Guest accounts of one project, from sign-up to upgrade or removal, and  *)
(* the address changes of guests and full accounts.                        *)
(*                                                                         *)
(* Guest sign-ups are counted under the one row of guest_lock.  A change   *)
(* of address is counted under its account's row and, for a guest, also    *)
(* under guest_lock; the project's mail budget is counted under neither.   *)
(* The sweeper lists idle guests and deletes them one statement at a time, *)
(* while they may come back.  A transaction is split where it may wait or  *)
(* where others see that it has not committed.  Which address an account   *)
(* moves to, and whom it replaces there, is in Identities.                 *)
(***************************************************************************)
EXTENDS Integers, FiniteSets

CONSTANTS
  Client,             \* otpSenderKey
  Req,                \* requests handled at the same time, sweeps included
  None,               \* no client: the change is a full account's
  PerClientHour,      \* GuestLimits
  GuestsPerDay,       \* GuestLimits.PerProjectDay
  MinInterval,        \* EmailChangeLimits
  PerAccountDay,
  PerProjectDay,
  PerGuestClientDay,
  GuestPerProjectDay,
  TTL,                \* emailChangeTTL
  Hour,
  Day,
  Every,              \* guestSweepEvery
  InactiveAfter,      \* guestInactiveAfter
  MaxGuests,          \* bound: guests ever made
  MaxChanges,         \* bound: changes ever stored
  MaxCalls,           \* bound: requests and sweeps ever begun
  MaxTime             \* bound: the clock stops here

VARIABLES
  now,      \* the clock
  made,     \* how many guests were ever made; the newest account id
  users,    \* users[u]: the account row and when its newest token was made
  signUps,  \* signUps[u]: the row of guest_sign_ups stored with account u
  asked,    \* how many changes were ever stored; the newest id
  changes,  \* changes[i]: the row of email_change_tokens with id i
  cleaned,  \* guest_lock.cleaned_at, -1 when it is NULL
  req,      \* req[r]: the handler state of request r
  calls     \* how many requests and sweeps have begun

vars == <<now, made, users, signUps, asked, changes, cleaned, req, calls>>

-----------------------------------------------------------------------------
(* Rows and request records.                                               *)

Account == 1 .. MaxGuests
Id == 1 .. MaxChanges

\* login: last_login_at, or created_at before it; token: created_at of the
\* account's newest refresh token.
UserRow == [kind: {"new", "guest", "full", "gone"}, login: Nat, token: Nat]

NoSignUp == [here |-> FALSE, ip |-> None, made |-> 0]
SignUp == [here: {TRUE}, ip: Client, made: Nat]

\* client: guest_client, None for a full account.  link says whether the link was
\* mailed.  moves is history: how often the change moved its account.
Change == [here: BOOLEAN, user: Account \cup {0}, client: Client \cup {None},
           mailed: BOOLEAN, link: BOOLEAN, made: Nat, consumed: BOOLEAN, moves: Nat]

NoChange == [here |-> FALSE, user |-> 0, client |-> None, mailed |-> FALSE,
             link |-> FALSE, made |-> 0, consumed |-> FALSE, moves |-> 0]

\* at: NOW() of the transaction, or the cutoff of a sweep; left: the guests a
\* sweep has listed and not tried; mailed and link: what changeMail decided.
ReqState ==
  [pc: {"idle", "guest", "create", "change", "locked", "mail", "store", "confirm",
        "sweep", "list", "delete"},
   at: Int, user: Account \cup {0}, client: Client \cup {None}, id: Id \cup {0},
   left: SUBSET Account, mailed: BOOLEAN, link: BOOLEAN]

Idle == [pc |-> "idle", at |-> 0, user |-> 0, client |-> None, id |-> 0, left |-> {},
         mailed |-> FALSE, link |-> FALSE]

Here(u) == users[u].kind \in {"guest", "full"}
Rows == {i \in Id : changes[i].here}
Open(u) == {i \in Rows : changes[i].user = u /\ ~changes[i].consumed}

\* Variant: the counts are not serialised.
NoGuestLock == TRUE

\* SELECT id FROM guest_lock WHERE id = 1 FOR UPDATE would not wait.
GuestLockFree ==
  \A r \in Req : ~ \/ req[r].pc = "create"
                   \/ req[r].pc \in {"mail", "store"} /\ req[r].client # None

\* Variant: SaveEmailChange reads the account without FOR UPDATE.
NobodyLocks(u) == TRUE

\* No change in progress holds account u FOR UPDATE.
AccountFree(u) ==
  \A r \in Req : req[r].pc \in {"locked", "mail", "store"} => req[r].user # u

\* Variant: ConfirmEmailChange reads the change without FOR UPDATE.
NoRowLock(i) == TRUE

\* No confirmation holds change i FOR UPDATE.
RowFree(i) == \A r \in Req : req[r].pc = "confirm" => req[r].id # i

RowsFree(S) == \A i \in S : RowFree(i)

\* A request arrives, or the sweeper's ticker fires.
Begin(r) ==
  /\ req[r].pc = "idle"
  /\ calls < MaxCalls
  /\ calls' = calls + 1

Finish(r) == req' = [req EXCEPT ![r] = Idle]

Consumed(S) ==
  [i \in Id |-> IF i \in S THEN [changes[i] EXCEPT !.consumed = TRUE] ELSE changes[i]]

\* ON DELETE CASCADE.
Without(u) == [i \in Id |-> IF changes[i].user = u THEN NoChange ELSE changes[i]]

-----------------------------------------------------------------------------
(* Guest sign-up.                                                          *)

\* SignInAsGuest reaches CreateGuest; from here on NOW() is fixed.
SignInAsGuest(r, c) ==
  /\ Begin(r)
  /\ made < MaxGuests
  /\ req' = [req EXCEPT ![r] = [Idle EXCEPT !.pc = "guest", !.at = now, !.client = c]]
  /\ UNCHANGED <<now, made, users, signUps, asked, changes, cleaned>>

SignedUpSince(t) == {u \in Account : signUps[u].here /\ signUps[u].made > t}

GuestsWithin(at, c) ==
  /\ Cardinality({u \in SignedUpSince(at - Hour) : signUps[u].ip = c}) < PerClientHour
  /\ Cardinality(SignedUpSince(at - Day)) < GuestsPerDay

\* CreateGuest: the lock row and the counts.
GuestCounts(r) ==
  /\ req[r].pc = "guest"
  /\ GuestLockFree
  /\ made < MaxGuests
  /\ GuestsWithin(req[r].at, req[r].client)
  /\ req' = [req EXCEPT ![r].pc = "create"]
  /\ UNCHANGED <<now, made, users, signUps, asked, changes, cleaned, calls>>

\* The row of guest_sign_ups.
SignedUp(c, at) == [here |-> TRUE, ip |-> c, made |-> at]

\* CreateGuest: rows older than a day go, the sign-up and the account are stored,
\* COMMIT; then the first token of its session (generateAuthResponse).
CreateGuest(r) ==
  LET u  == made + 1
      at == req[r].at
  IN  /\ req[r].pc = "create"
      /\ made' = u
      /\ signUps' = [v \in Account |->
           IF v = u THEN SignedUp(req[r].client, at)
           ELSE IF signUps[v].here /\ signUps[v].made < at - Day THEN NoSignUp
           ELSE signUps[v]]
      /\ users' = [users EXCEPT ![u] = [kind |-> "guest", login |-> at, token |-> at]]
      /\ Finish(r)
      /\ UNCHANGED <<now, asked, changes, cleaned, calls>>

\* A refresh of a guest's session: its token is stored once the account is free.
Refresh(u) ==
  /\ users[u].kind = "guest"
  /\ AccountFree(u)
  /\ users[u].token # now
  /\ users' = [users EXCEPT ![u].token = now]
  /\ UNCHANGED <<now, made, signUps, asked, changes, cleaned, req, calls>>

\* upgradeGuest; when a full account was last in use is in no query of this module.
Full == [kind |-> "full", login |-> 0, token |-> 0]

\* LinkIdentity of a guest.
UpgradeGuest(u) ==
  /\ users[u].kind = "guest"
  /\ AccountFree(u)
  /\ users' = [users EXCEPT ![u] = Full]
  /\ UNCHANGED <<now, made, signUps, asked, changes, cleaned, req, calls>>

-----------------------------------------------------------------------------
(* Changes of address.                                                     *)

\* UpdateUser has read the account, and whether it is a guest, when
\* requestEmailChange begins its transaction.
RequestEmailChange(r, u, c) ==
  /\ Begin(r)
  /\ asked < MaxChanges
  /\ Here(u)
  /\ req' = [req EXCEPT ![r] =
       [Idle EXCEPT !.pc = "change", !.at = now, !.user = u,
                    !.client = IF users[u].kind = "guest" THEN c ELSE None]]
  /\ UNCHANGED <<now, made, users, signUps, asked, changes, cleaned>>

ChangedSince(t) == {i \in Rows : changes[i].made > t}

AccountWithin(at, u) ==
  /\ {i \in ChangedSince(at - MinInterval) : changes[i].user = u} = {}
  /\ Cardinality({i \in ChangedSince(at - Day) : changes[i].user = u}) < PerAccountDay

\* SaveEmailChange: linkTarget FOR UPDATE, then the account's counts.
LockAccount(r) ==
  LET u == req[r].user
  IN  /\ req[r].pc = "change"
      /\ AccountFree(u)
      /\ Here(u)
      /\ AccountWithin(req[r].at, u)
      /\ req' = [req EXCEPT ![r].pc = IF req[r].client = None THEN "mail" ELSE "locked"]
      /\ UNCHANGED <<now, made, users, signUps, asked, changes, cleaned, calls>>

GuestChangeWithin(at, c) ==
  LET guests == {i \in ChangedSince(at - Day) : changes[i].client # None}
  IN  /\ Cardinality({i \in guests : changes[i].client = c}) < PerGuestClientDay
      /\ Cardinality({i \in guests : changes[i].mailed}) < GuestPerProjectDay

\* guestChangeAllowed.
LockGuests(r) ==
  /\ req[r].pc = "locked"
  /\ GuestLockFree
  /\ GuestChangeWithin(req[r].at, req[r].client)
  /\ req' = [req EXCEPT ![r].pc = "mail"]
  /\ UNCHANGED <<now, made, users, signUps, asked, changes, cleaned, calls>>

\* The project's mail budget leaves a notice.
Notice(at) ==
  Cardinality({i \in ChangedSince(at - Day) : changes[i].mailed}) < PerProjectDay

\* changeMail; held says whether somebody else answers to the address.
ChangeMail(r, held) ==
  /\ req[r].pc = "mail"
  /\ req' = [req EXCEPT ![r].pc = "store", ![r].mailed = Notice(req[r].at),
                        ![r].link = Notice(req[r].at) /\ ~held]
  /\ UNCHANGED <<now, made, users, signUps, asked, changes, cleaned, calls>>

\* Rows older than a day.
Stale(at) == {i \in Rows : changes[i].made < at - Day}

\* endChangesQuery, whether or not anything is mailed.
Superseded(u) == Open(u)

\* SaveEmailChange: the account's open changes end, old rows go, the new one is
\* stored, COMMIT.
SaveEmailChange(r) ==
  LET q == req[r]
  IN  /\ q.pc = "store"
      /\ asked < MaxChanges
      /\ RowsFree(Superseded(q.user) \cup Stale(q.at))
      /\ asked' = asked + 1
      /\ changes' = [i \in Id |->
           IF i = asked + 1
             THEN [NoChange EXCEPT !.here = TRUE, !.user = q.user, !.client = q.client,
                     !.mailed = q.mailed, !.link = q.link, !.made = q.at]
           ELSE IF i \in Stale(q.at) THEN NoChange
           ELSE Consumed(Superseded(q.user))[i]]
      /\ Finish(r)
      /\ UNCHANGED <<now, made, users, signUps, cleaned, calls>>

\* ConfirmEmailChange: the account that asked shows its link; the row is locked.
ConfirmReads(r, i) ==
  /\ Begin(r)
  /\ changes[i].here /\ changes[i].link /\ ~changes[i].consumed
  /\ now < changes[i].made + TTL
  /\ RowFree(i)
  /\ req' = [req EXCEPT ![r] =
       [Idle EXCEPT !.pc = "confirm", !.id = i, !.user = changes[i].user]]
  /\ UNCHANGED <<now, made, users, signUps, asked, changes, cleaned>>

\* ConfirmEmailChange: the account, its new address, upgradeGuest, endChanges.
ConfirmEmailChange(r) ==
  LET i == req[r].id
      u == req[r].user
  IN  /\ req[r].pc = "confirm"
      /\ Here(u)
      /\ AccountFree(u)
      /\ RowsFree(Open(u) \ {i})
      /\ users' = [users EXCEPT ![u] = Full]
      /\ changes' = [Consumed(Open(u)) EXCEPT ![i].moves = @ + 1]
      /\ Finish(r)
      /\ UNCHANGED <<now, made, signUps, asked, cleaned, calls>>

\* endSessionsAndLinks.
EndChanges(u) ==
  /\ Open(u) # {}
  /\ RowsFree(Open(u))
  /\ changes' = Consumed(Open(u))
  /\ UNCHANGED <<now, made, users, signUps, asked, cleaned, req, calls>>

-----------------------------------------------------------------------------
(* Removal.                                                                *)

Removable(u) == AccountFree(u) /\ RowsFree({i \in Rows : changes[i].user = u})

Remove(u) ==
  /\ users' = [users EXCEPT ![u] = [kind |-> "gone", login |-> 0, token |-> 0]]
  /\ changes' = Without(u)

DeleteUser(u) ==
  /\ Here(u)
  /\ Removable(u)
  /\ Remove(u)
  /\ UNCHANGED <<now, made, signUps, asked, cleaned, req, calls>>

\* sweepProject: ClaimGuestCleanup, one replica a day.
ClaimGuestCleanup(r) ==
  /\ Begin(r)
  /\ GuestLockFree
  /\ cleaned = -1 \/ cleaned <= now - Every
  /\ cleaned' = now
  /\ req' = [req EXCEPT ![r] = [Idle EXCEPT !.pc = "sweep", !.at = now - InactiveAfter]]
  /\ UNCHANGED <<now, made, users, signUps, asked, changes>>

\* The columns of the account row that both queries test.
IdleRow(u, cutoff) == users[u].kind = "guest" /\ users[u].login < cutoff

\* inactiveGuestsQuery, and again the WHERE of the DELETE.
IdleGuest(u, cutoff) == IdleRow(u, cutoff) /\ users[u].token < cutoff

\* DeleteInactiveGuests: a page of candidates.
InactiveGuests(r) ==
  /\ req[r].pc = "sweep"
  /\ req' = [req EXCEPT ![r].pc = "list",
                        ![r].left = {u \in Account : IdleGuest(u, req[r].at)}]
  /\ UNCHANGED <<now, made, users, signUps, asked, changes, cleaned, calls>>

\* deleteInactiveGuest: the DELETE begins, and its snapshot shows the guest idle.
DeleteBegins(r, u) ==
  /\ req[r].pc = "list"
  /\ u \in req[r].left
  /\ IdleGuest(u, req[r].at)
  /\ req' = [req EXCEPT ![r].pc = "delete", ![r].user = u, ![r].left = @ \ {u}]
  /\ UNCHANGED <<now, made, users, signUps, asked, changes, cleaned, calls>>

\* The guest came back since the list was read.
DeleteSkips(r, u) ==
  /\ req[r].pc = "list"
  /\ u \in req[r].left
  /\ ~IdleGuest(u, req[r].at)
  /\ req' = [req EXCEPT ![r].left = @ \ {u}]
  /\ UNCHANGED <<now, made, users, signUps, asked, changes, cleaned, calls>>

\* Variant: the DELETE takes the word of the list.
RecheckNothing(u, cutoff) == Here(u)

\* Once it has the row's lock the engine tests the row again, as it is now, but
\* not the tokens it did not find.
Recheck(u, cutoff) == IdleRow(u, cutoff)

\* deleteInactiveGuest: the row is deleted.
DeleteInactiveGuest(r) ==
  LET u == req[r].user
  IN  /\ req[r].pc = "delete"
      /\ Removable(u)
      /\ Recheck(u, req[r].at)
      /\ Remove(u)
      /\ req' = [req EXCEPT ![r].pc = "list", ![r].user = 0]
      /\ UNCHANGED <<now, made, signUps, asked, cleaned, calls>>

\* The row no longer matches, or an app table references it.
DeleteNothing(r) ==
  /\ req[r].pc = "delete"
  /\ Removable(req[r].user)
  /\ req' = [req EXCEPT ![r].pc = "list", ![r].user = 0]
  /\ UNCHANGED <<now, made, users, signUps, asked, changes, cleaned, calls>>

\* The sweep is over.
Swept(r) ==
  /\ req[r].pc = "list"
  /\ req[r].left = {}
  /\ Finish(r)
  /\ UNCHANGED <<now, made, users, signUps, asked, changes, cleaned, calls>>

-----------------------------------------------------------------------------
(* The specification.                                                      *)

\* Any refusal (ErrRateLimited, ErrNotFound, ErrIdentityExists), failure or
\* deadlock victim: the open transaction is rolled back.
Abort(r) ==
  /\ req[r].pc # "idle"
  /\ Finish(r)
  /\ UNCHANGED <<now, made, users, signUps, asked, changes, cleaned, calls>>

Tick ==
  /\ now < MaxTime
  /\ now' = now + 1
  /\ UNCHANGED <<made, users, signUps, asked, changes, cleaned, req, calls>>

Init ==
  /\ now = 0
  /\ made = 0
  /\ users = [u \in Account |-> [kind |-> "new", login |-> 0, token |-> 0]]
  /\ signUps = [u \in Account |-> NoSignUp]
  /\ asked = 0
  /\ changes = [i \in Id |-> NoChange]
  /\ cleaned = -1
  /\ req = [r \in Req |-> Idle]
  /\ calls = 0

Next ==
  \/ \E r \in Req, c \in Client : SignInAsGuest(r, c)
  \/ \E r \in Req : GuestCounts(r) \/ CreateGuest(r)
  \/ \E r \in Req, u \in Account, c \in Client : RequestEmailChange(r, u, c)
  \/ \E r \in Req : LockAccount(r) \/ LockGuests(r) \/ SaveEmailChange(r)
  \/ \E r \in Req, held \in BOOLEAN : ChangeMail(r, held)
  \/ \E r \in Req, i \in Id : ConfirmReads(r, i)
  \/ \E r \in Req : ConfirmEmailChange(r)
  \/ \E u \in Account : Refresh(u) \/ UpgradeGuest(u) \/ EndChanges(u) \/ DeleteUser(u)
  \/ \E r \in Req : ClaimGuestCleanup(r) \/ InactiveGuests(r)
  \/ \E r \in Req, u \in Account : DeleteBegins(r, u) \/ DeleteSkips(r, u)
  \/ \E r \in Req : DeleteInactiveGuest(r) \/ DeleteNothing(r) \/ Swept(r) \/ Abort(r)
  \/ Tick

Spec == Init /\ [][Next]_vars

-----------------------------------------------------------------------------
(* Properties.                                                             *)

\* The rows and the request records keep their types.
TypeOK ==
  /\ now \in Nat
  /\ made \in 0 .. MaxGuests
  /\ users \in [Account -> UserRow]
  /\ signUps \in [Account -> SignUp \cup {NoSignUp}]
  /\ asked \in 0 .. MaxChanges
  /\ changes \in [Id -> Change]
  /\ cleaned \in Nat \cup {-1}
  /\ req \in [Req -> ReqState]
  /\ calls \in 0 .. MaxCalls

Window(t, age) == (t - age + 1) .. t

\* However many replicas sign guests up at once: a client makes PerClientHour
\* guests an hour and the project GuestsPerDay a day (GuestLimits, CreateGuest).
GuestBudgetsHold ==
  \A u \in SignedUpSince(-1) :
    LET day  == {v \in SignedUpSince(-1) : signUps[v].made \in Window(signUps[u].made, Day)}
        hour == {v \in day : signUps[v].made \in Window(signUps[u].made, Hour)}
    IN  /\ Cardinality({v \in hour : signUps[v].ip = signUps[u].ip}) <= PerClientHour
        /\ Cardinality(day) <= GuestsPerDay

\* "One a minute and five a day per account", and guests "five a day per client
\* and half the project's mails": however many requests of one account or of
\* several guests are in flight, and even as a guest is upgraded meanwhile. The
\* project's mails are counted under no lock of the project, so requests of several
\* accounts may each see the last one free: that budget is overrun by no more than
\* the requests that were in flight with the last one (changeMail).
ChangeBudgetsHold ==
  \A i \in Rows :
    LET day   == {j \in Rows : changes[j].made \in Window(changes[i].made, Day)}
        own   == {j \in day : changes[j].user = changes[i].user}
        guest == {j \in day : changes[j].client # None}
    IN  /\ {j \in own : changes[j].made \in Window(changes[i].made, MinInterval)} = {i}
        /\ Cardinality(own) <= PerAccountDay
        /\ changes[i].client # None =>
             Cardinality({j \in guest : changes[j].client = changes[i].client}) <= PerGuestClientDay
        /\ Cardinality({j \in guest : changes[j].mailed}) <= GuestPerProjectDay
        /\ Cardinality({j \in day : changes[j].mailed}) <= PerProjectDay + Cardinality(Req) - 1

\* A link moves its account at most once, and never after a newer request, another
\* confirmation or the end of the sessions ended it.
EndedNeverMoves ==
  [][\A i \in Rows : changes'[i].moves > changes[i].moves
       => ~changes[i].consumed /\ changes[i].moves = 0]_vars

\* "re-checks the guest is still idle as it deletes it" (deleteInactiveGuest), as
\* far as the account row tells: a sweep that listed a guest never deletes the
\* full account it became before the DELETE, nor one signed in since the cutoff.
SweptWereGuests ==
  [][\A r \in Req :
       (/\ req[r].pc = "delete" /\ req'[r].pc = "list"
        /\ Here(req[r].user) /\ users'[req[r].user].kind = "gone")
         => IdleRow(req[r].user, req[r].at)]_vars

=============================================================================
