----------------------------- MODULE EmailOtps -----------------------------
(***************************************************************************)
(* Emailed sign-in links and codes of one project: the rows of email_otps, *)
(* the budgets counted from them, and what one try spends.                 *)
(*                                                                         *)
(* A send takes the one row of email_otp_lock, counts, ends the earlier    *)
(* rows of its address and browser and stores its own.  A try locks the    *)
(* row it finds, checks what was typed and writes the attempts back.  Both *)
(* are two actions, up to the decision and from it on, with everything     *)
(* else in between that the locks let in.  NOW() of a transaction is when  *)
(* it began, which may be long before it is given the lock.                *)
(***************************************************************************)
EXTENDS Integers, FiniteSets

CONSTANTS
  Address,            \* addresses, as AddressKey tells them apart
  Browser,            \* holders of a PKCE verifier; a challenge is its browser
  Client,             \* otpSenderKey
  User,               \* accounts that link an address; a deleted one is followed by another
  Req,                \* requests the server handles at the same time
  None,               \* nothing of its kind
  MinInterval,        \* OTPLimits
  PerAddressHour,
  PerIPDay,
  PerProjectDay,
  LinksPerAccountDay,
  PerCode,            \* OTPAttempts
  TTL,                \* otpTTL
  Hour,
  Day,
  MaxSends,           \* bound: rows ever stored
  MaxTime             \* bound: the clock stops here

ASSUME EmailOtpsAssumption ==
  /\ None \notin User \cup Client
  /\ MinInterval \in Nat \ {0}
  /\ PerAddressHour \in Nat
  /\ PerIPDay \in Nat
  /\ PerProjectDay \in Nat
  /\ LinksPerAccountDay \in Nat \ {0}
  /\ PerCode \in Nat \ {0}
  /\ TTL \in Nat
  /\ Hour \in Nat
  /\ Day \in Nat
  /\ MinInterval <= Hour /\ Hour <= Day
  /\ MaxSends \in Nat
  /\ MaxTime \in Nat

VARIABLES
  now,    \* the clock
  sent,   \* how many rows were ever stored; the newest id
  otps,   \* otps[i]: the row of email_otps with id i
  req     \* req[r]: the handler state of request r

vars == <<now, sent, otps, req>>

-----------------------------------------------------------------------------
(* Rows and request records.                                               *)

Id == 1 .. MaxSends

NoOtp == [here |-> FALSE, email |-> None, kind |-> "link", challenge |-> None,
          mailed |-> FALSE, ip |-> None, user |-> None, made |-> 0, attempts |-> 0,
          consumed |-> FALSE, tries |-> 0, wins |-> 0]

\* here: stored and not yet deleted.  tries and wins are history: how often
\* what was typed was compared with the row, and how often it was accepted.
Otp == [here: BOOLEAN, email: Address, kind: {"link", "code"}, challenge: Browser,
        mailed: BOOLEAN, ip: Client, user: User \cup {None}, made: 0 .. MaxTime,
        attempts: 0 .. PerCode, consumed: BOOLEAN, tries: Nat, wins: Nat]

\* at is NOW() of the transaction, otp the row a send is about to store, id and
\* seen what a try has read.
ReqState ==
  [pc: {"idle", "begun", "store", "check"}, at: 0 .. MaxTime, otp: Otp \cup {NoOtp},
   id: Id \cup {0}, seen: Nat, browser: Browser \cup {None}]

Idle == [pc |-> "idle", at |-> 0, otp |-> NoOtp, id |-> 0, seen |-> 0, browser |-> None]

Rows == {i \in Id : otps[i].here}

\* mailed AND consumed_at IS NULL AND expires_at > NOW().
Live(i) ==
  otps[i].here /\ otps[i].mailed /\ ~otps[i].consumed /\ now < otps[i].made + TTL

\* Variant: the send takes no lock.
NoLockRow == TRUE

\* email_otp_lock: one send counts and stores at a time.
LockRowFree == \A r \in Req : req[r].pc # "store"

\* Variant: a try reads the row without FOR UPDATE.
NoRowLock(i) == TRUE

\* No try holds row i FOR UPDATE.
RowFree(i) == \A r \in Req : req[r].pc = "check" => req[r].id # i

Finish(r) == req' = [req EXCEPT ![r] = Idle]

-----------------------------------------------------------------------------
(* Sending.                                                                *)

\* SaveEmailOTP begins: from here on NOW() is fixed.
SaveBegins(r) ==
  /\ req[r].pc = "idle"
  /\ sent < MaxSends
  /\ req' = [req EXCEPT ![r] = [Idle EXCEPT !.pc = "begun", !.at = now]]
  /\ UNCHANGED <<now, sent, otps>>

\* newEmailOTP, with the fields its callers add.
NewOtp(at, a, kind, b, c, u, mailed) ==
  [NoOtp EXCEPT !.here = TRUE, !.email = a, !.kind = kind, !.challenge = b,
                !.mailed = mailed, !.ip = c, !.user = u, !.made = at]

\* The counts of withinOTPLimits; `at` is NOW() of the transaction.
Since(at, age) == {i \in Rows : otps[i].made > at - age}
OfAddress(S, a) == {i \in S : otps[i].email = a}

WithinLimits(otp) ==
  /\ OfAddress(Since(otp.made, MinInterval), otp.email) = {}
  /\ Cardinality(OfAddress(Since(otp.made, Hour), otp.email)) < PerAddressHour
  /\ Cardinality({i \in Since(otp.made, Day) : otps[i].ip = otp.ip}) < PerIPDay
  /\ otp.user # None =>
       Cardinality({i \in Since(otp.made, Day) : otps[i].user = otp.user}) < LinksPerAccountDay

MailedToday(at) == {i \in Since(at, Day) : otps[i].mailed}

\* SaveEmailOTP: the lock row, withinOTPLimits.
SaveCounts(r, otp) ==
  /\ req[r].pc = "begun"
  /\ LockRowFree
  /\ sent < MaxSends
  /\ WithinLimits(otp)
  /\ req' = [req EXCEPT ![r].pc = "store",
       ![r].otp = [otp EXCEPT
         !.mailed = @ /\ Cardinality(MailedToday(otp.made)) < PerProjectDay]]
  /\ UNCHANGED <<now, sent, otps>>

\* ErrRateLimited.
SaveRefused(r, otp) ==
  /\ req[r].pc = "begun"
  /\ LockRowFree
  /\ ~WithinLimits(otp)
  /\ Finish(r)
  /\ UNCHANGED <<now, sent, otps>>

\* mayMail says whether the address may be mailed; the row is stored either way.
SendOTP(r, a, kind, b, c) ==
  \E mailed \in BOOLEAN :
    LET otp == NewOtp(req[r].at, a, kind, b, c, None, mailed)
    IN  SaveCounts(r, otp) \/ SaveRefused(r, otp)

StartAddressLink(r, a, kind, b, c, u) ==
  LET otp == NewOtp(req[r].at, a, kind, b, c, u, TRUE)
  IN  SaveCounts(r, otp) \/ SaveRefused(r, otp)

\* The rows a mailed send ends.
Superseded(otp) ==
  {i \in Rows : /\ otp.mailed
                /\ otps[i].email = otp.email
                /\ otps[i].challenge = otp.challenge
                /\ ~otps[i].consumed}

\* Rows older than a day.
Stale(otp) == {i \in Rows : otps[i].made < otp.made - Day}

\* SaveEmailOTP: rows older than a day go, superseded ones end, the new one is
\* stored, COMMIT.
SaveStores(r) ==
  LET otp == req[r].otp
  IN  /\ req[r].pc = "store"
      /\ \A i \in Stale(otp) \cup Superseded(otp) : RowFree(i)
      /\ sent' = sent + 1
      /\ otps' = [i \in Id |->
           IF i = sent + 1 THEN otp
           ELSE IF i \in Stale(otp) THEN NoOtp
           ELSE IF i \in Superseded(otp) THEN [otps[i] EXCEPT !.consumed = TRUE]
           ELSE otps[i]]
      /\ Finish(r)
      /\ UNCHANGED now

-----------------------------------------------------------------------------
(* Spending.                                                               *)

\* liveLinkQuery finds the link whose hash was shown; liveCodeQuery the newest
\* live code of the address that the verifier's challenge asked for.
Offered(i, b) ==
  /\ Live(i)
  /\ otps[i].kind = "code" =>
       /\ otps[i].attempts < PerCode
       /\ otps[i].challenge = b
       /\ \A j \in Id :
            /\ Live(j) /\ otps[j].kind = "code" /\ otps[j].attempts < PerCode
            /\ otps[j].email = otps[i].email /\ otps[j].challenge = b
            => \/ otps[j].made < otps[i].made
               \/ otps[j].made = otps[i].made /\ j <= i

\* VerifyOTP, redeemOTP: the SELECT ... FOR UPDATE of RedeemEmailOTP.
RedeemReads(r, i, b) ==
  /\ req[r].pc = "idle"
  /\ Offered(i, b)
  /\ RowFree(i)
  /\ req' = [req EXCEPT ![r] =
       [Idle EXCEPT !.pc = "check", !.id = i, !.seen = otps[i].attempts, !.browser = b]]
  /\ UNCHANGED <<now, sent, otps>>

\* Variant: a refused link may be tried again.
SpentByAcceptance(kind, seen, accepted) ==
  accepted \/ (kind = "code" /\ seen + 1 >= PerCode)

\* A try that is accepted spends the row, a refused one a link or the last guess.
Spent(kind, seen, accepted) ==
  accepted \/ kind = "link" \/ seen + 1 >= PerCode

\* The check redeemOTP makes: only the browser that asked has the verifier, and
\* it may or may not have the secret.
MayAccept(i, b) == otps[i].challenge = b

\* The UPDATE of RedeemEmailOTP, which sets consumed_at to NULL when nothing is
\* spent.
Tried(otp, seen, accepted) ==
  [otp EXCEPT !.attempts = IF accepted THEN seen ELSE seen + 1,
              !.consumed = Spent(otp.kind, seen, accepted),
              !.tries = @ + 1,
              !.wins = IF accepted THEN @ + 1 ELSE @]

\* The rest of RedeemEmailOTP.
RedeemCommits(r, accepted) ==
  LET i == req[r].id
  IN  /\ req[r].pc = "check"
      /\ accepted => MayAccept(i, req[r].browser)
      /\ otps' = [otps EXCEPT ![i] = Tried(@, req[r].seen, accepted)]
      /\ Finish(r)
      /\ UNCHANGED <<now, sent>>

\* endSessionsAndLinks, which waits for a try that holds one of its rows.
EndLinks(u) ==
  LET ended == {i \in Rows : otps[i].user = u /\ ~otps[i].consumed}
  IN  /\ ended # {}
      /\ \A i \in ended : RowFree(i)
      /\ otps' = [i \in Id |->
           IF i \in ended THEN [otps[i] EXCEPT !.consumed = TRUE] ELSE otps[i]]
      /\ UNCHANGED <<now, sent, req>>

\* The account is deleted, its rows by ON DELETE CASCADE with it.
DeleteUser(u) ==
  LET owned == {i \in Rows : otps[i].user = u}
  IN  /\ owned # {}
      /\ \A i \in owned : RowFree(i)
      /\ otps' = [i \in Id |-> IF i \in owned THEN NoOtp ELSE otps[i]]
      /\ UNCHANGED <<now, sent, req>>

\* The request stops; an open transaction is rolled back.
Abort(r) ==
  /\ req[r].pc # "idle"
  /\ Finish(r)
  /\ UNCHANGED <<now, sent, otps>>

Tick ==
  /\ now < MaxTime
  /\ now' = now + 1
  /\ UNCHANGED <<sent, otps, req>>

-----------------------------------------------------------------------------
(* The specification.                                                      *)

Init ==
  /\ now = 0
  /\ sent = 0
  /\ otps = [i \in Id |-> NoOtp]
  /\ req = [r \in Req |-> Idle]

Kind == {"link", "code"}

Next ==
  \/ \E r \in Req, a \in Address, kind \in Kind, b \in Browser, c \in Client :
       SendOTP(r, a, kind, b, c)
  \/ \E r \in Req, a \in Address, kind \in Kind, b \in Browser, c \in Client, u \in User :
       StartAddressLink(r, a, kind, b, c, u)
  \/ \E r \in Req : SaveBegins(r) \/ SaveStores(r) \/ Abort(r)
  \/ \E r \in Req, i \in Id, b \in Browser : RedeemReads(r, i, b)
  \/ \E r \in Req, accepted \in BOOLEAN : RedeemCommits(r, accepted)
  \/ \E u \in User : EndLinks(u) \/ DeleteUser(u)
  \/ Tick

Spec == Init /\ [][Next]_vars

-----------------------------------------------------------------------------
(* Properties.                                                             *)

\* The rows and the request records keep their types.
TypeOK ==
  /\ now \in 0 .. MaxTime
  /\ sent \in 0 .. MaxSends
  /\ otps \in [Id -> Otp \cup {NoOtp}]
  /\ req \in [Req -> ReqState]

\* The rows made in the time up to t, and up to row i.
Window(t, age) == {j \in Rows : t - age < otps[j].made /\ otps[j].made <= t}
Before(i, age) == Window(otps[i].made, age)

\* However sends of several replicas overlap, and however long one waited for
\* the lock after its clock was read: an address is sent to at most once a
\* MinInterval and PerAddressHour times an hour, a client sends PerIPDay a day,
\* an account asks for LinksPerAccountDay links a day and the project mails
\* PerProjectDay (OTPLimits).
SendBudgetsHold ==
  \A i \in Rows :
    /\ OfAddress(Before(i, MinInterval), otps[i].email) = {i}
    /\ Cardinality(OfAddress(Before(i, Hour), otps[i].email)) <= PerAddressHour
    /\ Cardinality({j \in Before(i, Day) : otps[j].ip = otps[i].ip}) <= PerIPDay
    /\ Cardinality({j \in Before(i, Day) : otps[j].mailed}) <= PerProjectDay
    /\ otps[i].user # None =>
         Cardinality({j \in Before(i, Day) : otps[j].user = otps[i].user}) <= LinksPerAccountDay

\* "A link is spent by its first try; a code by its fifth wrong one": however many
\* tries run at once, a link is compared once and a code PerCode times, and
\* neither is accepted twice (RedeemEmailOTP).
TriesAreCounted ==
  \A i \in Rows :
    /\ otps[i].tries <= IF otps[i].kind = "link" THEN 1 ELSE PerCode
    /\ otps[i].wins <= 1

\* A row that was spent, superseded by a newer one or ended with the account's
\* sessions is never live again, though a refused try writes consumed_at = NULL.
ConsumedForGood ==
  [][\A i \in Rows : otps[i].consumed => ~otps'[i].here \/ otps'[i].consumed]_vars

-----------------------------------------------------------------------------
(* The inductive invariant.                                                *)

\* Whatever the moment, not only when a row is made, the time up to it is in budget.
WindowsHold ==
  /\ \A i, j \in Rows :
       i # j /\ otps[i].email = otps[j].email =>
         \/ otps[i].made + MinInterval <= otps[j].made
         \/ otps[j].made + MinInterval <= otps[i].made
  /\ \A t \in 0 .. MaxTime :
       /\ \A a \in Address : Cardinality(OfAddress(Window(t, Hour), a)) <= PerAddressHour
       /\ \A c \in Client : Cardinality({j \in Window(t, Day) : otps[j].ip = c}) <= PerIPDay
       /\ Cardinality({j \in Window(t, Day) : otps[j].mailed}) <= PerProjectDay
       /\ \A u \in User :
            Cardinality({j \in Window(t, Day) : otps[j].user = u}) <= LinksPerAccountDay

\* A row that is not consumed has been tried as often as it says and never accepted.
RowOK(i) ==
  /\ otps[i].here => i <= sent
  /\ otps[i].here => otps[i].wins <= 1
  /\ otps[i].here => otps[i].tries <= IF otps[i].kind = "link" THEN 1 ELSE PerCode
  /\ otps[i].here /\ ~otps[i].consumed =>
       /\ otps[i].wins = 0 /\ otps[i].tries = otps[i].attempts /\ otps[i].tries < PerCode
       /\ otps[i].kind = "link" => otps[i].tries = 0

\* What a send has counted still holds when it stores, since it has the lock row.
SendOK(r) ==
  LET otp == req[r].otp
  IN  /\ otp \in Otp
      /\ otp.here /\ ~otp.consumed /\ otp.attempts = 0 /\ otp.tries = 0 /\ otp.wins = 0
      /\ sent < MaxSends
      /\ WithinLimits(otp)
      /\ otp.mailed => Cardinality(MailedToday(otp.made)) < PerProjectDay
      /\ \A s \in Req : req[s].pc = "store" => s = r

\* The row a try has read is as it was, since the try has its lock.
TryOK(r) ==
  LET i == req[r].id
  IN  /\ i \in Rows /\ ~otps[i].consumed /\ otps[i].attempts = req[r].seen
      /\ \A s \in Req : req[s].pc = "check" /\ req[s].id = i => s = r

IInv ==
  /\ TypeOK
  /\ WindowsHold
  /\ \A i \in Id : RowOK(i)
  /\ \A r \in Req : req[r].pc = "store" => SendOK(r)
  /\ \A r \in Req : req[r].pc = "check" => TryOK(r)

=============================================================================
