------------------------------- MODULE Limits -------------------------------
(* The rate limits of one replica: the token buckets of ratelimit/limiter.go, the
   routes of middleware/rate_limit.go that draw on them, the failure lock around a
   password check ("check before, charge after") and the hashing slots of
   auth/password.go that such a check waits for.

   A limiter of limit L and window W refills L tokens in W. Amounts are counted in
   units of 1/W of a token, so that a tick adds L units and a token is W units.    *)
EXTENDS Naturals, Sequences, FiniteSets

CONSTANTS
  Req,       \* requests in flight
  Ip, Project, Addr,   \* the keys
  None,
  Limit, Win,          \* policy -> limit and window
  Slots,     \* Hasher.slots
  MaxTime,   \* bound: the clock stops there
  MaxCalls   \* bound: requests made

\* RateLimits: one limiter per policy.
Policy == {"registerIP", "registerProject", "loginIP", "tokenIP", "otpIP", "loginFailures"}

Key == Ip \cup Project \cup Addr

VARIABLES
  now,
  lim,       \* policy -> its limiter: buckets and lastSweep
  req,
  calls,     \* requests made
  admitted,  \* history: policy -> key -> when requests were admitted
  failed     \* history: address -> failed checks charged since the last reset, and when

vars == <<now, lim, req, calls, admitted, failed>>

-----------------------------------------------------------------------------
(* The limiter.                                                            *)

Bucket == [tokens : Nat, updated : Nat]

Full(p) == Limit[p] * Win[p]

\* Variant: a bucket is idle after half a window.
IdleSoon(p, b) == 2 * (now - b.updated) >= Win[p]

IdleForWindow(p, b) == now - b.updated >= Win[p]

\* sweep, at most once a window.
Swept(p) ==
  IF now - lim[p].lastSweep < Win[p] THEN lim[p]
  ELSE [lastSweep |-> now,
        buckets |-> [k \in Key |->
          LET b == lim[p].buckets[k] IN IF b # None /\ IdleForWindow(p, b) THEN None ELSE b]]

\* refill: the limiter with k's bucket credited, or made full on first sight.
Refilled(p, k) ==
  LET s == Swept(p)
      b == s.buckets[k]
      credited == b.tokens + (now - b.updated) * Limit[p]
      tokens == IF b = None \/ credited > Full(p) THEN Full(p) ELSE credited
  IN [s EXCEPT !.buckets[k] = [tokens |-> tokens, updated |-> now]]

HasToken(p, k) == Refilled(p, k).buckets[k].tokens >= Win[p]

\* Allow: one token, if there is one. Exhausted is Refilled and HasToken.
Drawn(p, k) ==
  IF HasToken(p, k) THEN [Refilled(p, k) EXCEPT !.buckets[k].tokens = @ - Win[p]]
  ELSE Refilled(p, k)

\* Reset
Forgotten(p, k) == [lim[p] EXCEPT !.buckets[k] = None]

-----------------------------------------------------------------------------
(* Routes.                                                                 *)

Quiet == [pc |-> "idle", route |-> None, draws |-> <<>>, addr |-> None, status |-> None]

Become(r, q) == req' = [req EXCEPT ![r] = q]

\* The limiters a route asks, in order. "token" stands for every route limited with
\* Token; "signup" for AllowSignup, which handlers call for an account made elsewhere.
Draws(route, ip, project) ==
  CASE route = "register" -> << <<"registerIP", ip>>, <<"registerProject", project>> >>
    [] route = "guest" -> << <<"registerIP", ip>> >>
    [] route = "signup" -> << <<"registerProject", project>> >>
    [] route = "otp" -> << <<"otpIP", ip>> >>
    [] route = "login" -> << <<"loginIP", ip>> >>
    [] route \in {"token", "password", "change"} -> << <<"tokenIP", ip>> >>

\* Routes that check a password under the failure lock: /login, the password grant of
\* /token, and PATCH /user for the current password.
Guarded == {"login", "password", "change"}

Routes == {"register", "guest", "signup", "otp", "token"} \cup Guarded

\* One Allow of a request at its first remaining limiter: the next limiter, the
\* handler, or 429. Only a guarded handler matters here.
Allow(r, q) ==
  LET p == Head(q.draws)[1]
      k == Head(q.draws)[2]
      rest == Tail(q.draws)
  IN
  /\ lim' = [lim EXCEPT ![p] = Drawn(p, k)]
  /\ IF HasToken(p, k)
       THEN /\ admitted' = [admitted EXCEPT ![p][k] = Append(@, now)]
            /\ Become(r, IF rest # <<>> THEN [q EXCEPT !.pc = "limit", !.draws = rest]
                         ELSE IF q.addr = None THEN Quiet
                         ELSE [q EXCEPT !.pc = "guard", !.draws = <<>>])
       ELSE Become(r, Quiet) /\ UNCHANGED admitted
  /\ UNCHANGED <<now, failed>>

\* A request arrives at its first limiter.
Call(r, route, ip, project, a) ==
  /\ req[r].pc = "idle" /\ calls < MaxCalls
  /\ (route \in Guarded) = (a # None)
  /\ calls' = calls + 1
  /\ Allow(r, [Quiet EXCEPT !.route = route, !.addr = a, !.draws = Draws(route, ip, project)])

\* Register goes on to its second limiter.
NextLimiter(r) ==
  /\ req[r].pc = "limit"
  /\ Allow(r, req[r])
  /\ UNCHANGED calls

-----------------------------------------------------------------------------
(* The failure lock and the password check.                                *)

\* Variant: a locked address is let through.
NeverLocked(a) == TRUE

Unlocked(a) == HasToken("loginFailures", a)

\* identityGuard and PasswordLockedOut: Exhausted, before the password is looked at.
Guard(r) ==
  LET a == req[r].addr IN
  /\ req[r].pc = "guard"
  /\ lim' = [lim EXCEPT !["loginFailures"] = Refilled("loginFailures", a)]
  /\ Become(r, IF Unlocked(a) THEN [req[r] EXCEPT !.pc = "check"] ELSE Quiet)
  /\ UNCHANGED <<now, calls, admitted, failed>>

\* The answer needs no slot: no such account, a disabled one or a malformed hash (401,
\* 403) or, when signing in, no store (5xx).
AnswerEarly(r, status) ==
  /\ req[r].pc = "check" /\ (status = "failed" => req[r].route # "change")
  /\ Become(r, [req[r] EXCEPT !.pc = "charge", !.status = status])
  /\ UNCHANGED <<now, lim, calls, admitted, failed>>

Hashing == {r \in Req : req[r].pc = "hash"}

\* Hasher.acquire
Acquire(r) ==
  /\ req[r].pc = "check" /\ Cardinality(Hashing) < Slots
  /\ Become(r, [req[r] EXCEPT !.pc = "hash"])
  /\ UNCHANGED <<now, lim, calls, admitted, failed>>

\* Hasher.acquire gives up: ErrHashBusy or the request's context; 503.
Busy(r) ==
  /\ req[r].pc = "check"
  /\ Become(r, [req[r] EXCEPT !.pc = "charge", !.status = "failed"])
  /\ UNCHANGED <<now, lim, calls, admitted, failed>>

\* Hasher.Check returns and gives its slot back. "refused" is 401 or 403: a wrong
\* password or, when signing in, an unverified address or bad roles; "failed" is 5xx.
Checked(r, status) ==
  /\ req[r].pc = "hash" /\ (status = "failed" => req[r].route # "change")
  /\ Become(r, [req[r] EXCEPT !.pc = "charge", !.status = status])
  /\ UNCHANGED <<now, lim, calls, admitted, failed>>

\* Variant: whatever is not a success is charged.
ChargedUnlessOk(status) == status # "ok"

\* 401 and 403 are charged.
Charged(status) == status = "refused"

\* identityGuard after its handler, and RecordPasswordCheck: a failure draws a
\* token, 2xx forgets the address, anything else leaves the count alone.
Charge(r) ==
  LET a == req[r].addr
      status == req[r].status
      after == CASE Charged(status) -> Drawn("loginFailures", a)
                 [] status = "ok" -> Forgotten("loginFailures", a)
                 [] OTHER -> lim["loginFailures"]
  IN
  /\ req[r].pc = "charge"
  /\ lim' = [lim EXCEPT !["loginFailures"] = after]
  /\ failed' = CASE status = "refused" -> [failed EXCEPT ![a].n = @ + 1]
                 [] status = "ok" -> [failed EXCEPT ![a] = [n |-> 0, since |-> now]]
                 [] OTHER -> failed
  /\ Become(r, Quiet)
  /\ UNCHANGED <<now, calls, admitted>>

Tick ==
  /\ now < MaxTime
  /\ now' = now + 1
  /\ UNCHANGED <<lim, req, calls, admitted, failed>>

Init ==
  /\ now = 0 /\ calls = 0
  /\ lim = [p \in Policy |-> [buckets |-> [k \in Key |-> None], lastSweep |-> 0]]
  /\ req = [r \in Req |-> Quiet]
  /\ admitted = [p \in Policy |-> [k \in Key |-> <<>>]]
  /\ failed = [a \in Addr |-> [n |-> 0, since |-> 0]]

Next ==
  \/ \E r \in Req, route \in Routes, ip \in Ip, project \in Project, a \in Addr \cup {None} :
       Call(r, route, ip, project, a)
  \/ \E r \in Req : NextLimiter(r) \/ Guard(r) \/ Acquire(r) \/ Busy(r) \/ Charge(r)
  \/ \E r \in Req, status \in {"refused", "failed"} : AnswerEarly(r, status)
  \/ \E r \in Req, status \in {"ok", "refused", "failed"} : Checked(r, status)
  \/ Tick

Spec == Init /\ [][Next]_vars

-----------------------------------------------------------------------------
(* Properties.                                                             *)

\* "admitting `limit` events per `window` per key", counted from any admission on: at most
\* the limit at once plus what the time since adds. Evicting a bucket (sweep) must not
\* hand out tokens the bucket had not refilled.
BudgetHolds ==
  \A p \in Policy \ {"loginFailures"}, k \in Key :
    LET times == admitted[p][k] IN
    \A i \in DOMAIN times :
      (Len(times) - i + 1) * Win[p] <= Full(p) + (now - times[i]) * Limit[p]

\* "locks an identity after repeated failures", across /login, /token and PATCH /user:
\* since the count was last cleared, the failed checks are within the budget for every
\* request that can be in flight at once. (The lock is looked at before the check and
\* charged after, so requests in flight together may share the last token.)
LockHolds ==
  LET p == "loginFailures" IN
  \A a \in Addr :
    failed[a].n * Win[p] <= Cardinality(Req) * (Full(p) + (now - failed[a].since) * Limit[p])

\* "Other statuses (400, 5xx) leave the counter untouched": tokens missing from an
\* address's bucket are failed checks since it was cleared, so a busy hasher, an
\* unreachable store or a sweep never locks an address out.
OnlyFailuresLock ==
  LET p == "loginFailures" IN
  \A a \in Addr :
    lim[p].buckets[a] # None =>
      lim[p].buckets[a].tokens + failed[a].n * Win[p] >= Full(p)

\* The failure lock holds against whoever guesses, and nobody else is locked out.
LockIsExact == LockHolds /\ OnlyFailuresLock

=============================================================================
