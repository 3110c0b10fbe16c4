------------------------------ MODULE Throttle ------------------------------
(* The mail throttles of one replica (throttle/throttle.go): fixed windows per key, asked
   when a verification is resent, an unproven sign-up is replaced or a reset is requested.
   Allow reads the clock before it waits for the mutex, and evicts every elapsed window.  *)
EXTENDS Naturals, Sequences

CONSTANTS
  Req, None,
  Addr, Ip,        \* keys: a project's address or client, hashed
  MailLimit, Duration,   \* Throttle.limit, duration
  MaxWait,         \* bound: a request holds a clock this old at most
  Horizon          \* bound: the clock stops there

VARIABLES
  second,
  windows,   \* throttle -> key -> its window: count and expiresAt, or None
  mail,      \* request -> the throttles it still asks, and the clock it read
  opened     \* history: throttle -> key -> windows opened: when, and how many were let in

throttleVars == <<second, windows, mail, opened>>

Kinds == {"resend", "forgot"}
MailKey == Addr \cup Ip

Rest == [pc |-> "rest", asks |-> <<>>, seen |-> 0]

\* ResendVerification and replaceUnverified ask for the address, ForgotPassword for the
\* address and then for the client.
Asks(route, a, ip) ==
  IF route = "forgot" THEN << <<"forgot", a>>, <<"forgot", ip>> >> ELSE << <<"resend", a>> >>

Arrive(r, route, a, ip) ==
  /\ mail[r].pc = "rest"
  /\ mail' = [mail EXCEPT ![r] = [Rest EXCEPT !.pc = "clock", !.asks = Asks(route, a, ip)]]
  /\ UNCHANGED <<second, windows, opened>>

\* Allow up to the mutex.
ReadClock(r) ==
  /\ mail[r].pc = "clock"
  /\ mail' = [mail EXCEPT ![r].pc = "count", ![r].seen = second]
  /\ UNCHANGED <<second, windows, opened>>

\* Variant: a window elapses with its last moment.
ElapsedEarly(w, seen) == w # None /\ seen + 1 >= w.expires

Elapsed(w, seen) == w # None /\ seen > w.expires

\* evictExpired
Kept(kind, seen) ==
  [k \in MailKey |-> IF Elapsed(windows[kind][k], seen) THEN None ELSE windows[kind][k]]

\* Allow under the mutex: a first event opens a window, a later one is counted or refused.
Count(r) ==
  LET kind == Head(mail[r].asks)[1]
      k == Head(mail[r].asks)[2]
      rest == Tail(mail[r].asks)
      seen == mail[r].seen
      kept == Kept(kind, seen)
      allowed == kept[k] # None => kept[k].count < MailLimit
      log == opened[kind][k]
  IN
  /\ mail[r].pc = "count"
  /\ windows' = [windows EXCEPT ![kind] =
       IF kept[k] = None THEN [kept EXCEPT ![k] = [count |-> 1, expires |-> seen + Duration]]
       ELSE IF allowed THEN [kept EXCEPT ![k].count = @ + 1] ELSE kept]
  /\ opened' = [opened EXCEPT ![kind][k] =
       IF kept[k] = None THEN Append(log, [at |-> seen, n |-> 1])
       ELSE IF allowed THEN [log EXCEPT ![Len(log)].n = @ + 1] ELSE log]
  /\ mail' = [mail EXCEPT ![r] = IF allowed /\ rest # <<>>
                                 THEN [Rest EXCEPT !.pc = "clock", !.asks = rest] ELSE Rest]
  /\ UNCHANGED second

Pass ==
  /\ second < Horizon
  /\ \A r \in Req : mail[r].pc = "count" => second - mail[r].seen < MaxWait
  /\ second' = second + 1
  /\ UNCHANGED <<windows, mail, opened>>

ThrottleInit ==
  /\ second = 0
  /\ windows = [kind \in Kinds |-> [k \in MailKey |-> None]]
  /\ mail = [r \in Req |-> Rest]
  /\ opened = [kind \in Kinds |-> [k \in MailKey |-> <<>>]]

ThrottleNext ==
  \/ \E r \in Req, route \in Kinds, a \in Addr, ip \in Ip : Arrive(r, route, a, ip)
  \/ \E r \in Req : ReadClock(r) \/ Count(r)
  \/ Pass

ThrottleSpec == ThrottleInit /\ [][ThrottleNext]_throttleVars

-----------------------------------------------------------------------------
(* Properties.                                                             *)

\* "at most `limit` events per `window` for each key": each window lets in the limit at
\* most, and a key's next one opens a whole window later, less what a request waited for
\* the mutex with a clock read before another key's request evicted the window.
ThrottleHolds ==
  \A kind \in Kinds, k \in MailKey :
    LET log == opened[kind][k] IN
    /\ \A i \in DOMAIN log : log[i].n <= MailLimit
    /\ \A i \in 1 .. Len(log) - 1 : log[i + 1].at + MaxWait > log[i].at + Duration

=============================================================================
