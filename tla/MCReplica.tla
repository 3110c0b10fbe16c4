----------------------------- MODULE MCReplica ------------------------------
(* What one replica keeps in memory and decides by, for TLC: the limiters and the failure
   lock (Limits), the mail throttles (Throttle), the origins a project allows (Origins), a
   provider's signing keys (KeySet), which hooks are on (Hooks) and where a hook's name
   leads (Dialer). They share no state, so a behaviour is one of the six.              *)
EXTENDS Limits, TLC

CONSTANTS
  Origin, OriginTTL,
  Kid, MaxAge, MinRefetch, MaxFetch,
  Hook, SignInMaxAge, MaxFlight,
  MailLimit, Duration, MaxWait,
  Address, Unmap, Embeds, Internal, Deny,
  Horizon

VARIABLES
  part,   \* which of the six runs
  clock, listed, delisted, copy, call,
  time, published, withdrawn, keys, fetchedAt, lastAttempt, starts, want,
  minute, on, since, up, info, act,
  second, windows, mail, opened,
  names, dial

O == INSTANCE Origins WITH Platform <- {}
K == INSTANCE KeySet
H == INSTANCE Hooks WITH clock <- minute
T == INSTANCE Throttle
D == INSTANCE Dialer

origins == <<clock, listed, delisted, copy, call>>
keySet == <<time, published, withdrawn, keys, fetchedAt, lastAttempt, starts, want>>
hooks == <<minute, on, since, up, info, act>>
throttle == <<second, windows, mail, opened>>
dialer == <<names, dial>>
others == <<origins, keySet, hooks, throttle, dialer>>

MCInit ==
  /\ part \in {"limits", "origins", "keys", "hooks", "throttle", "dialer"}
  /\ Init /\ O!OriginsInit /\ K!KeySetInit /\ H!HooksInit /\ T!ThrottleInit /\ D!DialerInit

MCNext ==
  \/ /\ part = "limits" /\ Next
     /\ UNCHANGED <<part, origins, keySet, hooks, throttle, dialer>>
  \/ /\ part = "origins" /\ O!OriginsNext
     /\ UNCHANGED <<part, vars, keySet, hooks, throttle, dialer>>
  \/ /\ part = "keys" /\ K!KeySetNext
     /\ UNCHANGED <<part, vars, origins, hooks, throttle, dialer>>
  \/ /\ part = "hooks" /\ H!HooksNext
     /\ UNCHANGED <<part, vars, origins, keySet, throttle, dialer>>
  \/ /\ part = "throttle" /\ T!ThrottleNext
     /\ UNCHANGED <<part, vars, origins, keySet, hooks, dialer>>
  \/ /\ part = "dialer" /\ D!DialerNext
     /\ UNCHANGED <<part, vars, origins, keySet, hooks, throttle>>

MCSpec == MCInit /\ [][MCNext]_<<part, vars, others>>

\* One request, or one failed check, in a window of two ticks; two where a password
\* is checked, so that failures can outnumber their budget.
MCLimit == [p \in Policy |-> IF p \in {"loginIP", "tokenIP"} THEN 2 ELSE 1]
MCWin == [p \in Policy |-> 2]

\* Requests are interchangeable.
Symmetry == Permutations(Req)

\* Public addresses, one inside, one of the install's own, and ones that carry or map it.
MCUnmap == [a \in Address |-> IF a = "mapped" THEN "own" ELSE a]
MCEmbeds == [a \in Address |-> IF a = "carrier" THEN "own" ELSE None]

\* Every budget of admissions holds: the limiters' (Limits) and the throttles' (Throttle).
AdmissionsBounded == BudgetHolds /\ T!ThrottleHolds

\* Nothing decides that was looked up too long ago: no allowed origin (Origins), no signing
\* key (KeySet), no hook's switch (Hooks), no address of a name (Dialer).
LookupsAreCurrent ==
  /\ O!OriginsAreRecent
  /\ K!KeysAreRecent
  /\ H!HooksAreAsked
  /\ D!DialsWhatWasChecked

=============================================================================
