------------------------------- MODULE KeySet -------------------------------
(* A provider's signing keys, as a replica knows them (keySet, oauth/idtoken.go): cached
   for keysMaxAge, fetched with no lock held when a key is missing or old, at most once
   per keysMinRefetch, which is claimed under the lock before the fetch.               *)
EXTENDS Naturals, Sequences

CONSTANTS
  Req, None,
  Kid,         \* key ids
  MaxAge, MinRefetch,   \* keysMaxAge, keysMinRefetch
  MaxFetch,    \* the HTTP client's timeout: a fetch under way is this old at most
  Horizon      \* bound: the clock stops there

VARIABLES
  time,
  published,    \* ids the provider publishes
  withdrawn,    \* history: id -> when it was last published
  keys, fetchedAt, lastAttempt,   \* the key set's fields
  starts,       \* history: when fetches started
  want          \* request -> what it is doing

keyVars == <<time, published, withdrawn, keys, fetchedAt, lastAttempt, starts, want>>

Rest == [pc |-> "rest", kid |-> None, since |-> None, got |-> {}]

LastPublished(k) == IF k \in published THEN time ELSE withdrawn[k]

Set(r, q) == want' = [want EXCEPT ![r] = q]

\* Variant: a key that is there is taken whatever its age.
CachedForGood(k) == k \in keys

\* cached
Cached(k) == k \in keys /\ time - fetchedAt < MaxAge

\* verifyIDToken asks for the key of a token; the cached one is taken.
Take(r, k) ==
  /\ want[r].pc = "rest" /\ Cached(k)
  /\ Set(r, [Rest EXCEPT !.pc = "verified", !.kid = k])
  /\ UNCHANGED <<time, published, withdrawn, keys, fetchedAt, lastAttempt, starts>>

\* It was not there: mayRefetch is next, under the lock again.
Missing(r, k) ==
  /\ want[r].pc = "rest" /\ ~Cached(k)
  /\ Set(r, [Rest EXCEPT !.pc = "missing", !.kid = k])
  /\ UNCHANGED <<time, published, withdrawn, keys, fetchedAt, lastAttempt, starts>>

MayRefetch == lastAttempt # None => time - lastAttempt >= MinRefetch

\* mayRefetch says no: the token is refused.
Refuse(r) ==
  /\ want[r].pc = "missing" /\ ~MayRefetch
  /\ Set(r, Rest)
  /\ UNCHANGED <<time, published, withdrawn, keys, fetchedAt, lastAttempt, starts>>

\* mayRefetch says yes and claims the interval; the fetch starts.
Claim(r) ==
  /\ want[r].pc = "missing" /\ MayRefetch
  /\ lastAttempt' = time
  /\ starts' = Append(starts, time)
  /\ Set(r, [want[r] EXCEPT !.pc = "fetching", !.since = time])
  /\ UNCHANGED <<time, published, withdrawn, keys, fetchedAt>>

\* The provider answers (fetchKeys).
Provide(r) ==
  /\ want[r].pc = "fetching"
  /\ Set(r, [want[r] EXCEPT !.pc = "fetched", !.got = published])
  /\ UNCHANGED <<time, published, withdrawn, keys, fetchedAt, lastAttempt, starts>>

\* The answer is stored, and used if it has the key.
StoreKeys(r) ==
  /\ want[r].pc = "fetched"
  /\ keys' = want[r].got /\ fetchedAt' = time
  /\ Set(r, IF want[r].kid \in want[r].got
            THEN [Rest EXCEPT !.pc = "verified", !.kid = want[r].kid] ELSE Rest)
  /\ UNCHANGED <<time, published, withdrawn, lastAttempt, starts>>

\* The keys are unreachable or unreadable.
FetchFails(r) ==
  /\ want[r].pc \in {"fetching", "fetched"}
  /\ Set(r, Rest)
  /\ UNCHANGED <<time, published, withdrawn, keys, fetchedAt, lastAttempt, starts>>

Verified(r) ==
  /\ want[r].pc = "verified"
  /\ Set(r, Rest)
  /\ UNCHANGED <<time, published, withdrawn, keys, fetchedAt, lastAttempt, starts>>

\* The provider rotates its keys.
Rotate(ids) ==
  /\ ids # published
  /\ withdrawn' = [k \in Kid |-> LastPublished(k)]
  /\ published' = ids
  /\ UNCHANGED <<time, keys, fetchedAt, lastAttempt, starts, want>>

\* Time passes: a verified key is used at once, a fetch times out.
Pass ==
  /\ time < Horizon
  /\ \A r \in Req : want[r].pc # "verified" /\ (want[r].since # None => time - want[r].since < MaxFetch)
  /\ time' = time + 1
  /\ UNCHANGED <<published, withdrawn, keys, fetchedAt, lastAttempt, starts, want>>

KeySetInit ==
  /\ time = 0 /\ published = Kid /\ withdrawn = [k \in Kid |-> None]
  /\ keys = {} /\ fetchedAt = 0 /\ lastAttempt = None
  /\ starts = <<>>
  /\ want = [r \in Req |-> Rest]

KeySetNext ==
  \/ \E r \in Req, k \in Kid : Take(r, k) \/ Missing(r, k)
  \/ \E r \in Req : \/ Refuse(r) \/ Claim(r) \/ Provide(r)
                    \/ StoreKeys(r) \/ FetchFails(r) \/ Verified(r)
  \/ \E ids \in SUBSET Kid : Rotate(ids)
  \/ Pass

KeySetSpec == KeySetInit /\ [][KeySetNext]_keyVars

-----------------------------------------------------------------------------
(* Properties.                                                             *)

\* "keysMaxAge bounds how long fetched signing keys are trusted": a key that the provider withdrew verifies no token
\* later than that and one fetch, although a slow fetch stores an older answer over a
\* newer one and counts it from now; and however many sign-ins miss a key at once, the
\* provider is asked once per keysMinRefetch.
KeysAreRecent ==
  /\ \A r \in Req : want[r].pc = "verified" =>
       time <= LastPublished(want[r].kid) + MaxFetch + MaxAge
  /\ \A i \in 1 .. Len(starts) - 1 : starts[i + 1] - starts[i] >= MinRefetch

=============================================================================
