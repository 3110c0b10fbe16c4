------------------------------- MODULE Pools --------------------------------
(* One project in the pool manager of one replica (pool/manager.go): the store
   opened with the project's vault record, the cached settings, and the service
   token read from a file (token/source.go) that every call to provisioning
   sends. The record, the settings and the file change while requests are between
   asking and storing the answer.

   A vault record, a settings document and a token are known by their version.  *)
EXTENDS Integers, FiniteSets

CONSTANTS
  Req,        \* requests in flight
  Store,      \* connection pools
  None,
  TTL,        \* Manager.ttl
  MaxAges,    \* what GetProjectInfoWithin is called with
  Interval,   \* FileSource.interval
  MaxFlight,  \* bound: an answer of provisioning is used this soon after it was made
  MaxVersion, \* bound: rotations of the record, of the settings and of the token
  MaxTime     \* bound: the clock stops there

ASSUME PoolsAssumption ==
  /\ TTL \in Nat \ {0} /\ MaxAges \subseteq Nat \ {0} /\ Interval \in Nat
  /\ MaxFlight \in Nat /\ MaxVersion \in Nat /\ MaxTime \in Nat
  /\ None \notin Nat \cup Req \cup Store
  /\ None \notin [store : Store, ver : 0 .. MaxVersion, created : Nat]

VARIABLES
  now,
  live,      \* what provisioning holds: "store" (vault record) and "info" -> version
  replaced,  \* history: kind -> version -> when it was replaced
  status,    \* pool -> "open", "closing" or "closed"
  entry,     \* Manager.pools: None, or the installed pool, its record and createdAt
  info,      \* Manager.infos: None, or the settings and createdAt
  file,      \* the token file: content (None: empty) and stamp (mtime and size)
  source,    \* FileSource: current, stamp, lastCheck (None: never)
  req

vars == <<now, live, replaced, status, entry, info, file, source, req>>

Kind == {"store", "info"}

Idle == [pc |-> "idle", kind |-> None, max |-> 0, stamp |-> None, ver |-> None,
         store |-> None, since |-> None, age |-> 0]

Become(r, q) == req' = [req EXCEPT ![r] = q]

\* How long ago provisioning stopped holding this version.
AgeOf(kind, v) == IF v = live[kind] THEN 0 ELSE now - replaced[kind][v]

-----------------------------------------------------------------------------
(* Served from the cache.                                                  *)

\* Variant: any cached copy will do.
CachedAtAll(cached, max) == cached # None

FreshWithin(cached, max) == cached # None /\ now - cached.created < max

Using(r, s, v) ==
  Become(r, [Idle EXCEPT !.pc = "holds", !.kind = "store", !.max = TTL, !.store = s,
                         !.age = AgeOf("store", v)])

Told(r, max, v) ==
  Become(r, [Idle EXCEPT !.pc = "told", !.kind = "info", !.max = max, !.age = AgeOf("info", v)])

\* GetStore; OpenStores hands the sweeper the same pools.
GetStore(r) ==
  /\ req[r].pc = "idle"
  /\ \/ FreshWithin(entry, TTL) /\ Using(r, entry.store, entry.ver)
     \/ /\ ~FreshWithin(entry, TTL)
        /\ Become(r, [Idle EXCEPT !.pc = "token", !.kind = "store", !.max = TTL])
  /\ UNCHANGED <<now, live, replaced, status, entry, info, file, source>>

\* GetProjectInfoWithin, whose caller says how old a copy it takes.
GetProjectInfoWithin(r, max) ==
  /\ req[r].pc = "idle"
  /\ \/ FreshWithin(info, max) /\ Told(r, max, info.ver)
     \/ /\ ~FreshWithin(info, max)
        /\ Become(r, [Idle EXCEPT !.pc = "token", !.kind = "info", !.max = max])
  /\ UNCHANGED <<now, live, replaced, status, entry, info, file, source>>

-----------------------------------------------------------------------------
(* The service token: FileSource.Get runs under its mutex.                 *)

MutexFree == \A r \in Req : req[r].pc # "read"

\* The request goes on to provisioning, or fails with ErrNoToken.
WithToken(r, current) ==
  Become(r, IF current = None THEN Idle ELSE [req[r] EXCEPT !.pc = "ask", !.stamp = None])

\* The file was checked less than an interval ago.
Checked == source.lastCheck # None /\ now - source.lastCheck < Interval

\* Get within the interval: the cached value.
TokenCached(r) ==
  /\ req[r].pc = "token" /\ MutexFree /\ Checked
  /\ WithToken(r, source.current)
  /\ UNCHANGED <<now, live, replaced, status, entry, info, file, source>>

\* Get and refresh up to the read: the file's stamp. An unchanged stamp, or a stat
\* that fails, keeps the cached value.
TokenStat(r) ==
  /\ req[r].pc = "token" /\ MutexFree /\ ~Checked
  /\ source' = [source EXCEPT !.lastCheck = now]
  /\ \/ WithToken(r, source.current)
     \/ /\ source.stamp # file.stamp
        /\ Become(r, [req[r] EXCEPT !.pc = "read", !.stamp = file.stamp])
  /\ UNCHANGED <<now, live, replaced, status, entry, info, file>>

\* Variant: the stamp is recorded before the content is looked at.
StampOnly(r) == [source EXCEPT !.stamp = req[r].stamp]

\* An empty file, or a failed read, keeps the last good value and its stamp.
LastGood(r) == source

\* refresh's read; the file may have been rewritten since it was asked for its stamp.
TokenRead(r) ==
  /\ req[r].pc = "read"
  /\ \/ WithToken(r, source.current) /\ source' = LastGood(r)
     \/ /\ file.content # None
        /\ source' = [source EXCEPT !.current = file.content, !.stamp = req[r].stamp]
        /\ WithToken(r, file.content)
  /\ UNCHANGED <<now, live, replaced, status, entry, info, file>>

-----------------------------------------------------------------------------
(* Asking provisioning, and keeping the answer.                            *)

\* fetchCredentials and getJSON: provisioning answers with what it holds.
Ask(r) ==
  /\ req[r].pc = "ask"
  /\ Become(r, [req[r] EXCEPT !.pc = "answer", !.ver = live[req[r].kind], !.since = now])
  /\ UNCHANGED <<now, live, replaced, status, entry, info, file, source>>

\* The ask, or opening the pool, fails.
Fail(r) ==
  /\ req[r].pc \in {"ask", "answer"}
  /\ Become(r, Idle)
  /\ UNCHANGED <<now, live, replaced, status, entry, info, file, source>>

\* Variant: an installed pool is kept whatever the record says.
AnyRecord(v) == entry # None

\* refreshUnchanged compares fingerprints.
SameRecord(v) == entry # None /\ entry.ver = v

RefreshUnchanged(r) ==
  /\ req[r].pc = "answer" /\ req[r].kind = "store" /\ SameRecord(req[r].ver)
  /\ entry' = [entry EXCEPT !.created = now]
  /\ Using(r, entry.store, entry.ver)
  /\ UNCHANGED <<now, live, replaced, status, info, file, source>>

\* openStore: connecting and migrating happen outside the manager's lock.
OpenStore(r, s) ==
  /\ req[r].pc = "answer" /\ req[r].kind = "store" /\ ~SameRecord(req[r].ver)
  /\ status[s] = "closed" /\ \A q \in Req : req[q].store # s
  /\ status' = [status EXCEPT ![s] = "open"]
  /\ Become(r, [req[r] EXCEPT !.pc = "opened", !.store = s])
  /\ UNCHANGED <<now, live, replaced, entry, info, file, source>>

\* Variant: a replaced pool is forgotten without being closed.
ClosedNone(s) == status

\* The pool that was installed begins to close, in the background.
ClosedAfter(s) ==
  [t \in Store |-> IF entry # None /\ t = entry.store /\ t # s THEN "closing" ELSE status[t]]

\* createStore's end: the new pool replaces whatever is installed by then.
Install(r) ==
  LET s == req[r].store IN
  /\ req[r].pc = "opened"
  /\ entry' = [store |-> s, ver |-> req[r].ver, created |-> now]
  /\ status' = ClosedAfter(s)
  /\ Using(r, s, req[r].ver)
  /\ UNCHANGED <<now, live, replaced, info, file, source>>

\* GetProjectInfoWithin's end.
KeepInfo(r) ==
  /\ req[r].pc = "answer" /\ req[r].kind = "info"
  /\ info' = [ver |-> req[r].ver, created |-> now]
  /\ Told(r, req[r].max, req[r].ver)
  /\ UNCHANGED <<now, live, replaced, status, entry, file, source>>

-----------------------------------------------------------------------------
(* Using what was handed out, and the world outside.                       *)

\* A connection is taken from the pool; a closing pool gives none.
Query(r) ==
  /\ req[r].pc = "holds" /\ status[req[r].store] = "open"
  /\ Become(r, [req[r] EXCEPT !.pc = "query"])
  /\ UNCHANGED <<now, live, replaced, status, entry, info, file, source>>

\* The request ends.
Done(r) ==
  /\ req[r].pc \in {"holds", "query", "told"}
  /\ Become(r, Idle)
  /\ UNCHANGED <<now, live, replaced, status, entry, info, file, source>>

\* Close waits for borrowed connections.
FinishClose(s) ==
  /\ status[s] = "closing" /\ \A r \in Req : ~(req[r].pc = "query" /\ req[r].store = s)
  /\ status' = [status EXCEPT ![s] = "closed"]
  /\ UNCHANGED <<now, live, replaced, entry, info, file, source, req>>

\* Provisioning replaces a record or the settings.
Rotate(kind) ==
  /\ live[kind] < MaxVersion
  /\ live' = [live EXCEPT ![kind] = @ + 1]
  /\ replaced' = [replaced EXCEPT ![kind][live[kind]] = now]
  /\ UNCHANGED <<now, status, entry, info, file, source, req>>

\* The token file is rewritten in place: emptied, then written. Every write moves
\* the stamp.
Truncate ==
  /\ file.content # None /\ file.stamp < 2 * MaxVersion
  /\ file' = [content |-> None, stamp |-> file.stamp + 1]
  /\ UNCHANGED <<now, live, replaced, status, entry, info, source, req>>

WriteToken ==
  /\ file.content = None
  /\ file' = [content |-> file.stamp + 1, stamp |-> file.stamp + 1]
  /\ UNCHANGED <<now, live, replaced, status, entry, info, source, req>>

Tick ==
  /\ now < MaxTime
  /\ \A r \in Req : req[r].since # None => now - req[r].since < MaxFlight
  /\ now' = now + 1
  /\ UNCHANGED <<live, replaced, status, entry, info, file, source, req>>

Init ==
  /\ now = 0
  /\ live = [k \in Kind |-> 0]
  /\ replaced = [k \in Kind |-> [v \in 0..MaxVersion |-> None]]
  /\ status = [s \in Store |-> "closed"]
  /\ entry = None /\ info = None
  /\ file = [content |-> 0, stamp |-> 0]
  /\ source = [current |-> None, stamp |-> None, lastCheck |-> None]
  /\ req = [r \in Req |-> Idle]

Next ==
  \/ \E r \in Req : \/ GetStore(r) \/ TokenCached(r) \/ TokenStat(r) \/ TokenRead(r)
                    \/ Ask(r) \/ Fail(r) \/ RefreshUnchanged(r) \/ Install(r)
                    \/ KeepInfo(r) \/ Query(r) \/ Done(r)
  \/ \E r \in Req, max \in MaxAges : GetProjectInfoWithin(r, max)
  \/ \E r \in Req, s \in Store : OpenStore(r, s)
  \/ \E s \in Store : FinishClose(s)
  \/ \E k \in Kind : Rotate(k)
  \/ Truncate \/ WriteToken \/ Tick

Spec == Init /\ [][Next]_vars

-----------------------------------------------------------------------------
(* Properties.                                                             *)

\* The cached entries, and what a request has got so far.
Entry == [store : Store, ver : 0 .. MaxVersion, created : Nat]
Info == [ver : 0 .. MaxVersion, created : Nat]
SourceState ==
  [current : Nat \cup {None}, stamp : Nat \cup {None}, lastCheck : Nat \cup {None}]
ReqState ==
  [pc : {"idle", "token", "read", "ask", "answer", "opened", "holds", "query", "told"},
   kind : Kind \cup {None}, max : Nat, stamp : Nat \cup {None}, ver : (0 .. MaxVersion) \cup {None},
   store : Store \cup {None}, since : Nat \cup {None}, age : Int]

\* Every variable has its type.
TypeOK ==
  /\ now \in Nat
  /\ live \in [Kind -> 0 .. MaxVersion]
  /\ replaced \in [Kind -> [0 .. MaxVersion -> Nat \cup {None}]]
  /\ status \in [Store -> {"open", "closing", "closed"}]
  /\ entry \in Entry \cup {None}
  /\ info \in Info \cup {None}
  /\ file \in [content : Nat \cup {None}, stamp : Nat]
  /\ source \in SourceState
  /\ req \in [Req -> ReqState]

\* Pools do not leak: whatever number of requests open pools at once and in
\* whatever order they install them, every open pool is the installed one or is
\* about to be installed by the request that opened it, and the installed pool is
\* open (createStore closes exactly what it replaces).
NoPoolLeaks ==
  /\ \A s \in Store : status[s] = "open" =>
       \/ entry # None /\ entry.store = s
       \/ \E r \in Req : req[r].pc = "opened" /\ req[r].store = s
  /\ entry # None => status[entry.store] = "open"

\* "a renewed certificate or CA reaches new connections within the hour" and "a
\* cached copy younger than maxAge": a pool or a settings copy handed out is one that
\* provisioning still held less than the caller's age and one flight before, although
\* a slow request may overwrite a newer answer with its older one.
AnswersAreFresh ==
  \A r \in Req : req[r].pc \in {"holds", "told"} => req[r].age < req[r].max + MaxFlight

\* The token cannot get stuck on an old value: while the stamp that FileSource
\* remembers is the file's, its token is what the file holds, so a later check
\* either changes nothing that matters or reads the file again.
TokenCoherent == source.stamp = file.stamp => source.current = file.content

\* What is cached is not used past its time: the pool and the settings, and the token.
CachesAreFresh == AnswersAreFresh /\ TokenCoherent

-----------------------------------------------------------------------------
(* The inductive invariant.                                                *)

\* A pool that a request has opened and not installed is that request's alone.
PoolsApart ==
  /\ \A r \in Req : req[r].pc = "opened" =>
       /\ req[r].store \in Store /\ status[req[r].store] = "open"
       /\ entry # None => entry.store # req[r].store
  /\ \A q, r \in Req :
       req[q].pc = "opened" /\ req[r].pc = "opened" /\ req[q].store = req[r].store => q = r

\* Provisioning held version v of this kind at time t, or later.
Held(kind, v, t) ==
  /\ v \in 0 .. live[kind]
  /\ v # live[kind] => replaced[kind][v] \in Nat /\ replaced[kind][v] >= t

\* A cached copy was held no more than a flight before it was kept.
CopiesHeld ==
  /\ entry # None => entry.created <= now /\ Held("store", entry.ver, entry.created - MaxFlight)
  /\ info # None => info.created <= now /\ Held("info", info.ver, info.created - MaxFlight)

\* An answer under way was held when it was made, no more than a flight ago, and a
\* stamp that was seen is not one the file has yet to get.
RequestOK(q) ==
  /\ q.pc # "idle" => q.max > 0 /\ q.kind \in Kind
  /\ q.pc = "read" => q.stamp \in Nat /\ q.stamp <= file.stamp
  /\ q.pc \in {"answer", "opened"} =>
       /\ q.since \in Nat /\ q.since <= now /\ now <= q.since + MaxFlight
       /\ Held(q.kind, q.ver, q.since)
  /\ q.pc = "opened" => q.kind = "store"
  /\ q.pc \in {"holds", "told"} => q.age < q.max + MaxFlight

StampSeen == source.stamp # None => source.stamp <= file.stamp

IInv ==
  /\ TypeOK
  /\ NoPoolLeaks
  /\ PoolsApart
  /\ CopiesHeld
  /\ StampSeen
  /\ TokenCoherent
  /\ \A r \in Req : RequestOK(req[r])

=============================================================================
