---------------------------- MODULE PoolsProofs -----------------------------
(* Pools do not leak, and what is cached is as fresh as it may be, for any number
   of requests, pools and rotations and for any of the manager's durations.     *)
EXTENDS Pools, TLAPS

\* The state a request starts from and ends in.
LEMMA IdleType == Idle \in ReqState /\ RequestOK(Idle)
  BY DEF Idle, ReqState, RequestOK

\* A version that was held at some time is one that provisioning has had.
LEMMA HeldType ==
  ASSUME TypeOK, NEW kind \in Kind, NEW v, NEW t \in Int, Held(kind, v, t)
  PROVE  /\ v \in 0 .. MaxVersion
         /\ AgeOf(kind, v) \in Int
         /\ AgeOf(kind, v) <= now - t \/ AgeOf(kind, v) = 0
  <1>1. live[kind] \in 0 .. MaxVersion /\ now \in Nat /\ MaxVersion \in Nat
    BY PoolsAssumption DEF TypeOK
  <1>2. v \in 0 .. MaxVersion
    BY <1>1 DEF Held
  <1>3. CASE v = live[kind]
    BY <1>2, <1>3 DEF AgeOf
  <1>4. CASE v # live[kind]
    BY <1>1, <1>2, <1>4 DEF AgeOf, Held
  <1> QED
    BY <1>3, <1>4

\* Held speaks of what provisioning holds only.
LEMMA HeldSame ==
  ASSUME NEW kind, NEW v, NEW t, Held(kind, v, t), UNCHANGED <<live, replaced>>
  PROVE  Held(kind, v, t)'
  BY DEF Held

\* What was held at some time in the past is so after a rotation.
LEMMA HeldRotates ==
  ASSUME TypeOK, NEW k \in Kind, Rotate(k), NEW kind \in Kind, NEW v, NEW t \in Int, t <= now,
         Held(kind, v, t)
  PROVE  Held(kind, v, t)'
  <1>1. live \in [Kind -> 0 .. MaxVersion] /\ now \in Nat /\ MaxVersion \in Nat
        /\ replaced \in [Kind -> [0 .. MaxVersion -> Nat \cup {None}]]
    BY PoolsAssumption DEF TypeOK
  <1>2. CASE kind # k
    <2>1. live'[kind] = live[kind] /\ replaced'[kind] = replaced[kind]
      BY <1>1, <1>2 DEF Rotate
    <2> QED
      BY <2>1 DEF Held
  <1>3. CASE kind = k
    <2>1. live'[kind] = live[kind] + 1
      BY <1>1, <1>3 DEF Rotate
    <2>2. v \in 0 .. live[kind] /\ live[kind] \in 0 .. MaxVersion
      BY <1>1 DEF Held
    <2>3. v \in 0 .. live'[kind] /\ v # live'[kind] /\ v \in 0 .. MaxVersion
      BY <2>1, <2>2, <1>1
    <2>4. replaced'[kind][v] = IF v = live[kind] THEN now ELSE replaced[kind][v]
      BY <1>1, <1>3, <2>2, <2>3 DEF Rotate
    <2> QED
      BY <1>1, <2>3, <2>4 DEF Held
  <1> QED
    BY <1>2, <1>3

\* A request moves between two states in which it has no pool of its own to install:
\* the pools are as they were, and what is cached is the step's business.
LEMMA MoveKeeps ==
  ASSUME IInv, NEW r \in Req, NEW q \in ReqState, RequestOK(q), Become(r, q),
         req[r].pc # "opened", q.pc # "opened",
         UNCHANGED <<now, live, replaced, status, file>>,
         entry' = entry \/ (entry # None /\ entry' \in Entry /\ entry'.store = entry.store),
         info' \in Info \cup {None}, source' \in SourceState,
         CopiesHeld', StampSeen', TokenCoherent'
  PROVE  IInv'
  <1>1. /\ req \in [Req -> ReqState] /\ req' \in [Req -> ReqState]
        /\ \A p \in Req : req'[p] = IF p = r THEN q ELSE req[p]
    BY DEF IInv, TypeOK, Become
  <1>2. TypeOK'
    BY <1>1 DEF IInv, TypeOK
  <1>3. \A p \in Req : req'[p].pc = "opened" <=> req[p].pc = "opened"
    BY <1>1
  <1>4. \A p \in Req : req'[p].pc = "opened" => req'[p] = req[p]
    BY <1>1
  <1>5. /\ entry' # None => entry # None /\ entry'.store = entry.store
        /\ entry # None => entry' # None
    BY PoolsAssumption DEF Entry
  <1>6. NoPoolLeaks'
    <2>1. ASSUME NEW s \in Store, status'[s] = "open"
          PROVE  \/ entry' # None /\ entry'.store = s
                 \/ \E p \in Req : req'[p].pc = "opened" /\ req'[p].store = s
      BY <1>1, <1>5, <2>1 DEF IInv, NoPoolLeaks
    <2>2. entry' # None => status'[entry'.store] = "open"
      BY <1>5 DEF IInv, NoPoolLeaks
    <2> QED
      BY <2>1, <2>2 DEF NoPoolLeaks
  <1>7. PoolsApart'
    BY <1>3, <1>4, <1>5 DEF IInv, PoolsApart
  <1>8. ASSUME NEW p \in Req
        PROVE  RequestOK(req[p])'
    BY <1>1 DEF IInv, RequestOK, Held
  <1> QED
    BY <1>2, <1>6, <1>7, <1>8 DEF IInv

\* The same, when nothing else changes.
LEMMA BecomeKeeps ==
  ASSUME IInv, NEW r \in Req, NEW q \in ReqState, RequestOK(q), Become(r, q),
         req[r].pc # "opened", q.pc # "opened",
         UNCHANGED <<now, live, replaced, status, entry, info, file, source>>
  PROVE  IInv'
  <1>1. CopiesHeld' /\ StampSeen' /\ TokenCoherent'
    BY DEF IInv, CopiesHeld, StampSeen, TokenCoherent, Held
  <1>2. info' \in Info \cup {None} /\ source' \in SourceState
    BY DEF IInv, TypeOK
  <1> QED
    BY <1>1, <1>2, MoveKeeps

LEMMA InitIInv == Init => IInv
  <1> SUFFICES ASSUME Init PROVE IInv
    OBVIOUS
  <1>1. Kind = {"store", "info"} /\ MaxVersion \in Nat /\ None \notin Nat
    BY PoolsAssumption DEF Kind
  <1>2. \A r \in Req : req[r] = Idle
    BY DEF Init
  <1>3. req \in [Req -> ReqState]
    BY IdleType DEF Init
  <1>4. TypeOK
    BY <1>1, <1>3 DEF Init, TypeOK, SourceState
  <1>5. NoPoolLeaks /\ PoolsApart
    BY <1>2 DEF Init, NoPoolLeaks, PoolsApart, Idle
  <1>6. CopiesHeld /\ StampSeen /\ TokenCoherent
    BY <1>1 DEF Init, CopiesHeld, StampSeen, TokenCoherent
  <1> QED
    BY <1>2, <1>4, <1>5, <1>6, IdleType DEF IInv

-----------------------------------------------------------------------------
(* What is handed out.                                                     *)

\* A request that has just asked for a store or the settings, or has just got them.
LEMMA StartedOK ==
  ASSUME NEW q \in ReqState, q.pc \in {"token", "holds", "told"}, q.kind \in Kind, q.max > 0,
         q.pc # "token" => q.age < q.max + MaxFlight
  PROVE  RequestOK(q)
  BY DEF RequestOK

\* A request for a store, or for the settings, that has yet to find a token.
LEMMA AsksType ==
  ASSUME NEW kind \in Kind, NEW max \in Nat \ {0}
  PROVE  LET q == [Idle EXCEPT !.pc = "token", !.kind = kind, !.max = max]
         IN  q \in ReqState /\ RequestOK(q) /\ q.pc = "token"
  <1> DEFINE q == [Idle EXCEPT !.pc = "token", !.kind = kind, !.max = max]
  <1>1. q \in ReqState /\ q.pc = "token" /\ q.kind = kind /\ q.max = max
    BY IdleType DEF ReqState
  <1> HIDE DEF q
  <1>2. RequestOK(q)
    BY <1>1, StartedOK
  <1> QED
    BY <1>1, <1>2 DEF q

\* A pool handed out from a record that was held within its time.
LEMMA UsingType ==
  ASSUME TypeOK, NEW r \in Req, NEW s \in Store, NEW v, Using(r, s, v),
         NEW t \in Int, Held("store", v, t), now - t < TTL + MaxFlight
  PROVE  \E q \in ReqState : RequestOK(q) /\ q.pc = "holds" /\ Become(r, q)
  <1>1. "store" \in Kind
    BY DEF Kind
  <1>2. PICK a \in Int : a = AgeOf("store", v)
    BY <1>1, HeldType
  <1>3. now \in Nat /\ TTL \in Nat \ {0} /\ MaxFlight \in Nat
    BY PoolsAssumption DEF TypeOK
  <1>4. a < TTL + MaxFlight
    BY <1>1, <1>2, <1>3, HeldType
  <1> DEFINE q == [Idle EXCEPT !.pc = "holds", !.kind = "store", !.max = TTL, !.store = s, !.age = a]
  <1>5. q \in ReqState /\ q.pc = "holds" /\ q.kind = "store" /\ q.max = TTL /\ q.age = a
    BY <1>1, <1>3, IdleType DEF ReqState
  <1>6. Become(r, q)
    BY <1>2 DEF Using
  <1> HIDE DEF q
  <1>7. RequestOK(q)
    BY <1>1, <1>3, <1>4, <1>5, StartedOK
  <1> QED
    BY <1>5, <1>6, <1>7

\* And a settings copy.
LEMMA ToldType ==
  ASSUME TypeOK, NEW r \in Req, NEW max \in Nat \ {0}, NEW v, Told(r, max, v),
         NEW t \in Int, Held("info", v, t), now - t < max + MaxFlight
  PROVE  \E q \in ReqState : RequestOK(q) /\ q.pc = "told" /\ Become(r, q)
  <1>1. "info" \in Kind
    BY DEF Kind
  <1>2. PICK a \in Int : a = AgeOf("info", v)
    BY <1>1, HeldType
  <1>3. now \in Nat /\ MaxFlight \in Nat
    BY PoolsAssumption DEF TypeOK
  <1>4. a < max + MaxFlight
    BY <1>1, <1>2, <1>3, HeldType
  <1> DEFINE q == [Idle EXCEPT !.pc = "told", !.kind = "info", !.max = max, !.age = a]
  <1>5. q \in ReqState /\ q.pc = "told" /\ q.kind = "info" /\ q.max = max /\ q.age = a
    BY <1>1, <1>3, IdleType DEF ReqState
  <1>6. Become(r, q)
    BY <1>2 DEF Told
  <1> HIDE DEF q
  <1>7. RequestOK(q)
    BY <1>1, <1>3, <1>4, <1>5, StartedOK
  <1> QED
    BY <1>5, <1>6, <1>7

-----------------------------------------------------------------------------
(* Each action keeps the invariant.                                        *)

LEMMA GetStoreKeeps ==
  ASSUME IInv, NEW r \in Req, GetStore(r)
  PROVE  IInv'
  <1>1. now \in Nat /\ TTL \in Nat \ {0} /\ MaxFlight \in Nat /\ TypeOK /\ "store" \in Kind
    BY PoolsAssumption DEF IInv, TypeOK, Kind
  <1>2. CASE FreshWithin(entry, TTL) /\ Using(r, entry.store, entry.ver)
    <2>1. entry \in Entry /\ entry.created \in Nat /\ entry.store \in Store
          /\ now - entry.created < TTL /\ Held("store", entry.ver, entry.created - MaxFlight)
      BY <1>2 DEF IInv, TypeOK, FreshWithin, CopiesHeld, Entry
    <2>2. PICK t \in Int : t = entry.created - MaxFlight
      BY <1>1, <2>1
    <2>3. now - t < TTL + MaxFlight
      BY <1>1, <2>1, <2>2
    <2>4. PICK q \in ReqState : RequestOK(q) /\ q.pc = "holds" /\ Become(r, q)
      BY <1>1, <1>2, <2>1, <2>2, <2>3, UsingType
    <2> QED
      BY <2>4, BecomeKeeps DEF GetStore
  <1>3. CASE Become(r, [Idle EXCEPT !.pc = "token", !.kind = "store", !.max = TTL])
    <2> DEFINE q == [Idle EXCEPT !.pc = "token", !.kind = "store", !.max = TTL]
    <2>1. q \in ReqState /\ RequestOK(q) /\ q.pc = "token"
      BY <1>1, AsksType
    <2> QED
      BY <1>3, <2>1, BecomeKeeps DEF GetStore
  <1> QED
    BY <1>2, <1>3 DEF GetStore

LEMMA GetProjectInfoKeeps ==
  ASSUME IInv, NEW r \in Req, NEW max \in MaxAges, GetProjectInfoWithin(r, max)
  PROVE  IInv'
  <1>1. now \in Nat /\ max \in Nat \ {0} /\ MaxFlight \in Nat /\ TypeOK /\ "info" \in Kind
    BY PoolsAssumption DEF IInv, TypeOK, Kind
  <1>2. CASE FreshWithin(info, max) /\ Told(r, max, info.ver)
    <2>1. info \in Info /\ info.created \in Nat
          /\ now - info.created < max /\ Held("info", info.ver, info.created - MaxFlight)
      BY <1>2 DEF IInv, TypeOK, FreshWithin, CopiesHeld, Info
    <2>2. PICK t \in Int : t = info.created - MaxFlight
      BY <1>1, <2>1
    <2>3. now - t < max + MaxFlight
      BY <1>1, <2>1, <2>2
    <2>4. PICK q \in ReqState : RequestOK(q) /\ q.pc = "told" /\ Become(r, q)
      BY <1>1, <1>2, <2>1, <2>2, <2>3, ToldType
    <2> QED
      BY <2>4, BecomeKeeps DEF GetProjectInfoWithin
  <1>3. CASE Become(r, [Idle EXCEPT !.pc = "token", !.kind = "info", !.max = max])
    <2> DEFINE q == [Idle EXCEPT !.pc = "token", !.kind = "info", !.max = max]
    <2>1. q \in ReqState /\ RequestOK(q) /\ q.pc = "token"
      BY <1>1, AsksType
    <2> QED
      BY <1>3, <2>1, BecomeKeeps DEF GetProjectInfoWithin
  <1> QED
    BY <1>2, <1>3 DEF GetProjectInfoWithin

\* The request goes on with a token, or ends.
LEMMA WithTokenType ==
  ASSUME IInv, NEW r \in Req, req[r].pc \in {"token", "read"}, NEW c, WithToken(r, c)
  PROVE  \E q \in ReqState : RequestOK(q) /\ q.pc # "opened" /\ Become(r, q)
  <1>1. req[r] \in ReqState /\ RequestOK(req[r])
    BY DEF IInv, TypeOK
  <1>2. CASE c = None
    BY <1>2, IdleType DEF WithToken, Idle
  <1>3. CASE c # None
    <2> DEFINE q == [req[r] EXCEPT !.pc = "ask", !.stamp = None]
    <2>1. q \in ReqState /\ RequestOK(q) /\ q.pc = "ask"
      BY <1>1 DEF ReqState, RequestOK
    <2> QED
      BY <1>3, <2>1 DEF WithToken
  <1> QED
    BY <1>2, <1>3

LEMMA TokenCachedKeeps ==
  ASSUME IInv, NEW r \in Req, TokenCached(r)
  PROVE  IInv'
  <1>1. PICK q \in ReqState : RequestOK(q) /\ q.pc # "opened" /\ Become(r, q)
    BY WithTokenType DEF TokenCached
  <1> QED
    BY <1>1, BecomeKeeps DEF TokenCached

\* Only the time of the last check changes in the source.
LEMMA TokenStatKeeps ==
  ASSUME IInv, NEW r \in Req, TokenStat(r)
  PROVE  IInv'
  <1>1. source \in SourceState /\ now \in Nat /\ file.stamp \in Nat
        /\ req[r] \in ReqState /\ RequestOK(req[r])
    BY DEF IInv, TypeOK
  <1>2. source' \in SourceState /\ source'.stamp = source.stamp /\ source'.current = source.current
    BY <1>1 DEF TokenStat, SourceState
  <1>3. CopiesHeld' /\ StampSeen' /\ TokenCoherent'
    BY <1>2 DEF IInv, CopiesHeld, StampSeen, TokenCoherent, Held, TokenStat
  <1>4. PICK q \in ReqState : RequestOK(q) /\ q.pc # "opened" /\ Become(r, q)
    <2>1. CASE WithToken(r, source.current)
      BY <2>1, WithTokenType DEF TokenStat
    <2>2. CASE Become(r, [req[r] EXCEPT !.pc = "read", !.stamp = file.stamp])
      <3> DEFINE q == [req[r] EXCEPT !.pc = "read", !.stamp = file.stamp]
      <3>1. /\ q \in ReqState /\ q.pc = "read" /\ q.stamp = file.stamp
            /\ q.kind = req[r].kind /\ q.max = req[r].max
        BY <1>1 DEF ReqState
      <3>2. RequestOK(q)
        BY <1>1, <3>1 DEF RequestOK, TokenStat
      <3> QED
        BY <2>2, <3>1, <3>2
    <2> QED
      BY <2>1, <2>2 DEF TokenStat
  <1>5. info' \in Info \cup {None}
    BY DEF IInv, TypeOK, TokenStat
  <1> QED
    BY <1>2, <1>3, <1>4, <1>5, MoveKeeps DEF TokenStat

\* The stamp that is remembered was the file's no later than the content is.
LEMMA TokenReadKeeps ==
  ASSUME IInv, NEW r \in Req, TokenRead(r)
  PROVE  IInv'
  <1>1. /\ source \in SourceState /\ file.stamp \in Nat /\ file.content \in Nat \cup {None}
        /\ req[r].stamp \in Nat /\ req[r].stamp <= file.stamp
    BY DEF IInv, TypeOK, RequestOK, TokenRead
  <1>2. source' \in SourceState /\ StampSeen' /\ TokenCoherent'
    <2>1. CASE source' = source
      BY <1>1, <2>1 DEF IInv, StampSeen, TokenCoherent, TokenRead
    <2>2. CASE source' = [source EXCEPT !.current = file.content, !.stamp = req[r].stamp]
      BY <1>1, <2>2 DEF SourceState, StampSeen, TokenCoherent, TokenRead
    <2> QED
      BY <2>1, <2>2 DEF TokenRead, LastGood
  <1>3. CopiesHeld'
    BY DEF IInv, CopiesHeld, Held, TokenRead
  <1>4. PICK q \in ReqState : RequestOK(q) /\ q.pc # "opened" /\ Become(r, q)
    BY WithTokenType DEF TokenRead
  <1>5. info' \in Info \cup {None}
    BY DEF IInv, TypeOK, TokenRead
  <1> QED
    BY <1>2, <1>3, <1>4, <1>5, MoveKeeps DEF TokenRead

LEMMA AskKeeps ==
  ASSUME IInv, NEW r \in Req, Ask(r)
  PROVE  IInv'
  <1>1. /\ req[r] \in ReqState /\ req[r].kind \in Kind /\ req[r].max > 0 /\ now \in Nat
        /\ live[req[r].kind] \in 0 .. MaxVersion /\ MaxFlight \in Nat /\ MaxVersion \in Nat
    BY PoolsAssumption DEF IInv, TypeOK, RequestOK, Ask
  <1> DEFINE q == [req[r] EXCEPT !.pc = "answer", !.ver = live[req[r].kind], !.since = now]
  <1>2. q \in ReqState /\ q.pc = "answer" /\ q.kind = req[r].kind /\ q.max = req[r].max
        /\ q.ver = live[req[r].kind] /\ q.since = now
    BY <1>1 DEF ReqState
  <1>3. RequestOK(q)
    BY <1>1, <1>2 DEF RequestOK, Held
  <1> QED
    BY <1>2, <1>3, BecomeKeeps DEF Ask

LEMMA EndKeeps ==
  ASSUME IInv, NEW r \in Req, Fail(r) \/ Done(r)
  PROVE  IInv'
  BY IdleType, BecomeKeeps DEF Fail, Done, Idle

LEMMA QueryKeeps ==
  ASSUME IInv, NEW r \in Req, Query(r)
  PROVE  IInv'
  <1>1. req[r] \in ReqState /\ RequestOK(req[r])
    BY DEF IInv, TypeOK
  <1> DEFINE q == [req[r] EXCEPT !.pc = "query"]
  <1>2. q \in ReqState /\ RequestOK(q) /\ q.pc = "query"
    BY <1>1 DEF ReqState, RequestOK, Query
  <1> QED
    BY <1>2, BecomeKeeps DEF Query

LEMMA RefreshUnchangedKeeps ==
  ASSUME IInv, NEW r \in Req, RefreshUnchanged(r)
  PROVE  IInv'
  <1>1. /\ TypeOK /\ now \in Nat /\ MaxFlight \in Nat /\ TTL \in Nat \ {0}
        /\ entry \in Entry /\ entry.ver = req[r].ver /\ entry.store \in Store /\ entry # None
        /\ req[r].since \in Nat /\ req[r].since <= now /\ now <= req[r].since + MaxFlight
        /\ Held("store", entry.ver, req[r].since)
    BY PoolsAssumption DEF IInv, TypeOK, RequestOK, RefreshUnchanged, SameRecord, Entry
  <1>2. /\ entry' \in Entry /\ entry'.store = entry.store /\ entry'.ver = entry.ver
        /\ entry'.created = now
    BY <1>1 DEF RefreshUnchanged, Entry
  <1>3. CopiesHeld'
    <2>1. Held("store", entry.ver, now - MaxFlight)'
      <3>1. Held("store", entry.ver, now - MaxFlight)
        BY <1>1 DEF Held, TypeOK, Kind
      <3> QED
        BY <3>1, <1>2 DEF Held, RefreshUnchanged
    <2>2. info' # None => info'.created <= now' /\ Held("info", info.ver, info.created - MaxFlight)'
      BY DEF IInv, CopiesHeld, Held, RefreshUnchanged
    <2> QED
      BY <1>1, <1>2, <2>1, <2>2 DEF CopiesHeld, RefreshUnchanged
  <1>4. StampSeen' /\ TokenCoherent' /\ info' \in Info \cup {None} /\ source' \in SourceState
    BY DEF IInv, TypeOK, StampSeen, TokenCoherent, RefreshUnchanged
  <1>5. now - req[r].since < TTL + MaxFlight
    BY <1>1
  <1>6. PICK q \in ReqState : RequestOK(q) /\ q.pc = "holds" /\ Become(r, q)
    BY <1>1, <1>5, UsingType DEF RefreshUnchanged
  <1> QED
    BY <1>1, <1>2, <1>3, <1>4, <1>6, MoveKeeps DEF RefreshUnchanged

LEMMA KeepInfoKeeps ==
  ASSUME IInv, NEW r \in Req, KeepInfo(r)
  PROVE  IInv'
  <1>1. /\ TypeOK /\ now \in Nat /\ MaxFlight \in Nat /\ req[r].max \in Nat \ {0}
        /\ req[r].since \in Nat /\ req[r].since <= now /\ now <= req[r].since + MaxFlight
        /\ Held("info", req[r].ver, req[r].since)
    BY PoolsAssumption DEF IInv, TypeOK, ReqState, RequestOK, KeepInfo
  <1>2. req[r].ver \in 0 .. MaxVersion
    BY <1>1, HeldType DEF Kind
  <1>3. info' \in Info /\ info'.ver = req[r].ver /\ info'.created = now
    BY <1>1, <1>2 DEF KeepInfo, Info
  <1>4. PICK v \in 0 .. MaxVersion : v = req[r].ver
    BY <1>2
  <1>5. CopiesHeld'
    <2>1. Held("info", v, now - MaxFlight)'
      <3>1. Held("info", v, now - MaxFlight)
        BY <1>1, <1>4 DEF Held, TypeOK, Kind
      <3> QED
        BY <3>1 DEF Held, KeepInfo
    <2>2. entry' # None => entry'.created <= now' /\ Held("store", entry.ver, entry.created - MaxFlight)'
      BY DEF IInv, CopiesHeld, Held, KeepInfo
    <2> QED
      BY <1>1, <1>3, <1>4, <2>1, <2>2 DEF CopiesHeld, KeepInfo
  <1>6. StampSeen' /\ TokenCoherent' /\ source' \in SourceState
    BY DEF IInv, TypeOK, StampSeen, TokenCoherent, KeepInfo
  <1>7. now - req[r].since < req[r].max + MaxFlight
    BY <1>1
  <1>8. PICK q \in ReqState : RequestOK(q) /\ q.pc = "told" /\ Become(r, q)
    BY <1>1, <1>7, ToldType DEF KeepInfo
  <1> QED
    BY <1>3, <1>5, <1>6, <1>8, MoveKeeps DEF KeepInfo

\* A pool that is opened was nobody's.
LEMMA OpenStoreKeeps ==
  ASSUME IInv, NEW r \in Req, NEW s \in Store, OpenStore(r, s)
  PROVE  IInv'
  <1> DEFINE q == [req[r] EXCEPT !.pc = "opened", !.store = s]
  <1>1. req[r] \in ReqState /\ RequestOK(req[r]) /\ req \in [Req -> ReqState]
        /\ status \in [Store -> {"open", "closing", "closed"}]
    BY DEF IInv, TypeOK
  <1>2. q \in ReqState /\ RequestOK(q) /\ q.pc = "opened" /\ q.store = s
    BY <1>1 DEF ReqState, RequestOK, OpenStore
  <1>3. /\ req' \in [Req -> ReqState]
        /\ \A p \in Req : req'[p] = IF p = r THEN q ELSE req[p]
    BY <1>1, <1>2 DEF OpenStore, Become
  <1>4. /\ status' \in [Store -> {"open", "closing", "closed"}]
        /\ \A t \in Store : status'[t] = IF t = s THEN "open" ELSE status[t]
    BY <1>1 DEF OpenStore
  <1> HIDE DEF q
  <1>5. TypeOK'
    BY <1>3, <1>4 DEF IInv, TypeOK, OpenStore
  <1>6. entry # None => entry.store \in Store /\ status[entry.store] = "open" /\ entry.store # s
    BY DEF IInv, TypeOK, NoPoolLeaks, Entry, OpenStore
  <1>7. NoPoolLeaks'
    <2>1. ASSUME NEW t \in Store, status'[t] = "open"
          PROVE  \/ entry' # None /\ entry'.store = t
                 \/ \E p \in Req : req'[p].pc = "opened" /\ req'[p].store = t
      <3>1. CASE t = s
        BY <1>2, <1>3, <3>1
      <3>2. CASE t # s
        <4>1. status[t] = "open"
          BY <1>4, <2>1, <3>2
        <4>2. CASE entry # None /\ entry.store = t
          BY <4>2 DEF OpenStore
        <4>3. ASSUME NEW p \in Req, req[p].pc = "opened" /\ req[p].store = t
              PROVE  req'[p].pc = "opened" /\ req'[p].store = t
          BY <1>3, <4>3 DEF OpenStore
        <4> QED
          BY <4>1, <4>2, <4>3 DEF IInv, NoPoolLeaks
      <3> QED
        BY <3>1, <3>2
    <2>2. entry' # None => status'[entry'.store] = "open"
      BY <1>4, <1>6 DEF OpenStore
    <2> QED
      BY <2>1, <2>2 DEF NoPoolLeaks
  <1>8. PoolsApart'
    <2>1. ASSUME NEW p \in Req, req'[p].pc = "opened"
          PROVE  /\ req'[p].store \in Store /\ status'[req'[p].store] = "open"
                 /\ entry' # None => entry'.store # req'[p].store
      BY <1>2, <1>3, <1>4, <1>6, <2>1 DEF IInv, PoolsApart, OpenStore
    <2>2. ASSUME NEW o \in Req, NEW p \in Req, req'[o].pc = "opened", req'[p].pc = "opened",
                 req'[o].store = req'[p].store
          PROVE  o = p
      BY <1>2, <1>3, <2>2 DEF IInv, PoolsApart, OpenStore
    <2> QED
      BY <2>1, <2>2 DEF PoolsApart
  <1>9. CopiesHeld' /\ StampSeen' /\ TokenCoherent'
    BY DEF IInv, CopiesHeld, StampSeen, TokenCoherent, Held, OpenStore
  <1>10. ASSUME NEW p \in Req
         PROVE  RequestOK(req[p])'
    BY <1>2, <1>3 DEF IInv, RequestOK, Held, OpenStore
  <1> QED
    BY <1>5, <1>7, <1>8, <1>9, <1>10 DEF IInv

\* The pool that is installed was this request's alone; what it replaces closes.
LEMMA InstallKeeps ==
  ASSUME IInv, NEW r \in Req, Install(r)
  PROVE  IInv'
  <1>1. /\ TypeOK /\ now \in Nat /\ MaxFlight \in Nat /\ TTL \in Nat \ {0}
        /\ req[r].since \in Nat /\ req[r].since <= now /\ now <= req[r].since + MaxFlight
        /\ Held("store", req[r].ver, req[r].since)
    BY PoolsAssumption DEF IInv, TypeOK, RequestOK, Install
  <1>2. PICK s \in Store : s = req[r].store
    BY DEF IInv, PoolsApart, Install
  <1>3. PICK v \in 0 .. MaxVersion : v = req[r].ver
    BY <1>1, HeldType DEF Kind
  <1>4. /\ status[s] = "open" /\ (entry # None => entry.store # s)
        /\ \A p \in Req : req[p].pc = "opened" /\ req[p].store = s => p = r
    BY <1>2 DEF IInv, PoolsApart, Install
  <1>5. /\ entry' \in Entry /\ entry' # None /\ entry'.store = s /\ entry'.ver = v
        /\ entry'.created = now
    BY <1>1, <1>2, <1>3, PoolsAssumption DEF Install, Entry
  <1>6. now - req[r].since < TTL + MaxFlight
    BY <1>1
  <1>7. PICK q \in ReqState : RequestOK(q) /\ q.pc = "holds" /\ Become(r, q)
    BY <1>1, <1>2, <1>6, UsingType DEF Install
  <1>8. /\ req' \in [Req -> ReqState]
        /\ \A p \in Req : req'[p] = IF p = r THEN q ELSE req[p]
    BY <1>7 DEF IInv, TypeOK, Become
  <1>9. /\ status' \in [Store -> {"open", "closing", "closed"}]
        /\ \A t \in Store :
             status'[t] = IF entry # None /\ t = entry.store /\ t # s THEN "closing" ELSE status[t]
    BY <1>1, <1>2 DEF Install, ClosedAfter, TypeOK
  <1>10. TypeOK'
    BY <1>1, <1>5, <1>8, <1>9 DEF TypeOK, Install
  <1>11. NoPoolLeaks'
    <2>1. ASSUME NEW t \in Store, status'[t] = "open"
          PROVE  \/ entry' # None /\ entry'.store = t
                 \/ \E p \in Req : req'[p].pc = "opened" /\ req'[p].store = t
      <3>1. CASE t = s
        BY <1>5, <3>1
      <3>2. CASE t # s
        <4>1. status[t] = "open" /\ ~(entry # None /\ entry.store = t)
          BY <1>9, <2>1, <3>2
        <4>2. PICK p \in Req : req[p].pc = "opened" /\ req[p].store = t
          BY <4>1 DEF IInv, NoPoolLeaks
        <4>3. p # r
          BY <1>2, <3>2, <4>2
        <4> QED
          BY <1>8, <4>2, <4>3
      <3> QED
        BY <3>1, <3>2
    <2>2. status'[entry'.store] = "open"
      BY <1>4, <1>5, <1>9
    <2> QED
      BY <2>1, <2>2 DEF NoPoolLeaks
  <1>12. PoolsApart'
    <2>1. ASSUME NEW p \in Req, req'[p].pc = "opened"
          PROVE  p # r /\ req'[p] = req[p]
      BY <1>7, <1>8, <2>1
    <2>2. ASSUME NEW p \in Req, req'[p].pc = "opened"
          PROVE  /\ req'[p].store \in Store /\ status'[req'[p].store] = "open"
                 /\ entry' # None => entry'.store # req'[p].store
      <3>1. /\ req[p].store \in Store /\ status[req[p].store] = "open"
            /\ entry # None => entry.store # req[p].store
        BY <2>1, <2>2 DEF IInv, PoolsApart
      <3>2. req[p].store # s
        BY <1>4, <2>1, <2>2
      <3> QED
        BY <1>5, <1>9, <2>1, <2>2, <3>1, <3>2
    <2>3. ASSUME NEW o \in Req, NEW p \in Req, req'[o].pc = "opened", req'[p].pc = "opened",
                 req'[o].store = req'[p].store
          PROVE  o = p
      BY <2>1, <2>3 DEF IInv, PoolsApart
    <2> QED
      BY <2>2, <2>3 DEF PoolsApart
  <1>13. CopiesHeld'
    <2>1. Held("store", v, now - MaxFlight)'
      <3>1. Held("store", v, now - MaxFlight)
        BY <1>1, <1>3 DEF Held, TypeOK, Kind
      <3> QED
        BY <3>1 DEF Held, Install
    <2>2. info' # None => info'.created <= now' /\ Held("info", info.ver, info.created - MaxFlight)'
      BY DEF IInv, CopiesHeld, Held, Install
    <2> QED
      BY <1>1, <1>5, <2>1, <2>2 DEF CopiesHeld, Install
  <1>14. StampSeen' /\ TokenCoherent'
    BY DEF IInv, StampSeen, TokenCoherent, Install
  <1>15. ASSUME NEW p \in Req
         PROVE  RequestOK(req[p])'
    BY <1>7, <1>8 DEF IInv, RequestOK, Held, Install
  <1> QED
    BY <1>10, <1>11, <1>12, <1>13, <1>14, <1>15 DEF IInv

LEMMA FinishCloseKeeps ==
  ASSUME IInv, NEW s \in Store, FinishClose(s)
  PROVE  IInv'
  <1>1. /\ status' \in [Store -> {"open", "closing", "closed"}]
        /\ \A t \in Store : (status'[t] = "open") = (status[t] = "open")
    BY DEF IInv, TypeOK, FinishClose
  <1>2. TypeOK'
    BY <1>1 DEF IInv, TypeOK, FinishClose
  <1>3. entry # None => entry.store \in Store
    BY DEF IInv, TypeOK, Entry
  <1>4. NoPoolLeaks' /\ PoolsApart'
    BY <1>1, <1>3 DEF IInv, NoPoolLeaks, PoolsApart, FinishClose
  <1>5. CopiesHeld' /\ StampSeen' /\ TokenCoherent' /\ (\A r \in Req : RequestOK(req[r]))'
    BY DEF IInv, CopiesHeld, StampSeen, TokenCoherent, RequestOK, Held, FinishClose
  <1> QED
    BY <1>2, <1>4, <1>5 DEF IInv

LEMMA RotateKeeps ==
  ASSUME IInv, NEW k \in Kind, Rotate(k)
  PROVE  IInv'
  <1>1. /\ TypeOK /\ now \in Nat /\ MaxVersion \in Nat /\ MaxFlight \in Nat
        /\ live \in [Kind -> 0 .. MaxVersion]
        /\ replaced \in [Kind -> [0 .. MaxVersion -> Nat \cup {None}]]
    BY PoolsAssumption DEF IInv, TypeOK
  <1>2. live' \in [Kind -> 0 .. MaxVersion]
        /\ replaced' \in [Kind -> [0 .. MaxVersion -> Nat \cup {None}]]
    BY <1>1 DEF Rotate
  <1>3. TypeOK'
    BY <1>2 DEF IInv, TypeOK, Rotate
  <1>4. NoPoolLeaks' /\ PoolsApart' /\ StampSeen' /\ TokenCoherent'
    BY DEF IInv, NoPoolLeaks, PoolsApart, StampSeen, TokenCoherent, Rotate
  <1>5. CopiesHeld'
    <2>1. ASSUME entry # None
          PROVE  entry'.created <= now' /\ Held("store", entry.ver, entry.created - MaxFlight)'
      <3>1. PICK t \in Int : t = entry.created - MaxFlight /\ t <= now
        BY <1>1, <2>1 DEF IInv, TypeOK, Entry, CopiesHeld
      <3>2. PICK v : v = entry.ver
        OBVIOUS
      <3>3. Held("store", v, t)'
        BY <1>1, <2>1, <3>1, <3>2, HeldRotates DEF IInv, CopiesHeld, Kind
      <3> QED
        BY <2>1, <3>1, <3>2, <3>3 DEF IInv, CopiesHeld, Rotate
    <2>2. ASSUME info # None
          PROVE  info'.created <= now' /\ Held("info", info.ver, info.created - MaxFlight)'
      <3>1. PICK t \in Int : t = info.created - MaxFlight /\ t <= now
        BY <1>1, <2>2 DEF IInv, TypeOK, Info, CopiesHeld
      <3>2. PICK v : v = info.ver
        OBVIOUS
      <3>3. Held("info", v, t)'
        BY <1>1, <2>2, <3>1, <3>2, HeldRotates DEF IInv, CopiesHeld, Kind
      <3> QED
        BY <2>2, <3>1, <3>2, <3>3 DEF IInv, CopiesHeld, Rotate
    <2> QED
      BY <2>1, <2>2 DEF CopiesHeld, Rotate
  <1>6. ASSUME NEW r \in Req
        PROVE  RequestOK(req[r])'
    <2>1. PICK q \in ReqState : q = req[r] /\ RequestOK(q)
      BY DEF IInv, TypeOK
    <2>2. ASSUME q.pc \in {"answer", "opened"}
          PROVE  Held(q.kind, q.ver, q.since)'
      BY <1>1, <2>1, <2>2, HeldRotates DEF RequestOK
    <2> QED
      BY <2>1, <2>2 DEF RequestOK, Rotate
  <1> QED
    BY <1>3, <1>4, <1>5, <1>6 DEF IInv

\* A write gives the file a stamp that nobody has seen.
LEMMA WriteKeeps ==
  ASSUME IInv, Truncate \/ WriteToken
  PROVE  IInv'
  <1>1. file.stamp \in Nat /\ source \in SourceState /\ None \notin Nat
    BY PoolsAssumption DEF IInv, TypeOK
  <1>2. /\ file' \in [content : Nat \cup {None}, stamp : Nat] /\ file'.stamp = file.stamp + 1
        /\ UNCHANGED <<now, live, replaced, status, entry, info, source, req>>
    BY <1>1 DEF Truncate, WriteToken
  <1>3. TypeOK' /\ NoPoolLeaks' /\ PoolsApart' /\ CopiesHeld'
    BY <1>2 DEF IInv, TypeOK, NoPoolLeaks, PoolsApart, CopiesHeld, Held
  <1>4. StampSeen' /\ TokenCoherent'
    BY <1>1, <1>2 DEF IInv, StampSeen, TokenCoherent, SourceState
  <1>5. ASSUME NEW r \in Req
        PROVE  RequestOK(req[r])'
    BY <1>1, <1>2 DEF IInv, RequestOK, Held
  <1> QED
    BY <1>3, <1>4, <1>5 DEF IInv

LEMMA TickKeeps ==
  ASSUME IInv, Tick
  PROVE  IInv'
  <1>1. now \in Nat /\ now' = now + 1 /\ MaxFlight \in Nat /\ None \notin Nat
    BY PoolsAssumption DEF IInv, TypeOK, Tick
  <1>2. TypeOK' /\ NoPoolLeaks' /\ PoolsApart' /\ StampSeen' /\ TokenCoherent'
    BY <1>1 DEF IInv, TypeOK, NoPoolLeaks, PoolsApart, StampSeen, TokenCoherent, Tick
  <1>3. CopiesHeld'
    BY <1>1 DEF IInv, TypeOK, Entry, Info, CopiesHeld, Held, Tick
  <1>4. ASSUME NEW r \in Req
        PROVE  RequestOK(req[r])'
    BY <1>1 DEF IInv, RequestOK, Held, Tick
  <1> QED
    BY <1>2, <1>3, <1>4 DEF IInv

LEMMA NextIInv == IInv /\ [Next]_vars => IInv'
  <1> SUFFICES ASSUME IInv, [Next]_vars PROVE IInv'
    OBVIOUS
  <1>1. ASSUME NEW r \in Req,
               \/ GetStore(r) \/ TokenCached(r) \/ TokenStat(r) \/ TokenRead(r)
               \/ Ask(r) \/ Fail(r) \/ RefreshUnchanged(r) \/ Install(r)
               \/ KeepInfo(r) \/ Query(r) \/ Done(r)
        PROVE  IInv'
    BY <1>1, GetStoreKeeps, TokenCachedKeeps, TokenStatKeeps, TokenReadKeeps, AskKeeps, EndKeeps,
       RefreshUnchangedKeeps, InstallKeeps, KeepInfoKeeps, QueryKeeps
  <1>2. ASSUME NEW r \in Req, NEW max \in MaxAges, GetProjectInfoWithin(r, max)
        PROVE  IInv'
    BY <1>2, GetProjectInfoKeeps
  <1>3. ASSUME NEW r \in Req, NEW s \in Store, OpenStore(r, s)
        PROVE  IInv'
    BY <1>3, OpenStoreKeeps
  <1>4. CASE \E s \in Store : FinishClose(s)
    BY <1>4, FinishCloseKeeps
  <1>5. CASE \E k \in Kind : Rotate(k)
    BY <1>5, RotateKeeps
  <1>6. CASE Truncate \/ WriteToken
    BY <1>6, WriteKeeps
  <1>7. CASE Tick
    BY <1>7, TickKeeps
  <1>8. CASE UNCHANGED vars
    BY <1>8 DEF vars, IInv, TypeOK, NoPoolLeaks, PoolsApart, CopiesHeld, StampSeen, TokenCoherent,
                RequestOK, Held
  <1> QED
    BY <1>1, <1>2, <1>3, <1>4, <1>5, <1>6, <1>7, <1>8 DEF Next

\* The invariant holds throughout: an opened pool has one owner, and a cached copy or
\* an answer under way was held by provisioning when it was made.
THEOREM Invariance == Spec => []IInv
  BY InitIInv, NextIInv, PTL DEF Spec

\* However many requests open pools for an expired project at once, createStore leaves
\* none open but the installed one and those still on their way.
THEOREM PoolsDoNotLeak == Spec => []NoPoolLeaks
  <1>1. IInv => NoPoolLeaks
    BY DEF IInv
  <1> QED
    BY <1>1, Invariance, PTL

\* No pool and no settings copy is handed out later than its age and one flight after
\* provisioning replaced it, and FileSource never remembers the file's stamp with a
\* token that is not the file's.
THEOREM CachesStayFresh == Spec => []CachesAreFresh
  <1>1. IInv => AnswersAreFresh
    BY DEF IInv, AnswersAreFresh, RequestOK
  <1>2. IInv => CachesAreFresh
    BY <1>1 DEF IInv, CachesAreFresh
  <1> QED
    BY <1>2, Invariance, PTL

=============================================================================
