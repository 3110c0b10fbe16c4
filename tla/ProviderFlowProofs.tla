------------------------- MODULE ProviderFlowProofs -------------------------
(* Proofs of the safety properties of ProviderFlow, for any browsers, accounts,   *)
(* flows and requests.                                                     *)
EXTENDS ProviderFlow, TLAPS

-----------------------------------------------------------------------------
(* Types.                                                                  *)

LEMMA IdleType ==
  /\ Idle \in ReqState
  /\ Idle.pc = "idle" /\ Idle.flow = None /\ Idle.drop = {} /\ Idle.saw = {}
  BY DEF Idle, ReqState

LEMMA NewFlowType ==
  /\ NewFlow \in FlowRow /\ NewFlow.at = "free" /\ ~NewFlow.ended
  /\ Spent \in FlowRow /\ Spent.at = "spent" /\ ~Spent.ended
  BY DEF NewFlow, Spent, FlowRow, Rest

LEMMA RestingRowOK == RowOK(NewFlow) /\ RowOK(Spent)
<1>1. RowOK(NewFlow)
  BY NewFlowType DEF RowOK
<1>2. RowOK(Spent)
  BY NewFlowType DEF RowOK
<1> QED
  BY <1>1, <1>2

\* A new token's sign-in time is the one it is given.
LEMMA NewTokenType ==
  ASSUME TypeOK, NEW u \in User, NEW auth \in Nat \cup {None}, NEW guest \in BOOLEAN, NEW real \in Nat
  PROVE  \E t \in Token : t = NewToken(u, auth, guest, real) /\ t.auth = auth /\ t.real = real
<1>1. now \in Nat
  BY ProviderFlowAssumption DEF TypeOK
<1>2. PICK i \in Nat : i = IF guest THEN now ELSE 0
  BY <1>1
<1>3. NewToken(u, auth, guest, real) =
        [user |-> u, auth |-> auth, issued |-> i, guest |-> guest, live |-> guest, real |-> real]
  BY <1>2 DEF NewToken
<1>4. NewToken(u, auth, guest, real) \in Token
  BY <1>3 DEF Token
<1>5. /\ NewToken(u, auth, guest, real).auth = auth
      /\ NewToken(u, auth, guest, real).real = real
  BY <1>3
<1> QED
  BY <1>4, <1>5

\* One token is replaced.
LEMMA TokenKeeps ==
  ASSUME TypeOK, TokensOK, NEW b \in Browser, NEW t \in Token, t.auth = None \/ t.auth = t.real,
         holds' = [holds EXCEPT ![b] = t]
  PROVE  holds' \in [Browser -> Token \cup {None}] /\ TokensOK'
  BY DEF TypeOK, TokensOK

-----------------------------------------------------------------------------
(* Steps, by what they do to the flows.                                    *)

\* Rows are spent that nobody moves any more, and requests go idle.
LEMMA SpendKeeps ==
  ASSUME IInv, TypeOK', TokensOK', NEW S,
         \A f \in Flow : flows'[f] = IF f \in S THEN Spent ELSE flows[f],
         \A q \in Req : req'[q] = Idle \/ (req'[q] = req[q] /\ req[q].flow \notin S)
  PROVE  IInv'
<1>1. OneMover'
  BY IdleType DEF IInv, OneMover
<1>2. \A f \in Flow : RowOK(flows'[f])
  BY RestingRowOK DEF IInv
<1>3. ASSUME NEW q \in Req PROVE RequestOK(q)'
  <2>1. CASE req'[q] = Idle
    BY <2>1, IdleType DEF RequestOK, Moving
  <2>2. CASE req'[q] = req[q] /\ req[q].flow \notin S
    <3>1. RequestOK(q) /\ req[q] \in ReqState
      BY DEF IInv, TypeOK
    <3>2. req[q].pc \in Moving => req[q].flow \in Flow /\ MoverOK(req[q], flows'[req[q].flow])
      BY <2>2, <3>1 DEF RequestOK
    <3>3. \A f \in req[q].drop : flows'[f].at \in {"ticket", "state", "spent"}
      BY <3>1, NewFlowType DEF RequestOK, ReqState
    <3>4. \A f \in req[q].saw \ req[q].drop :
            /\ flows'[f].at \in {"code", "moving", "spent"}
            /\ \A p \in Req : req'[p].flow = f => req'[p].pc \in {"commit", "session"}
      <4>1. None \notin Flow
        BY ProviderFlowAssumption
      <4> QED
        BY <3>1, <4>1, NewFlowType, IdleType DEF RequestOK, ReqState
    <3> QED
      BY <2>2, <3>1, <3>2, <3>3, <3>4 DEF RequestOK
  <2> QED
    BY <2>1, <2>2
<1> QED
  BY <1>1, <1>2, <1>3 DEF IInv

\* The flows and the requests stay as they are.
LEMMA OthersKeep ==
  ASSUME IInv, TypeOK', TokensOK', flows' = flows, req' = req PROVE IInv'
<1>0. PICK S : S = {}
  OBVIOUS
<1>1. \A f \in Flow : flows'[f] = IF f \in S THEN Spent ELSE flows[f]
  BY <1>0
<1>2. \A q \in Req : req'[q] = Idle \/ (req'[q] = req[q] /\ req[q].flow \notin S)
  BY <1>0
<1> QED
  BY <1>1, <1>2, SpendKeeps

\* One flow gets a row, and at most one request moves it from there.
LEMMA PutKeeps ==
  ASSUME IInv, NEW f \in Flow, NEW row \in FlowRow, Put(f, row), RowOK(row),
         UNCHANGED <<now, holds>>, users' \in [User -> {"none", "guest", "full", "disabled", "gone"}],
         ident' \in [Browser -> User \cup {None}], req' \in [Req -> ReqState],
         \A q \in Req : \/ req'[q] = Idle
                        \/ req'[q] = req[q] /\ req[q].flow # f
                        \/ /\ req'[q].flow = f /\ req'[q].pc \in Moving
                           /\ req'[q].drop = {} /\ req'[q].saw = {}
                           /\ MoverOK(req'[q], row),
         \A p, q \in Req : req'[p].flow = f /\ req'[q].flow = f => p = q,
         \A q \in Req : f \in req[q].drop => row.at \in {"ticket", "state", "spent"},
         \A q \in Req : f \in req[q].saw \ req[q].drop =>
           /\ row.at \in {"code", "moving", "spent"}
           /\ \A p \in Req : req'[p].flow = f => req'[p].pc \in {"commit", "session"}
  PROVE  IInv'
<1>0. None \notin Flow /\ (\A g \in Flow : flows'[g] = IF g = f THEN row ELSE flows[g])
  BY ProviderFlowAssumption DEF IInv, TypeOK, Put
<1>1. TypeOK'
  BY DEF IInv, TypeOK, Put
<1>2. TokensOK'
  BY DEF IInv, TokensOK
<1>3. OneMover'
  BY IdleType DEF IInv, OneMover
<1>4. \A g \in Flow : RowOK(flows'[g])
  BY <1>0 DEF IInv
<1>5. ASSUME NEW q \in Req PROVE RequestOK(q)'
  <2>1. CASE req'[q] = Idle
    BY <2>1, IdleType DEF RequestOK, Moving
  <2>2. CASE /\ req'[q].flow = f /\ req'[q].pc \in Moving
             /\ req'[q].drop = {} /\ req'[q].saw = {}
             /\ MoverOK(req'[q], row)
    BY <1>0, <2>2 DEF RequestOK, Moving
  <2>3. CASE req'[q] = req[q] /\ req[q].flow # f
    <3>1. RequestOK(q) /\ req[q] \in ReqState
      BY DEF IInv, TypeOK
    <3>2. req[q].pc \in Moving => req[q].flow \in Flow /\ MoverOK(req[q], flows'[req[q].flow])
      BY <1>0, <2>3, <3>1 DEF RequestOK
    <3>3. \A g \in req[q].drop : flows'[g].at \in {"ticket", "state", "spent"}
      BY <1>0, <3>1 DEF RequestOK, ReqState
    <3>4. ASSUME NEW g \in req[q].saw \ req[q].drop
          PROVE  /\ flows'[g].at \in {"code", "moving", "spent"}
                 /\ \A p \in Req : req'[p].flow = g => req'[p].pc \in {"commit", "session"}
      <4>1. CASE g = f
        BY <1>0, <4>1
      <4>2. CASE g # f
        BY <1>0, <3>1, <4>2, IdleType DEF RequestOK, ReqState
      <4> QED
        BY <4>1, <4>2
    <3> QED
      BY <2>3, <3>1, <3>2, <3>3, <3>4 DEF RequestOK
  <2> QED
    BY <2>1, <2>2, <2>3
<1> QED
  BY <1>1, <1>2, <1>3, <1>4, <1>5 DEF IInv

\* A request begins that moves no flow.
LEMMA BeginKeeps ==
  ASSUME IInv, NEW r \in Req, NEW x \in ReqState, Become(r, x), x.flow = None, x.pc \notin Moving,
         x.pc = "start" => x.user \in User /\ x.age <= Window, x.pc # "end" => x.drop = {} /\ x.saw = {},
         \A f \in x.drop : flows[f].at \in {"ticket", "state"},
         \A f \in x.saw \ x.drop : flows[f].at = "code",
         req[r].flow = None, UNCHANGED <<now, users, ident, holds, flows>>
  PROVE  IInv'
<1>0. None \notin Flow /\ (\A q \in Req : req'[q] = IF q = r THEN x ELSE req[q])
  BY ProviderFlowAssumption DEF IInv, TypeOK, Become
<1>1. TypeOK' /\ TokensOK'
  BY DEF IInv, TypeOK, TokensOK, Become
<1>2. OneMover'
  BY <1>0 DEF IInv, OneMover
<1>3. \A q \in Req : \A f \in Flow : req[q].flow = f => flows[f].at = "moving" /\ req[q].pc \in Moving
  BY <1>0 DEF IInv, RequestOK, MoverOK
<1>4. ASSUME NEW q \in Req PROVE RequestOK(q)'
  <2>1. CASE q = r
    <3>1. \A f \in x.saw \ x.drop : f \in Flow /\ \A p \in Req : req'[p].flow # f
      BY <1>0, <1>3 DEF ReqState
    <3> QED
      BY <1>0, <2>1, <3>1 DEF RequestOK
  <2>2. CASE q # r
    <3>1. RequestOK(q) /\ req[q] \in ReqState
      BY DEF IInv, TypeOK
    <3>2. \A f \in req[q].saw \ req[q].drop :
            \A p \in Req : req'[p].flow = f => req'[p].pc \in {"commit", "session"}
      BY <1>0, <3>1 DEF RequestOK, ReqState
    <3> QED
      BY <1>0, <2>2, <3>1, <3>2 DEF RequestOK
  <2> QED
    BY <2>1, <2>2
<1> QED
  BY <1>1, <1>2, <1>4 DEF IInv

-----------------------------------------------------------------------------
(* The invariant holds at the start and every action keeps it.             *)

LEMMA InitIInv == Init => IInv
<1> SUFFICES ASSUME Init PROVE IInv
  OBVIOUS
<1>1. TypeOK
  BY IdleType, NewFlowType, ProviderFlowAssumption DEF Init, TypeOK
<1>2. TokensOK
  BY DEF Init, TokensOK
<1>3. OneMover /\ \A r \in Req : RequestOK(r)
  BY IdleType DEF Init, OneMover, RequestOK, Moving
<1>4. \A f \in Flow : RowOK(flows[f])
  BY RestingRowOK DEF Init
<1> QED
  BY <1>1, <1>2, <1>3, <1>4 DEF IInv

\* Sign-ins and refreshes replace one browser's token.
LEMMA TokensKeep ==
  ASSUME IInv, NEW b \in Browser, (\E u \in User : GuestSignIn(b, u)) \/ SignIn(b) \/ Refresh(b)
  PROVE  IInv'
<1>0. TypeOK /\ TokensOK /\ now \in Nat
  BY ProviderFlowAssumption DEF IInv, TypeOK
<1>1. ASSUME NEW u \in User, NEW auth \in Nat \cup {None}, NEW guest \in BOOLEAN, NEW real \in Nat,
             auth = None \/ auth = real,
             holds' = [holds EXCEPT ![b] = NewToken(u, auth, guest, real)],
             users' \in [User -> {"none", "guest", "full", "disabled", "gone"}],
             UNCHANGED <<now, ident, flows, req>>
      PROVE  IInv'
  <2>0. PICK t \in Token : t = NewToken(u, auth, guest, real) /\ t.auth = auth /\ t.real = real
    BY <1>0, NewTokenType
  <2>1. holds' \in [Browser -> Token \cup {None}] /\ TokensOK'
    BY <1>0, <1>1, <2>0, TokenKeeps
  <2>2. TypeOK'
    BY <1>0, <1>1, <2>1 DEF TypeOK
  <2> QED
    BY <1>1, <2>1, <2>2, OthersKeep
<1>2. ASSUME NEW u \in User, GuestSignIn(b, u) PROVE IInv'
  <2>1. users' \in [User -> {"none", "guest", "full", "disabled", "gone"}]
    BY <1>0, <1>2 DEF GuestSignIn, TypeOK
  <2> QED
    BY <1>0, <1>1, <1>2, <2>1 DEF GuestSignIn
<1>3. ASSUME SignIn(b) PROVE IInv'
  <2>1. holds[b].user \in User /\ users \in [User -> {"none", "guest", "full", "disabled", "gone"}]
    BY <1>0, <1>3 DEF SignIn, TypeOK, Token
  <2> QED
    BY <1>0, <1>1, <1>3, <2>1 DEF SignIn
<1>4. ASSUME Refresh(b) PROVE IInv'
  <2>1. /\ holds[b].user \in User /\ holds[b].auth \in Nat \cup {None} /\ holds[b].real \in Nat
        /\ users \in [User -> {"none", "guest", "full", "disabled", "gone"}]
    BY <1>0, <1>4 DEF Refresh, TypeOK, Token
  <2>2. holds[b].auth = None \/ holds[b].auth = holds[b].real
    BY <1>0, <1>4 DEF Refresh, TokensOK
  <2> QED
    BY <1>1, <1>4, <2>1, <2>2 DEF Refresh
<1> QED
  BY <1>2, <1>3, <1>4

\* A request that is idle, and one that moves a flow.
LEMMA IdleRequest ==
  ASSUME IInv, NEW r \in Req, req[r].pc \in {"idle", "start", "end"}
  PROVE  req[r].flow = None
  BY DEF IInv, RequestOK, Moving

LEMMA MovingRequest ==
  ASSUME IInv, NEW r \in Req, req[r].pc \in Moving
  PROVE  /\ req[r].flow \in Flow /\ MoverOK(req[r], flows[req[r].flow])
         /\ flows[req[r].flow] \in FlowRow /\ req[r].drop = {} /\ req[r].saw = {}
         /\ \A q \in Req : q # r => req[q].flow # req[r].flow
         /\ \A q \in Req : req[r].flow \notin req[q].drop
         /\ req[r].pc \in {"leave", "resolve", "issue"} =>
              \A q \in Req : req[r].flow \notin req[q].saw \ req[q].drop
<1>1. /\ req[r].flow \in Flow /\ MoverOK(req[r], flows[req[r].flow])
      /\ req[r].drop = {} /\ req[r].saw = {}
  BY DEF IInv, RequestOK, Moving
<1>2. flows[req[r].flow] \in FlowRow
  BY <1>1 DEF IInv, TypeOK
<1>3. \A q \in Req : q # r => req[q].flow # req[r].flow
  BY <1>1, ProviderFlowAssumption DEF IInv, OneMover
<1>4. \A q \in Req : req[r].flow \notin req[q].drop
  BY <1>1 DEF IInv, RequestOK, MoverOK
<1>5. req[r].pc \in {"leave", "resolve", "issue"} =>
        \A q \in Req : req[r].flow \notin req[q].saw \ req[q].drop
  BY DEF IInv, RequestOK
<1> QED
  BY <1>1, <1>2, <1>3, <1>4, <1>5

\* A flow at rest: nobody moves it, and whoever ends its account's sessions has seen
\* it only where it is.
LEMMA RestingFlow ==
  ASSUME IInv, NEW f \in Flow, flows[f].at # "moving"
  PROVE  /\ flows[f] \in FlowRow /\ RowOK(flows[f])
         /\ \A q \in Req : req[q].flow # f
         /\ \A q \in Req : f \in req[q].drop => flows[f].at \in {"ticket", "state", "spent"}
         /\ \A q \in Req : f \in req[q].saw \ req[q].drop => flows[f].at \in {"code", "spent"}
<1>1. flows[f] \in FlowRow /\ RowOK(flows[f])
  BY DEF IInv, TypeOK
<1>2. \A q \in Req : req[q].flow # f
  BY ProviderFlowAssumption DEF IInv, RequestOK, MoverOK
<1>3. \A q \in Req : f \in req[q].drop => flows[f].at \in {"ticket", "state", "spent"}
  BY DEF IInv, RequestOK
<1>4. \A q \in Req : f \in req[q].saw \ req[q].drop => flows[f].at \in {"code", "spent"}
  BY DEF IInv, RequestOK
<1> QED
  BY <1>1, <1>2, <1>3, <1>4

\* What a step leaves of the accounts and identities.
LEMMA WorldType ==
  ASSUME IInv
  PROVE  /\ users \in [User -> {"none", "guest", "full", "disabled", "gone"}]
         /\ ident \in [Browser -> User \cup {None}] /\ req \in [Req -> ReqState]
         /\ flows \in [Flow -> FlowRow]
  BY DEF IInv, TypeOK

\* A request takes a flow up from its row, or puts it to rest in one.
LEMMA TakesUp ==
  ASSUME IInv, NEW r \in Req, NEW f \in Flow, NEW row \in FlowRow, NEW x \in ReqState,
         req[r].pc = "idle", flows[f].at \in Rest, RowFree(f), Put(f, row), Become(r, x), RowOK(row),
         x.flow = f, x.pc \in Moving, x.drop = {}, x.saw = {}, MoverOK(x, row),
         flows[f].at = "code" => x.pc \in {"commit", "session"},
         UNCHANGED <<now, users, ident, holds>>
  PROVE  IInv'
<1>1. \A q \in Req : req'[q] = IF q = r THEN x ELSE req[q]
  BY WorldType DEF Become
<1>2. flows[f].at # "moving"
  BY DEF Rest
<1>3. \A q \in Req : req[q].flow # f
  BY <1>2, RestingFlow
<1>4. \A q \in Req : f \notin req[q].drop
  BY DEF RowFree
<1>5. \A q \in Req : f \in req[q].saw \ req[q].drop => flows[f].at = "code"
  BY <1>2, RestingFlow DEF Rest
<1>6. row.at = "moving"
  BY DEF MoverOK
<1>7. req' \in [Req -> ReqState]
  BY WorldType DEF Become
<1> QED
  BY <1>1, <1>3, <1>4, <1>5, <1>6, <1>7, WorldType, PutKeeps

LEMMA MovesOn ==
  ASSUME IInv, NEW r \in Req, NEW row \in FlowRow, NEW x \in ReqState,
         req[r].pc \in Moving, Put(req[r].flow, row), Become(r, x), RowOK(row),
         \/ x = Idle
         \/ /\ x.flow = req[r].flow /\ x.pc \in Moving /\ x.drop = {} /\ x.saw = {}
            /\ MoverOK(x, row),
         req[r].pc \in {"leave", "resolve", "issue"} \/ (row.at = "moving" /\ x.pc = "session"),
         users' \in [User -> {"none", "guest", "full", "disabled", "gone"}],
         ident' \in [Browser -> User \cup {None}], UNCHANGED <<now, holds>>
  PROVE  IInv'
<1>1. PICK f \in Flow : f = req[r].flow
  BY MovingRequest
<1>2. \A q \in Req : req'[q] = IF q = r THEN x ELSE req[q]
  BY WorldType DEF Become
<1>3. /\ \A q \in Req : q # r => req[q].flow # f
      /\ \A q \in Req : f \notin req[q].drop
  BY <1>1, MovingRequest
<1>4. ASSUME NEW q \in Req, f \in req[q].saw \ req[q].drop
      PROVE  row.at = "moving" /\ \A p \in Req : req'[p].flow = f => req'[p].pc \in {"commit", "session"}
  <2>1. req[r].pc \notin {"leave", "resolve", "issue"}
    BY <1>1, <1>4, MovingRequest
  <2> QED
    BY <1>2, <1>3, <2>1
<1>5. req' \in [Req -> ReqState]
  BY WorldType DEF Become
<1>6. Put(f, row)
  BY <1>1
<1> QED
  BY <1>1, <1>2, <1>3, <1>4, <1>5, <1>6, PutKeeps

LEMMA AuthorizeKeeps ==
  ASSUME IInv, NEW b \in Browser, NEW f \in Flow, Authorize(b, f) PROVE IInv'
<1>1. PICK row \in FlowRow :
        /\ row = [NewFlow EXCEPT !.at = "state", !.by = b, !.cookie = b]
        /\ row.at = "state" /\ row.by = b /\ row.cookie = b /\ row.ended = NewFlow.ended
  <2> DEFINE new == [NewFlow EXCEPT !.at = "state", !.by = b, !.cookie = b]
  <2>1. new \in FlowRow
    BY NewFlowType DEF FlowRow, Rest
  <2>2. new.at = "state" /\ new.by = b /\ new.cookie = b
    BY NewFlowType DEF FlowRow, Rest
  <2>3. new.ended = NewFlow.ended
    BY NewFlowType DEF FlowRow, Rest
  <2> QED
    BY <2>1, <2>2, <2>3
<1>2. RowOK(row)
  <2>1. ~row.ended
    BY <1>1, NewFlowType, Zenon
  <2> QED
    BY <1>1, <2>1 DEF RowOK
<1>3. /\ \A q \in Req : req[q].flow # f
      /\ \A q \in Req : f \notin req[q].drop
      /\ \A q \in Req : f \notin req[q].saw \ req[q].drop
  BY RestingFlow DEF Authorize
<1> QED
  BY <1>1, <1>2, <1>3, WorldType, PutKeeps DEF Authorize

LEMMA StartProviderLinkKeeps ==
  ASSUME IInv, NEW r \in Req, NEW b \in Browser, StartProviderLink(r, b) PROVE IInv'
<1>0. now \in Nat /\ Window \in Nat
  BY ProviderFlowAssumption DEF IInv, TypeOK
<1>1. PICK t \in Token : t = holds[b]
  BY DEF StartProviderLink, IInv, TypeOK
<1>2. t.user \in User /\ t.real \in Nat /\ t.auth \in Nat \cup {None}
  BY DEF Token
<1>3. t.auth # None => t.auth = t.real
  BY <1>1 DEF StartProviderLink, IInv, TokensOK
<1>4. PICK age \in Int : age = IF users[t.user] = "guest" THEN 0 ELSE now - t.real
  BY <1>0, <1>2
<1>5. age <= Window
  BY <1>0, <1>1, <1>2, <1>3, <1>4 DEF StartProviderLink, MayLink, RecentlySignedIn
<1>6. PICK x \in ReqState :
        /\ x = [Idle EXCEPT !.pc = "start", !.browser = b, !.user = t.user, !.real = t.real, !.age = age]
        /\ x.pc = "start" /\ x.flow = None /\ x.drop = {} /\ x.saw = {} /\ x.age = age
        /\ x.user \in User
  <2> DEFINE new == [Idle EXCEPT !.pc = "start", !.browser = b, !.user = t.user,
                             !.real = t.real, !.age = age]
  <2>1. new \in ReqState
    BY <1>2, IdleType DEF ReqState
  <2>2. /\ new.pc = "start" /\ new.flow = None /\ new.drop = {} /\ new.saw = {}
        /\ new.age = age /\ new.user \in User
    BY <1>2, IdleType DEF ReqState
  <2> QED
    BY <2>1, <2>2
<1>7. Become(r, x)
  BY <1>1, <1>4, <1>6 DEF StartProviderLink
<1>8. req[r].flow = None
  BY IdleRequest DEF StartProviderLink
<1> QED
  BY <1>5, <1>6, <1>7, <1>8, BeginKeeps DEF StartProviderLink, Moving

LEMMA SaveTicketKeeps ==
  ASSUME IInv, NEW r \in Req, NEW f \in Flow, SaveTicket(r, f) PROVE IInv'
<1>1. /\ req[r] \in ReqState /\ req[r].user \in User /\ req[r].flow = None
      /\ None \notin User /\ None \notin Flow
  BY WorldType, IdleRequest, ProviderFlowAssumption DEF SaveTicket, IInv, RequestOK
<1>2. PICK row \in FlowRow :
        /\ row = [NewFlow EXCEPT !.at = "ticket", !.by = req[r].browser, !.link = req[r].user,
                                 !.real = req[r].real]
        /\ row.at = "ticket" /\ row.link = req[r].user /\ row.ended = NewFlow.ended
  <2> DEFINE new == [NewFlow EXCEPT !.at = "ticket", !.by = req[r].browser, !.link = req[r].user,
                                !.real = req[r].real]
  <2>1. new \in FlowRow
    BY <1>1, NewFlowType DEF FlowRow, Rest, ReqState
  <2>2. new.at = "ticket" /\ new.link = req[r].user
    BY <1>1, NewFlowType DEF FlowRow, Rest, ReqState
  <2>3. new.ended = NewFlow.ended
    BY <1>1, NewFlowType DEF FlowRow, Rest, ReqState
  <2> QED
    BY <2>1, <2>2, <2>3
<1>3. RowOK(row)
  <2>1. ~row.ended
    BY <1>2, NewFlowType, Zenon
  <2> QED
    BY <1>1, <1>2, <2>1 DEF RowOK
<1>4. /\ \A q \in Req : req[q].flow # f
      /\ \A q \in Req : f \notin req[q].drop
      /\ \A q \in Req : f \notin req[q].saw \ req[q].drop
  BY RestingFlow DEF SaveTicket
<1>5. /\ req' \in [Req -> ReqState]
      /\ \A q \in Req : req'[q] = Idle \/ req'[q] = req[q]
  BY WorldType, IdleType DEF SaveTicket, Become
<1>6. \A q \in Req : req'[q].flow # f
  BY <1>1, <1>4, <1>5, IdleType
<1> QED
  BY <1>2, <1>3, <1>4, <1>5, <1>6, WorldType, PutKeeps DEF SaveTicket

LEMMA AuthorizeLinkKeeps ==
  ASSUME IInv, NEW r \in Req, NEW b \in Browser, NEW f \in Flow, AuthorizeLink(r, b, f) PROVE IInv'
<1>1. flows[f].at = "ticket" /\ RowFree(f)
  BY DEF AuthorizeLink, Live
<1>2. flows[f] \in FlowRow /\ RowOK(flows[f])
  BY <1>1, RestingFlow
<1>3. PICK row \in FlowRow :
        /\ row = [flows[f] EXCEPT !.at = "moving"]
        /\ row.at = "moving" /\ row.link = flows[f].link /\ row.ended = flows[f].ended
  <2> DEFINE new == [flows[f] EXCEPT !.at = "moving"]
  <2>1. new \in FlowRow
    BY <1>2 DEF FlowRow, Rest
  <2>2. new.at = "moving" /\ new.link = flows[f].link
    BY <1>2 DEF FlowRow, Rest
  <2>3. new.ended = flows[f].ended
    BY <1>2 DEF FlowRow, Rest
  <2> QED
    BY <2>1, <2>2, <2>3
<1>4. ~row.ended
  BY <1>2, <1>3, Zenon DEF RowOK
<1>5. row.link # None
  BY <1>1, <1>2, <1>3 DEF RowOK
<1>6. PICK x \in ReqState :
        /\ x = [Idle EXCEPT !.pc = "leave", !.flow = f, !.browser = b]
        /\ x.pc = "leave" /\ x.flow = f /\ x.drop = {} /\ x.saw = {}
  <2> DEFINE new == [Idle EXCEPT !.pc = "leave", !.flow = f, !.browser = b]
  <2>1. new \in ReqState
    BY IdleType DEF ReqState
  <2>2. new.pc = "leave" /\ new.flow = f /\ new.drop = {} /\ new.saw = {}
    BY IdleType DEF ReqState
  <2> QED
    BY <2>1, <2>2
<1>7. RowOK(row) /\ MoverOK(x, row)
  BY <1>3, <1>4, <1>5, <1>6 DEF RowOK, MoverOK
<1> QED
  BY <1>1, <1>3, <1>6, <1>7, TakesUp DEF AuthorizeLink, Rest, Moving

LEMMA StartAtProviderKeeps ==
  ASSUME IInv, NEW r \in Req, StartAtProvider(r) PROVE IInv'
<1>1. PICK old \in FlowRow : old = flows[req[r].flow]
  BY MovingRequest DEF StartAtProvider, Moving
<1>2. req[r].flow \in Flow /\ old.link # None /\ ~old.ended
  BY <1>1, MovingRequest DEF StartAtProvider, Moving, MoverOK, IInv, RowOK
<1>3. req[r] \in ReqState
  BY WorldType
<1>4. PICK row \in FlowRow :
        /\ row = [old EXCEPT !.at = "state", !.cookie = req[r].browser]
        /\ row.at = "state" /\ row.link = old.link /\ row.ended = old.ended
  <2> DEFINE new == [old EXCEPT !.at = "state", !.cookie = req[r].browser]
  <2>1. new \in FlowRow
    BY <1>3 DEF FlowRow, Rest, ReqState
  <2>2. new.at = "state" /\ new.link = old.link
    BY <1>3 DEF FlowRow, Rest, ReqState
  <2>3. new.ended = old.ended
    BY <1>3 DEF FlowRow, Rest, ReqState
  <2> QED
    BY <2>1, <2>2, <2>3
<1>5. ~row.ended
  BY <1>2, <1>4, Zenon
<1>6. RowOK(row)
  BY <1>2, <1>4, <1>5 DEF RowOK
<1> QED
  BY <1>1, <1>4, <1>6, IdleType, WorldType, MovesOn DEF StartAtProvider, Moving

LEMMA CallbackKeeps ==
  ASSUME IInv, NEW r \in Req, NEW b \in Browser, NEW f \in Flow, Callback(r, b, f) PROVE IInv'
<1>1. flows[f].at = "state" /\ RowFree(f) /\ flows[f].cookie = b
  BY DEF Callback, Live, BoundToBrowser
<1>2. flows[f] \in FlowRow /\ RowOK(flows[f])
  BY <1>1, RestingFlow
<1>3. PICK row \in FlowRow :
        /\ row = [flows[f] EXCEPT !.at = "moving", !.cookie = None, !.who = b, !.user = flows[f].link]
        /\ row.at = "moving" /\ row.link = flows[f].link /\ row.who = b /\ row.by = flows[f].by
        /\ row.user = row.link /\ row.link \in User \cup {None} /\ row.ended = flows[f].ended
  <2> DEFINE new == [flows[f] EXCEPT !.at = "moving", !.cookie = None, !.who = b, !.user = flows[f].link]
  <2>1. new \in FlowRow
    BY <1>2 DEF FlowRow, Rest
  <2>2. /\ new.at = "moving" /\ new.link = flows[f].link /\ new.who = b /\ new.by = flows[f].by
        /\ new.user = new.link /\ new.link \in User \cup {None}
    BY <1>2 DEF FlowRow, Rest
  <2>3. new.ended = flows[f].ended
    BY <1>2 DEF FlowRow, Rest
  <2> QED
    BY <2>1, <2>2, <2>3
<1>4. ~row.ended
  BY <1>2, <1>3, Zenon DEF RowOK
<1>5. row.link = None => row.who = row.by
  BY <1>1, <1>2, <1>3 DEF RowOK
<1>6. PICK pc \in {"resolve", "issue"} : pc = IF flows[f].link = None THEN "resolve" ELSE "issue"
  OBVIOUS
<1>7. PICK x \in ReqState :
        /\ x = [Idle EXCEPT !.pc = pc, !.flow = f, !.browser = b]
        /\ x.pc = pc /\ x.flow = f /\ x.drop = {} /\ x.saw = {}
  <2> DEFINE new == [Idle EXCEPT !.pc = pc, !.flow = f, !.browser = b]
  <2>1. new \in ReqState
    BY IdleType DEF ReqState
  <2>2. new.pc = pc /\ new.flow = f /\ new.drop = {} /\ new.saw = {}
    BY IdleType DEF ReqState
  <2> QED
    BY <2>1, <2>2
<1>8. RowOK(row) /\ MoverOK(x, row)
  BY <1>3, <1>4, <1>5, <1>6, <1>7 DEF RowOK, MoverOK
<1>9. Put(f, row) /\ Become(r, x)
  BY <1>3, <1>6, <1>7 DEF Callback
<1> QED
  BY <1>1, <1>7, <1>8, <1>9, TakesUp DEF Callback, Rest, Moving

LEMMA ResolveKeeps ==
  ASSUME IInv, NEW r \in Req, NEW u \in User, Resolve(r, u) PROVE IInv'
<1>1. PICK old \in FlowRow : old = flows[req[r].flow]
  BY MovingRequest DEF Resolve, Moving
<1>2. /\ req[r].flow \in Flow /\ old.at = "moving" /\ ~old.ended
      /\ old.link = None => old.who = old.by
  BY <1>1, MovingRequest DEF Resolve, Moving, MoverOK, IInv, RowOK
<1>3. PICK row \in FlowRow :
        /\ row = [old EXCEPT !.user = u] /\ row.user = u
        /\ row.at = "moving" /\ row.link = old.link /\ row.who = old.who /\ row.by = old.by
        /\ row.ended = old.ended
  <2> DEFINE new == [old EXCEPT !.user = u]
  <2>1. new \in FlowRow
    BY <1>2 DEF FlowRow, Rest
  <2>2. /\ new.user = u /\ new.at = "moving" /\ new.link = old.link /\ new.who = old.who
        /\ new.by = old.by
    BY <1>2 DEF FlowRow, Rest
  <2>3. new.ended = old.ended
    BY <1>2 DEF FlowRow, Rest
  <2> QED
    BY <2>1, <2>2, <2>3
<1>4. ~row.ended
  BY <1>2, <1>3, Zenon
<1>5. PICK x \in ReqState :
        /\ x = [req[r] EXCEPT !.pc = "issue"]
        /\ x.pc = "issue" /\ x.flow = req[r].flow /\ x.drop = req[r].drop /\ x.saw = req[r].saw
  <2>0. req[r] \in ReqState
    BY WorldType
  <2> DEFINE new == [req[r] EXCEPT !.pc = "issue"]
  <2>1. new \in ReqState
    BY <2>0 DEF ReqState
  <2>2. /\ new.pc = "issue" /\ new.flow = req[r].flow /\ new.drop = req[r].drop
        /\ new.saw = req[r].saw
    BY <2>0 DEF ReqState
  <2> QED
    BY <2>1, <2>2
<1>6. x.drop = {} /\ x.saw = {}
  BY <1>5, MovingRequest DEF Resolve, Moving
<1>7. RowOK(row) /\ MoverOK(x, row)
  BY <1>2, <1>3, <1>4, <1>5 DEF RowOK, MoverOK
<1>8. /\ users' \in [User -> {"none", "guest", "full", "disabled", "gone"}]
      /\ ident' \in [Browser -> User \cup {None}]
  BY WorldType DEF Resolve
<1>9. Put(req[r].flow, row) /\ Become(r, x)
  BY <1>1, <1>3, <1>5 DEF Resolve
<1> QED
  BY <1>5, <1>6, <1>7, <1>8, <1>9, MovesOn DEF Resolve, Moving

LEMMA IssueAuthCodeKeeps ==
  ASSUME IInv, NEW r \in Req, IssueAuthCode(r) PROVE IInv'
<1>1. PICK old \in FlowRow : old = flows[req[r].flow]
  BY MovingRequest DEF IssueAuthCode, Moving
<1>2. /\ req[r].flow \in Flow /\ ~old.ended /\ old.user \in User
      /\ old.link = None => old.who = old.by
  BY <1>1, MovingRequest DEF IssueAuthCode, Moving, MoverOK, IInv, RowOK
<1>3. PICK row \in FlowRow :
        /\ row = [old EXCEPT !.at = "code"]
        /\ row.at = "code" /\ row.link = old.link /\ row.who = old.who /\ row.by = old.by
        /\ row.user = old.user /\ row.ended = old.ended
  <2> DEFINE new == [old EXCEPT !.at = "code"]
  <2>1. new \in FlowRow
    BY DEF FlowRow, Rest
  <2>2. /\ new.at = "code" /\ new.link = old.link /\ new.who = old.who /\ new.by = old.by
        /\ new.user = old.user
    BY DEF FlowRow, Rest
  <2>3. new.ended = old.ended
    BY DEF FlowRow, Rest
  <2> QED
    BY <2>1, <2>2, <2>3
<1>4. ~row.ended
  BY <1>2, <1>3, Zenon
<1>5. RowOK(row)
  BY <1>2, <1>3, <1>4 DEF RowOK
<1> QED
  BY <1>1, <1>3, <1>5, IdleType, WorldType, MovesOn DEF IssueAuthCode, Moving

LEMMA RedeemAuthCodeKeeps ==
  ASSUME IInv, NEW r \in Req, NEW b \in Browser, NEW f \in Flow, RedeemAuthCode(r, b, f) PROVE IInv'
<1>1. flows[f].at = "code" /\ RowFree(f)
  BY DEF RedeemAuthCode, Live
<1>2. flows[f] \in FlowRow /\ RowOK(flows[f]) /\ \A q \in Req : req[q].flow # f
  BY <1>1, RestingFlow
<1>3. CASE flows[f].by # b
  <2>1. /\ \A g \in Flow : flows'[g] = IF g \in {f} THEN Spent ELSE flows[g]
        /\ \A q \in Req : req'[q] = Idle \/ req'[q] = req[q]
    BY <1>3, WorldType DEF RedeemAuthCode, Put, Become
  <2>2. TypeOK' /\ TokensOK'
    BY <1>3, IdleType, NewFlowType DEF RedeemAuthCode, Put, Become, IInv, TypeOK, TokensOK
  <2>3. \A q \in Req : req[q].flow \notin {f}
    BY <1>2
  <2> QED
    BY <2>1, <2>2, <2>3, SpendKeeps
<1>4. CASE flows[f].by = b
  <2>1. PICK row \in FlowRow :
          /\ row = [flows[f] EXCEPT !.at = "moving"]
          /\ row.at = "moving" /\ row.link = flows[f].link /\ row.who = flows[f].who /\ row.by = b
          /\ row.user = flows[f].user /\ row.ended = flows[f].ended
    <3> DEFINE new == [flows[f] EXCEPT !.at = "moving"]
    <3>1. new \in FlowRow
      BY <1>2, <1>4 DEF FlowRow, Rest
    <3>2. /\ new.at = "moving" /\ new.link = flows[f].link /\ new.who = flows[f].who
          /\ new.by = b /\ new.user = flows[f].user
      BY <1>2, <1>4 DEF FlowRow, Rest
    <3>3. new.ended = flows[f].ended
      BY <1>2, <1>4 DEF FlowRow, Rest
    <3> QED
      BY <3>1, <3>2, <3>3
  <2>2. ~row.ended
    BY <1>2, <2>1, Zenon DEF RowOK
  <2>3. row.user \in User /\ (row.link = None => row.who = row.by)
    BY <1>1, <1>2, <1>4, <2>1 DEF RowOK
  <2>4. PICK pc \in {"session", "commit"} : pc = IF flows[f].link = None THEN "session" ELSE "commit"
    OBVIOUS
  <2>5. PICK x \in ReqState :
          /\ x = [Idle EXCEPT !.pc = pc, !.flow = f, !.browser = b]
          /\ x.pc = pc /\ x.flow = f /\ x.browser = b /\ x.drop = {} /\ x.saw = {}
    <3> DEFINE new == [Idle EXCEPT !.pc = pc, !.flow = f, !.browser = b]
    <3>1. new \in ReqState
      BY IdleType DEF ReqState
    <3>2. new.pc = pc /\ new.flow = f /\ new.browser = b /\ new.drop = {} /\ new.saw = {}
      BY IdleType DEF ReqState
    <3> QED
      BY <3>1, <3>2
  <2>6. RowOK(row) /\ MoverOK(x, row)
    BY <2>1, <2>2, <2>3, <2>5 DEF RowOK, MoverOK
  <2>7. Put(f, row) /\ Become(r, x)
    BY <1>4, <2>1, <2>4, <2>5 DEF RedeemAuthCode
  <2> QED
    BY <1>1, <2>5, <2>6, <2>7, TakesUp DEF RedeemAuthCode, Rest, Moving
<1> QED
  BY <1>3, <1>4

LEMMA CommitLinkKeeps ==
  ASSUME IInv, NEW r \in Req, CommitLink(r) PROVE IInv'
<1>1. PICK old \in FlowRow : old = flows[req[r].flow]
  BY MovingRequest DEF CommitLink, Moving
<1>2. /\ req[r].flow \in Flow /\ old.at = "moving" /\ ~old.ended /\ req[r].browser = old.by
      /\ old.user \in User
      /\ old.link = None => old.who = old.by
  BY <1>1, MovingRequest DEF CommitLink, Moving, MoverOK, IInv, RowOK
<1>3. PICK row \in FlowRow :
        /\ row = [old EXCEPT !.linked = TRUE] /\ row.user = old.user
        /\ row.at = "moving" /\ row.link = old.link /\ row.who = old.who /\ row.by = old.by
        /\ row.ended = old.ended
  <2> DEFINE new == [old EXCEPT !.linked = TRUE]
  <2>1. new \in FlowRow
    BY <1>2 DEF FlowRow, Rest
  <2>2. /\ new.user = old.user /\ new.at = "moving" /\ new.link = old.link /\ new.who = old.who
        /\ new.by = old.by
    BY <1>2 DEF FlowRow, Rest
  <2>3. new.ended = old.ended
    BY <1>2 DEF FlowRow, Rest
  <2> QED
    BY <2>1, <2>2, <2>3
<1>4. ~row.ended
  BY <1>2, <1>3, Zenon
<1>5. PICK x \in ReqState :
        /\ x = [req[r] EXCEPT !.pc = "session"]
        /\ x.pc = "session" /\ x.flow = req[r].flow /\ x.browser = req[r].browser
        /\ x.drop = req[r].drop /\ x.saw = req[r].saw
  <2>0. req[r] \in ReqState
    BY WorldType
  <2> DEFINE new == [req[r] EXCEPT !.pc = "session"]
  <2>1. new \in ReqState
    BY <2>0 DEF ReqState
  <2>2. /\ new.pc = "session" /\ new.flow = req[r].flow /\ new.browser = req[r].browser
        /\ new.drop = req[r].drop /\ new.saw = req[r].saw
    BY <2>0 DEF ReqState
  <2> QED
    BY <2>1, <2>2
<1>6. x.drop = {} /\ x.saw = {}
  BY <1>5, MovingRequest DEF CommitLink, Moving
<1>7. RowOK(row) /\ MoverOK(x, row)
  BY <1>2, <1>3, <1>4, <1>5 DEF RowOK, MoverOK
<1>8. /\ users' \in [User -> {"none", "guest", "full", "disabled", "gone"}]
      /\ ident' \in [Browser -> User \cup {None}]
  BY <1>1, <1>2, WorldType DEF CommitLink
<1>9. Put(req[r].flow, row) /\ Become(r, x)
  BY <1>1, <1>3, <1>5 DEF CommitLink
<1> QED
  BY <1>3, <1>5, <1>6, <1>7, <1>8, <1>9, MovesOn DEF CommitLink, Moving

LEMMA AccountSessionKeeps ==
  ASSUME IInv, NEW r \in Req, AccountSession(r) PROVE IInv'
<1>0. TypeOK /\ TokensOK /\ now \in Nat
  BY ProviderFlowAssumption DEF IInv, TypeOK
<1>1. PICK f \in Flow : f = req[r].flow
  BY MovingRequest DEF AccountSession, Moving
<1>2. PICK b \in Browser \cup {None} : b = req[r].browser
  BY WorldType DEF ReqState
<1>3. flows[f].user \in User /\ flows[f].real \in Nat /\ \A q \in Req : q # r => req[q].flow # f
  BY <1>1, MovingRequest DEF AccountSession, Moving, MoverOK, FlowRow
<1>4. PICK t \in Token : /\ t.auth = None \/ t.auth = t.real
                         /\ holds' = [holds EXCEPT ![b] = t]
  <2>1. PICK guest \in BOOLEAN : guest = (users[flows[f].user] = "guest")
    OBVIOUS
  <2>2. PICK u \in User : u = flows[f].user
    BY <1>3
  <2>3. PICK real \in Nat : real = IF flows[f].link # None THEN flows[f].real ELSE now
    BY <1>0, <1>3
  <2>4. PICK auth \in Nat \cup {None} : auth = AuthTime(flows[f].link # None)
           /\ (auth = None \/ auth = real)
    BY <1>0, <2>3 DEF AuthTime
  <2>5. PICK t \in Token : t = NewToken(u, auth, guest, real) /\ t.auth = auth /\ t.real = real
    BY <1>0, NewTokenType
  <2>6. holds' = [holds EXCEPT ![b] = NewToken(u, auth, guest, real)]
    BY <1>1, <1>2, <2>1, <2>2, <2>3, <2>4 DEF AccountSession
  <2> QED
    BY <2>4, <2>5, <2>6
<1>5. holds' \in [Browser -> Token \cup {None}] /\ TokensOK'
  <2>1. CASE b \in Browser
    BY <1>0, <1>4, <2>1, TokenKeeps
  <2>2. CASE b \notin Browser
    BY <1>0, <1>4, <2>2 DEF TypeOK, TokensOK
  <2> QED
    BY <2>1, <2>2
<1>6. /\ \A g \in Flow : flows'[g] = IF g \in {f} THEN Spent ELSE flows[g]
      /\ \A q \in Req : req'[q] = IF q = r THEN Idle ELSE req[q]
  BY <1>1, WorldType DEF AccountSession, Put, Become
<1>7. TypeOK'
  BY <1>0, <1>5, IdleType, NewFlowType DEF AccountSession, Put, Become, TypeOK
<1> QED
  BY <1>3, <1>5, <1>6, <1>7, SpendKeeps

LEMMA EndFlowsKeeps ==
  ASSUME IInv, NEW r \in Req, NEW u \in User, EndFlows(r, u) PROVE IInv'
<1>1. PICK D \in SUBSET Flow : D = LinksAt(u, {"ticket", "state"})
  BY DEF LinksAt
<1>2. PICK S \in SUBSET Flow : S = LinksAt(u, Rest)
  BY DEF LinksAt
<1>3. PICK x \in ReqState :
        /\ x = [Idle EXCEPT !.pc = "end", !.user = u, !.drop = D, !.saw = S]
        /\ x.pc = "end" /\ x.flow = None /\ x.drop = D /\ x.saw = S
  <2> DEFINE new == [Idle EXCEPT !.pc = "end", !.user = u, !.drop = D, !.saw = S]
  <2>1. new \in ReqState
    BY IdleType DEF ReqState
  <2>2. new.pc = "end" /\ new.flow = None /\ new.drop = D /\ new.saw = S
    BY IdleType DEF ReqState
  <2> QED
    BY <2>1, <2>2
<1>4. /\ \A f \in D : flows[f].at \in {"ticket", "state"}
      /\ \A f \in S \ D : flows[f].at = "code"
  BY <1>1, <1>2 DEF LinksAt, Rest
<1>5. req[r].flow = None
  BY IdleRequest DEF EndFlows
<1>6. Become(r, x)
  BY <1>1, <1>2, <1>3 DEF EndFlows
<1> QED
  BY <1>3, <1>4, <1>5, <1>6, BeginKeeps DEF EndFlows, Moving

\* The heart of EndedLinksNeverLand: a link that was at rest when the first DELETE ran
\* and is at rest at the second is a locked row or a code, and both are deleted.
LEMMA EndCodesKeeps ==
  ASSUME IInv, NEW r \in Req, EndCodes(r) PROVE IInv'
<1>1. PICK u : u = req[r].user
  OBVIOUS
<1>2. PICK D : D = req[r].drop \cup CodesDropped(u)
  OBVIOUS
<1>3. PICK rest : rest = req[r].saw \cap LinksAt(u, Rest)
  OBVIOUS
<1>4. RequestOK(r) /\ req[r] \in ReqState
  BY WorldType DEF IInv
<1>5. rest \subseteq D
  BY <1>2, <1>3, <1>4 DEF RequestOK, LinksAt, CodesDropped, Rest
<1>6. ASSUME NEW f \in Flow PROVE flows'[f] = IF f \in D THEN Spent ELSE flows[f]
  <2>1. CASE f \in D
    BY <1>1, <1>2, <2>1 DEF EndCodes
  <2>2. CASE f \notin D
    <3>1. PICK old \in FlowRow : old = flows[f] /\ ~old.ended
      BY DEF IInv, TypeOK, RowOK
    <3>2. (old.ended \/ f \in rest) = FALSE
      BY <1>5, <2>2, <3>1
    <3>3. flows'[f] = [old EXCEPT !.ended = FALSE]
      <4>1. flows'[f] = [old EXCEPT !.ended = old.ended \/ f \in rest]
        BY <1>1, <1>2, <1>3, <2>2, <3>1 DEF EndCodes
      <4> QED
        BY <3>2, <4>1
    <3>4. old.ended = FALSE
      BY <3>1 DEF FlowRow
    <3>5. [old EXCEPT !.ended = FALSE] = old
      BY <3>4 DEF FlowRow
    <3> QED
      BY <2>2, <3>1, <3>3, <3>5
  <2> QED
    BY <2>1, <2>2
<1>7. \A q \in Req : req'[q] = IF q = r THEN Idle ELSE req[q]
  BY WorldType DEF EndCodes, Become
<1>8. ASSUME NEW q \in Req PROVE req[q].flow \notin D
  <2>1. ASSUME NEW f \in Flow, f = req[q].flow PROVE f \notin D
    <3>1. flows[f].at = "moving"
      BY <2>1, ProviderFlowAssumption DEF IInv, RequestOK, MoverOK
    <3> QED
      BY <1>2, <1>4, <3>1 DEF RequestOK, CodesDropped, LinksAt
  <2>2. D \subseteq Flow
    BY <1>2, <1>4 DEF CodesDropped, LinksAt, ReqState
  <2> QED
    BY <2>1, <2>2
<1>9. holds' \in [Browser -> Token \cup {None}] /\ TokensOK'
  <2>1. ASSUME NEW b \in Browser
        PROVE  \/ holds'[b] = holds[b]
               \/ /\ holds[b] # None /\ holds'[b] \in Token /\ holds'[b].auth = holds[b].auth
                  /\ holds'[b].real = holds[b].real
    <3>1. holds'[b] = holds[b] \/ (holds[b] # None /\ holds'[b] = [holds[b] EXCEPT !.live = FALSE])
      BY DEF EndCodes
    <3>2. ASSUME NEW t \in Token
          PROVE  /\ [t EXCEPT !.live = FALSE] \in Token
                 /\ [t EXCEPT !.live = FALSE].auth = t.auth /\ [t EXCEPT !.live = FALSE].real = t.real
      BY DEF Token
    <3>3. CASE holds'[b] = holds[b]
      BY <3>3
    <3>4. CASE holds[b] # None /\ holds'[b] = [holds[b] EXCEPT !.live = FALSE]
      <4>1. holds[b] \in Token
        BY <3>4 DEF IInv, TypeOK
      <4> QED
        BY <3>2, <3>4, <4>1
    <3> QED
      BY <3>1, <3>3, <3>4
  <2>2. holds' = [b \in Browser |-> holds'[b]]
    BY DEF EndCodes
  <2>3. \A b \in Browser : holds[b] \in Token \cup {None}
    BY DEF IInv, TypeOK
  <2>4. \A b \in Browser : holds'[b] \in Token \cup {None}
    BY <2>1, <2>3
  <2>5. holds' \in [Browser -> Token \cup {None}]
    BY <2>2, <2>4
  <2> QED
    BY <2>1, <2>5 DEF IInv, TokensOK
<1>10. flows' \in [Flow -> FlowRow]
  <2>1. flows' = [f \in Flow |-> flows'[f]]
    BY DEF EndCodes
  <2>2. \A f \in Flow : flows'[f] \in FlowRow
    BY <1>6, NewFlowType, WorldType
  <2> QED
    BY <2>1, <2>2
<1>11. TypeOK'
  BY <1>9, <1>10, IdleType DEF EndCodes, Become, IInv, TypeOK
<1> QED
  BY <1>6, <1>7, <1>8, <1>9, <1>11, SpendKeeps

LEMMA DeleteUserKeeps ==
  ASSUME IInv, NEW u \in User, DeleteUser(u) PROVE IInv'
<1>1. PICK S \in SUBSET Flow : S = {f \in Flow : flows[f].at \in Rest
                                             /\ u \in {flows[f].link, flows[f].user}}
  OBVIOUS
<1>2. \A f \in Flow : flows'[f] = IF f \in S THEN Spent ELSE flows[f]
  BY <1>1 DEF DeleteUser
<1>3. \A q \in Req : req[q].flow \notin S
  BY <1>1, RestingFlow DEF Rest
<1>4. TypeOK'
  BY NewFlowType, ProviderFlowAssumption DEF DeleteUser, IInv, TypeOK
<1>5. TokensOK'
  BY DEF DeleteUser, IInv, TokensOK
<1>6. \A q \in Req : req'[q] = req[q]
  BY DEF DeleteUser
<1> QED
  BY <1>2, <1>3, <1>4, <1>5, <1>6, SpendKeeps

LEMMA ExpireKeeps ==
  ASSUME IInv, NEW f \in Flow, Expire(f) PROVE IInv'
<1>1. \A g \in Flow : flows'[g] = IF g \in {f} THEN Spent ELSE flows[g]
  BY WorldType DEF Expire, Put
<1>2. \A q \in Req : req'[q] = req[q] /\ req[q].flow \notin {f}
  BY RestingFlow DEF Expire, Rest
<1>3. TypeOK' /\ TokensOK'
  BY NewFlowType DEF Expire, Put, IInv, TypeOK, TokensOK
<1> QED
  BY <1>1, <1>2, <1>3, SpendKeeps

LEMMA AbortKeeps ==
  ASSUME IInv, NEW r \in Req, Abort(r) PROVE IInv'
<1>1. PICK S : S = {req[r].flow} \cap Flow
  OBVIOUS
<1>2. \A g \in Flow : flows'[g] = IF g \in S THEN Spent ELSE flows[g]
  BY <1>1 DEF Abort
<1>3. \A q \in Req : req'[q] = IF q = r THEN Idle ELSE req[q]
  BY WorldType DEF Abort, Become
<1>4. \A q \in Req : q # r => req[q].flow \notin S
  BY <1>1, ProviderFlowAssumption DEF IInv, OneMover
<1>5. TypeOK' /\ TokensOK'
  BY IdleType, NewFlowType DEF Abort, Become, IInv, TypeOK, TokensOK
<1> QED
  BY <1>2, <1>3, <1>4, <1>5, SpendKeeps

LEMMA TimeKeeps ==
  ASSUME IInv, (\E u \in User : Disable(u)) \/ Tick \/ UNCHANGED vars PROVE IInv'
<1>1. TypeOK'
  BY ProviderFlowAssumption DEF Disable, Tick, vars, IInv, TypeOK
<1>2. TokensOK'
  BY DEF Disable, Tick, vars, IInv, TokensOK
<1>3. flows' = flows /\ req' = req
  BY DEF Disable, Tick, vars
<1> QED
  BY <1>1, <1>2, <1>3, OthersKeep

LEMMA NextIInv == IInv /\ [Next]_vars => IInv'
  BY TokensKeep, AuthorizeKeeps, StartProviderLinkKeeps, SaveTicketKeeps, AuthorizeLinkKeeps,
     StartAtProviderKeeps, CallbackKeeps, ResolveKeeps, IssueAuthCodeKeeps, RedeemAuthCodeKeeps,
     CommitLinkKeeps, AccountSessionKeeps, EndFlowsKeeps, EndCodesKeeps, DeleteUserKeeps,
     ExpireKeeps, AbortKeeps, TimeKeeps
  DEF Next

-----------------------------------------------------------------------------
(* The theorems.                                                           *)

\* A flow is in one row or in one request, and whoever ends sessions finds it there.
THEOREM Invariance == Spec => []IInv
<1> QED
  BY InitIInv, NextIInv, PTL DEF Spec

\* For any browsers and requests that show each other's states, tickets and codes: the
\* session goes to the browser that started the flow, and to the person who proved the
\* identity.
THEOREM SessionsAreOwn == Spec => []SessionIsOwn
<1>1. IInv => SessionIsOwn
  BY DEF IInv, RequestOK, MoverOK, Moving, SessionIsOwn
<1> QED
  BY <1>1, Invariance, PTL

\* For any number of links in flight and of requests that end sessions at once: a link
\* at rest all the while is never written.
THEOREM EndedLinksStayOut == Spec => []EndedLinksNeverLand
<1>1. IInv => EndedLinksNeverLand
  BY DEF IInv, RowOK, EndedLinksNeverLand
<1> QED
  BY <1>1, Invariance, PTL

\* For any chain of links, refreshes and upgrades: a full account's link is started
\* within the window of the sign-in its session goes back to.
THEOREM LinksAreFresh == Spec => []LinkNeedsSignIn
<1>1. IInv => LinkNeedsSignIn
  BY DEF IInv, RequestOK, LinkNeedsSignIn
<1> QED
  BY <1>1, Invariance, PTL

=============================================================================
