---------------------------- MODULE ProviderFlow ----------------------------
(* Provider sign-in and linking (handler/oauth.go, handler/linking.go): how one
   flow goes from /authorize, or from a link ticket, through the provider's
   callback to a single-use code and to a session. Every step spends one row of
   flow_states or auth_codes and a later statement stores the next one, so a flow
   is either at rest in a row or inside a request.

   A browser stands for the person using it and for the app in it, which keeps
   the PKCE verifier of the flows it starts. Tickets and codes travel in URLs, so
   any browser may show them. Which account an address or an identity reaches is
   the subject of Identities; here an identity reaches one account.           *)
EXTENDS Integers

CONSTANTS
  Browser,   \* browsers, each with its app and its person
  User,      \* account ids
  Flow,      \* flows, from their first row to their session
  Req,       \* requests in flight
  None,
  Window,    \* reauthWindow
  MaxTime    \* bound: the clock stops there

ASSUME ProviderFlowAssumption ==
  /\ Window \in Nat /\ MaxTime \in Nat
  /\ None \notin Browser \cup User \cup Flow \cup Req \cup Nat

VARIABLES
  now,
  users,     \* account -> "none" (id unused), "guest", "full", "disabled" or "gone"
  ident,     \* person -> the account their provider identity signs in to
  holds,     \* browser -> the access token it uses
  flows,     \* flow -> its row and history
  req

vars == <<now, users, ident, holds, flows, req>>

Exists(u) == users[u] \in {"guest", "full", "disabled"}
Enabled(u) == users[u] \in {"guest", "full"}

-----------------------------------------------------------------------------
(* Rows.                                                                   *)

\* A flow at rest is the row of a link ticket, of a flow state or of an auth code.
Rest == {"ticket", "state", "code"}

\* by: the browser whose app holds the verifier; link: the account a linking flow
\* adds to; cookie: the browser bound by the state cookie; user, who: the account
\* and the person the code names. real, ended and linked are history: when the
\* person who started a link really signed in, whether the account's sessions ended
\* with the flow at rest, whether its link was written.
FlowRow ==
  [at : Rest \cup {"free", "moving", "spent"},
   by : Browser \cup {None}, link : User \cup {None}, cookie : Browser \cup {None},
   user : User \cup {None}, who : Browser \cup {None},
   real : Nat, ended : BOOLEAN, linked : BOOLEAN]

NewFlow ==
  [at |-> "free", by |-> None, link |-> None, cookie |-> None, user |-> None,
   who |-> None, real |-> 0, ended |-> FALSE, linked |-> FALSE]

\* No row is left, and no request moves the flow on.
Spent == [NewFlow EXCEPT !.at = "spent"]

Idle == [pc |-> "idle", flow |-> None, browser |-> None, user |-> None,
         real |-> 0, age |-> 0, drop |-> {}, saw |-> {}]

Become(r, q) == req' = [req EXCEPT ![r] = q]
Put(f, row) == flows' = [flows EXCEPT ![f] = row]

\* The row of f is not being deleted by an uncommitted endSessionsAndLinks.
RowFree(f) == \A r \in Req : f \notin req[r].drop

\* Row f is live and of this kind: the DELETE or UPDATE that spends it finds it.
Live(f, kind) == flows[f].at = kind /\ RowFree(f)

-----------------------------------------------------------------------------
(* Tokens.                                                                 *)

\* An access token: its account, auth_time (None: it has none), iat, is_guest, and
\* whether its session may still be refreshed. Only a guest's iat is ever read, and
\* only a guest's refresh changes more than iat, so both are kept for guests. real is
\* history: the sign-in the session goes back to.
Token == [user : User, auth : Nat \cup {None}, issued : Nat, guest : BOOLEAN,
          live : BOOLEAN, real : Nat]

NewToken(u, auth, guest, real) ==
  [user |-> u, auth |-> auth, issued |-> IF guest THEN now ELSE 0,
   guest |-> guest, live |-> guest, real |-> real]

\* recentlySignedIn
RecentlySignedIn(t) == t.auth # None /\ now - t.auth <= Window

\* freshLinker and linkableFresh: a recent sign-in, or a token of a guest, who
\* still is one, issued within the window; then Store.LinkableAccount.
MayLink(t) ==
  /\ \/ RecentlySignedIn(t)
     \/ t.guest /\ users[t.user] = "guest" /\ now - t.issued <= Window
  /\ Enabled(t.user)

\* A guest signs in: a new account (handler/guest.go).
GuestSignIn(b, u) ==
  /\ users[u] = "none"
  /\ users' = [users EXCEPT ![u] = "guest"]
  /\ holds' = [holds EXCEPT ![b] = NewToken(u, now, TRUE, now)]
  /\ UNCHANGED <<now, ident, flows, req>>

\* Somebody signs in again to a full account, by password or by an emailed code.
SignIn(b) ==
  /\ holds[b] # None /\ users[holds[b].user] = "full"
  /\ holds' = [holds EXCEPT ![b] = NewToken(holds[b].user, now, FALSE, now)]
  /\ holds' # holds
  /\ UNCHANGED <<now, users, ident, flows, req>>

\* A refresh keeps the sign-in time and says what the account is now.
Refresh(b) ==
  LET t == holds[b] IN
  /\ t # None /\ t.live /\ Enabled(t.user)
  /\ holds' = [holds EXCEPT ![b] = NewToken(t.user, t.auth, users[t.user] = "guest", t.real)]
  /\ holds' # holds
  /\ UNCHANGED <<now, users, ident, flows, req>>

-----------------------------------------------------------------------------
(* Starting a flow.                                                        *)

\* Authorize and startAtProvider: the settings, the redirect and the challenge are
\* checked before anything is stored; the state cookie goes to the same browser.
Authorize(b, f) ==
  /\ flows[f].at = "free"
  /\ Put(f, [NewFlow EXCEPT !.at = "state", !.by = b, !.cookie = b])
  /\ UNCHANGED <<now, users, ident, holds, req>>

\* StartProviderLink up to its INSERT: the token and the account are checked.
StartProviderLink(r, b) ==
  /\ req[r].pc = "idle" /\ holds[b] # None /\ MayLink(holds[b])
  /\ LET u == holds[b].user IN
     Become(r, [Idle EXCEPT !.pc = "start", !.browser = b, !.user = u, !.real = holds[b].real,
                            !.age = IF users[u] = "guest" THEN 0 ELSE now - holds[b].real])
  /\ UNCHANGED <<now, users, ident, holds, flows>>

\* The ticket's INSERT, which the foreign key refuses for a deleted account.
SaveTicket(r, f) ==
  /\ req[r].pc = "start" /\ Exists(req[r].user) /\ flows[f].at = "free"
  /\ Put(f, [NewFlow EXCEPT !.at = "ticket", !.by = req[r].browser,
                            !.link = req[r].user, !.real = req[r].real])
  /\ Become(r, Idle)
  /\ UNCHANGED <<now, users, ident, holds>>

\* authorizeLink: whichever browser shows the ticket spends it.
AuthorizeLink(r, b, f) ==
  /\ req[r].pc = "idle" /\ Live(f, "ticket")
  /\ Put(f, [flows[f] EXCEPT !.at = "moving"])
  /\ Become(r, [Idle EXCEPT !.pc = "leave", !.flow = f, !.browser = b])
  /\ UNCHANGED <<now, users, ident, holds>>

\* startAtProvider for a spent ticket: the flow keeps the challenge and the account
\* of the ticket, the cookie goes to the browser that showed it.
StartAtProvider(r) ==
  LET f == req[r].flow IN
  /\ req[r].pc = "leave" /\ Exists(flows[f].link)
  /\ Put(f, [flows[f] EXCEPT !.at = "state", !.cookie = req[r].browser])
  /\ Become(r, Idle)
  /\ UNCHANGED <<now, users, ident, holds>>

-----------------------------------------------------------------------------
(* The callback.                                                           *)

\* Variant: any browser may finish a flow.
BoundToAny(f, b) == TRUE

BoundToBrowser(f, b) == flows[f].cookie = b

\* Callback: the cookie is checked, then the state is spent.
Callback(r, b, f) ==
  /\ req[r].pc = "idle" /\ BoundToBrowser(f, b) /\ Live(f, "state")
  /\ Put(f, [flows[f] EXCEPT !.at = "moving", !.cookie = None, !.who = b, !.user = flows[f].link])
  /\ Become(r, [Idle EXCEPT !.pc = IF flows[f].link = None THEN "resolve" ELSE "issue",
                            !.flow = f, !.browser = b])
  /\ UNCHANGED <<now, users, ident, holds>>

\* signInIdentity: the account the identity signs in to, or a new one.
Resolve(r, u) ==
  LET f == req[r].flow
      p == flows[f].who
  IN
  /\ req[r].pc = "resolve"
  /\ \/ ident[p] = u /\ Enabled(u) /\ UNCHANGED <<users, ident>>
     \/ /\ ident[p] = None /\ users[u] = "none"
        /\ users' = [users EXCEPT ![u] = "full"]
        /\ ident' = [ident EXCEPT ![p] = u]
  /\ Put(f, [flows[f] EXCEPT !.user = u])
  /\ Become(r, [req[r] EXCEPT !.pc = "issue"])
  /\ UNCHANGED <<now, holds>>

\* issueAuthCode: SaveAuthCode's INSERT; the code goes to the browser in a redirect.
IssueAuthCode(r) ==
  LET f == req[r].flow IN
  /\ req[r].pc = "issue" /\ Exists(flows[f].user)
  /\ Put(f, [flows[f] EXCEPT !.at = "code"])
  /\ Become(r, Idle)
  /\ UNCHANGED <<now, users, ident, holds>>

-----------------------------------------------------------------------------
(* Redeeming the code.                                                     *)

\* exchangePKCE: RedeemAuthCode spends the code, then the verifier is compared.
RedeemAuthCode(r, b, f) ==
  LET right == flows[f].by = b IN
  /\ req[r].pc = "idle" /\ Live(f, "code")
  /\ Put(f, IF right THEN [flows[f] EXCEPT !.at = "moving"] ELSE Spent)
  /\ Become(r, IF ~right THEN Idle
               ELSE [Idle EXCEPT !.pc = IF flows[f].link = None THEN "session" ELSE "commit",
                                 !.flow = f, !.browser = b])
  /\ UNCHANGED <<now, users, ident, holds>>

\* commitLink: Store.LinkIdentity, which upgrades a guest.
CommitLink(r) ==
  LET f == req[r].flow
      u == flows[f].user
  IN
  /\ req[r].pc = "commit" /\ Enabled(u) /\ ident[flows[f].who] = None
  /\ ident' = [ident EXCEPT ![flows[f].who] = u]
  /\ users' = [users EXCEPT ![u] = "full"]
  /\ Put(f, [flows[f] EXCEPT !.linked = TRUE])
  /\ Become(r, [req[r] EXCEPT !.pc = "session"])
  /\ UNCHANGED <<now, holds>>

\* Variant: a link counts as a sign-in.
AuthTimeAlways(linking) == now

\* accountSession: a session after a link has no sign-in time.
AuthTime(linking) == IF linking THEN None ELSE now

\* accountSession and startSession: the account is read again.
AccountSession(r) ==
  LET f == req[r].flow
      u == flows[f].user
      b == req[r].browser
      linking == flows[f].link # None
  IN
  /\ req[r].pc = "session" /\ Enabled(u)
  /\ holds' = [holds EXCEPT ![b] = NewToken(u, AuthTime(linking), users[u] = "guest",
                                           IF linking THEN flows[f].real ELSE now)]
  /\ Put(f, Spent)
  /\ Become(r, Idle)
  /\ UNCHANGED <<now, users, ident>>

-----------------------------------------------------------------------------
(* Ending an account's sessions, and other events.                         *)

LinksAt(u, kinds) == {f \in Flow : flows[f].link = u /\ flows[f].at \in kinds}

\* Variant: the codes of links are kept.
NoCodesDropped(u) == {}

CodesDropped(u) == LinksAt(u, {"code"})

\* endSessionsAndLinks, its DELETE FROM flow_states; the rows stay locked.
EndFlows(r, u) ==
  LET D == LinksAt(u, {"ticket", "state"}) IN
  /\ req[r].pc = "idle" /\ Exists(u) /\ \A f \in D : RowFree(f)
  /\ Become(r, [Idle EXCEPT !.pc = "end", !.user = u, !.drop = D, !.saw = LinksAt(u, Rest)])
  /\ UNCHANGED <<now, users, ident, holds, flows>>

\* Its DELETE FROM auth_codes, and COMMIT: the account's refresh tokens are revoked.
EndCodes(r) ==
  LET u == req[r].user
      D == req[r].drop \cup CodesDropped(u)
      rest == req[r].saw \cap LinksAt(u, Rest)
  IN
  /\ req[r].pc = "end"
  /\ flows' = [f \in Flow |->
       IF f \in D THEN Spent ELSE [flows[f] EXCEPT !.ended = @ \/ f \in rest]]
  /\ holds' = [b \in Browser |->
       IF holds[b] # None /\ holds[b].user = u THEN [holds[b] EXCEPT !.live = FALSE] ELSE holds[b]]
  /\ Become(r, Idle)
  /\ UNCHANGED <<now, users, ident>>

\* An account is deleted, its rows and identities with it; its tokens open nothing.
DeleteUser(u) ==
  /\ Exists(u) /\ \A r \in Req : req[r].pc = "end" => req[r].user # u
  /\ users' = [users EXCEPT ![u] = "gone"]
  /\ ident' = [p \in Browser |-> IF ident[p] = u THEN None ELSE ident[p]]
  /\ flows' = [f \in Flow |->
       IF flows[f].at \in Rest /\ u \in {flows[f].link, flows[f].user}
         THEN Spent ELSE flows[f]]
  /\ holds' = [b \in Browser |->
       IF holds[b] # None /\ holds[b].user = u THEN None ELSE holds[b]]
  /\ UNCHANGED <<now, req>>

\* The project disables an account in its own database.
Disable(u) ==
  /\ users[u] = "full"
  /\ users' = [users EXCEPT ![u] = "disabled"]
  /\ UNCHANGED <<now, ident, holds, flows, req>>

\* A row expires.
Expire(f) ==
  /\ flows[f].at \in Rest
  /\ Put(f, Spent)
  /\ UNCHANGED <<now, users, ident, holds, req>>

\* A request fails or is refused: the settings or the provider cannot be reached,
\* an identity is taken, an account is disabled or gone. The row it spent stays spent.
Abort(r) ==
  /\ req[r].pc # "idle"
  /\ flows' = [f \in Flow |-> IF f = req[r].flow THEN Spent ELSE flows[f]]
  /\ Become(r, Idle)
  /\ UNCHANGED <<now, users, ident, holds>>

Tick ==
  /\ now < MaxTime
  /\ now' = now + 1
  /\ UNCHANGED <<users, ident, holds, flows, req>>

Init ==
  /\ now = 0
  /\ users = [u \in User |-> "none"]
  /\ ident = [p \in Browser |-> None]
  /\ holds = [b \in Browser |-> None]
  /\ flows = [f \in Flow |-> NewFlow]
  /\ req = [r \in Req |-> Idle]

Next ==
  \/ \E b \in Browser, u \in User : GuestSignIn(b, u)
  \/ \E b \in Browser : SignIn(b) \/ Refresh(b)
  \/ \E b \in Browser, f \in Flow : Authorize(b, f)
  \/ \E r \in Req, b \in Browser : StartProviderLink(r, b)
  \/ \E r \in Req, b \in Browser, f \in Flow :
       AuthorizeLink(r, b, f) \/ Callback(r, b, f) \/ RedeemAuthCode(r, b, f)
  \/ \E r \in Req, f \in Flow : SaveTicket(r, f)
  \/ \E r \in Req, u \in User : Resolve(r, u) \/ EndFlows(r, u)
  \/ \E r \in Req : \/ StartAtProvider(r) \/ IssueAuthCode(r) \/ CommitLink(r)
                    \/ AccountSession(r) \/ EndCodes(r) \/ Abort(r)
  \/ \E u \in User : DeleteUser(u) \/ Disable(u)
  \/ \E f \in Flow : Expire(f)
  \/ Tick

Spec == Init /\ [][Next]_vars

-----------------------------------------------------------------------------
(* Properties.                                                             *)

\* A request: the steps of a flow, of a link that starts, and of the account's sessions
\* being ended. drop: the rows it is deleting; real, age and saw are history.
ReqState ==
  [pc : {"idle", "start", "leave", "resolve", "issue", "commit", "session", "end"},
   flow : Flow \cup {None}, browser : Browser \cup {None}, user : User \cup {None},
   real : Nat, age : Int, drop : SUBSET Flow, saw : SUBSET Flow]

\* Every variable has its type.
TypeOK ==
  /\ now \in 0..MaxTime
  /\ users \in [User -> {"none", "guest", "full", "disabled", "gone"}]
  /\ ident \in [Browser -> User \cup {None}]
  /\ holds \in [Browser -> Token \cup {None}]
  /\ flows \in [Flow -> FlowRow]
  /\ req \in [Req -> ReqState]

\* "a sign-in started by someone else cannot finish in the victim's browser" and "a
\* code that leaks without the verifier links nothing": a session goes to the
\* browser that started the flow and, unless it links, whose person proved the
\* identity, whoever shows the state, the ticket or the code in between.
SessionIsOwn ==
  \A r \in Req : req[r].pc = "session" =>
    LET row == flows[req[r].flow] IN
    /\ req[r].browser = row.by
    /\ row.link = None => row.who = row.by

\* "Ending an account's sessions also drops its links in flight": a link at rest in a
\* ticket, a state or a code all the while the account's sessions were being ended
\* (endSessionsAndLinks) is never written. One that a request was moving on may be.
EndedLinksNeverLand == \A f \in Flow : flows[f].ended => ~flows[f].linked

\* "one sign-in cannot be stretched by linking again": however links, refreshes and
\* guest upgrades follow each other, a full account's link is started within the
\* window of the sign-in its session goes back to (accountSession gives no auth_time).
LinkNeedsSignIn == \A r \in Req : req[r].pc = "start" => req[r].age <= Window

-----------------------------------------------------------------------------
(* The inductive invariant.                                                *)

\* The steps of a request that moves a flow on.
Moving == {"leave", "resolve", "issue", "commit", "session"}

\* A flow at rest that signs in belongs to the browser that started it.
RowOK(row) ==
  /\ ~row.ended
  /\ row.at = "ticket" => row.link # None
  /\ row.at = "state" /\ row.link = None => row.cookie = row.by
  /\ row.at = "code" => row.user \in User /\ (row.link = None => row.who = row.by)

\* So does one that request q moves.
MoverOK(q, row) ==
  /\ row.at = "moving"
  /\ q.pc = "leave" => row.link # None
  /\ q.pc # "leave" /\ row.link = None => row.who = row.by
  /\ q.pc \in {"issue", "commit", "session"} => row.user \in User
  /\ q.pc \in {"commit", "session"} => q.browser = row.by

\* A request that moves a flow has its row's last state to itself. While sessions end,
\* the locked rows stay where they are, and a flow that was in a code may be spent or
\* on its way to a session, but never comes to rest again.
RequestOK(r) ==
  LET q == req[r]
  IN  /\ q.pc \in Moving => q.flow \in Flow /\ MoverOK(q, flows[q.flow])
      /\ q.pc \notin Moving => q.flow = None
      /\ q.pc = "start" => q.user \in User /\ q.age <= Window
      /\ q.pc # "end" => q.drop = {} /\ q.saw = {}
      /\ \A f \in q.drop : flows[f].at \in {"ticket", "state", "spent"}
      /\ \A f \in q.saw \ q.drop :
           /\ flows[f].at \in {"code", "moving", "spent"}
           /\ \A p \in Req : req[p].flow = f => req[p].pc \in {"commit", "session"}

\* A flow is moved by one request.
OneMover == \A q, r \in Req : req[q].flow # None /\ req[q].flow = req[r].flow => q = r

\* auth_time, where a token has it, is the sign-in its session goes back to.
TokensOK ==
  \A b \in Browser : holds[b] # None /\ holds[b].auth # None => holds[b].auth = holds[b].real

IInv ==
  /\ TypeOK
  /\ TokensOK
  /\ OneMover
  /\ \A f \in Flow : RowOK(flows[f])
  /\ \A r \in Req : RequestOK(r)

=============================================================================
