-------------------------- MODULE EmailLinksProofs --------------------------
(***************************************************************************)
(* Proofs about EmailLinks, for any number of accounts at the address,     *)
(* links, passwords and concurrent requests.                               *)
(*                                                                         *)
(* IInv is inductive.  RequestMoves carries the request records over every *)
(* step in which one request moves and the histories grow; RequestOnly is  *)
(* its special case in which no table changes.  Each action that changes a *)
(* table has a lemma of its own.                                           *)
(***************************************************************************)
EXTENDS EmailLinks, TLAPS

-----------------------------------------------------------------------------
(* Steps of one request.                                                   *)

\* One request moves to a record that fits; the histories only grow, and the only
\* link stored is the one that request had drawn.
LEMMA RequestMoves ==
  ASSUME IInv, NEW r \in Req, NEW s \in ReqState,
         req' = [req EXCEPT ![r] = s],
         minted' \subseteq minted \cup {req[r].mint},
         \A u \in User : proofs[u] \subseteq proofs'[u],
         \A l \in Link : claimed[l] = 1 => claimed'[l] = 1,
         ReqOK(s)',
         \A q \in Req : q # r => Apart(s, req[q]) /\ Apart(req[q], s)
  PROVE  req' \in [Req -> ReqState] /\ RequestsOK' /\ RequestsApart'
<1>1. /\ req \in [Req -> ReqState]
      /\ req' \in [Req -> ReqState]
      /\ req'[r] = s
      /\ \A q \in Req : q # r => req'[q] = req[q]
  BY DEF IInv, TypeOK
<1>2. ASSUME NEW q \in Req PROVE ReqOK(req[q])'
  <2>1. CASE q = r
    BY <2>1, <1>1 DEF ReqOK
  <2>2. CASE q # r
    <3>1. ReqOK(req[q]) /\ req'[q] = req[q]
      BY <2>2, <1>1 DEF IInv, RequestsOK
    <3>2. req[q].mint # None => req[q].mint # req[r].mint
      BY <2>2 DEF IInv, RequestsApart, Apart
    <3>3. req[q].mint # None /\ req[q].pc # "mail" => req[q].mint \notin minted'
      BY <3>1, <3>2 DEF ReqOK
    <3>4. req[q].pc \in {"mark", "set"} => claimed'[req[q].link] = 1
      BY <3>1 DEF ReqOK
    <3>5. Strict /\ req[q].pc = "start" => proofs'[req[q].user] # {}
      BY <3>1 DEF ReqOK
    <3> QED
      BY <3>1, <3>3, <3>4, <3>5 DEF ReqOK
  <2> QED BY <2>1, <2>2
<1>3. RequestsApart'
  BY <1>1 DEF IInv, RequestsApart, Apart
<1> QED
  BY <1>1, <1>2, <1>3 DEF RequestsOK

\* A step that changes nothing but the record of one request.
LEMMA RequestOnly ==
  ASSUME IInv, NEW r \in Req, NEW s \in ReqState,
         req' = [req EXCEPT ![r] = s],
         UNCHANGED <<users, links, signedIn, mailed, minted, claimed, proofs, seen>>,
         ReqOK(s),
         \A q \in Req : q # r => Apart(s, req[q]) /\ Apart(req[q], s)
  PROVE  IInv'
<1>1. ReqOK(s)'
  BY DEF ReqOK
<1>2. req' \in [Req -> ReqState] /\ RequestsOK' /\ RequestsApart'
  BY <1>1, RequestMoves
<1>3. TypeOK' /\ LinksOK' /\ AccountsOK'
  BY <1>2 DEF IInv, TypeOK, LinksOK, AccountsOK, AccountOK, NoLinkOfTheDead, Stored, Exists
<1> QED
  BY <1>2, <1>3 DEF IInv

\* The idle record fits everywhere.
LEMMA IdleFits ==
  /\ Idle \in ReqState
  /\ ReqOK(Idle)
  /\ ReqOK(Idle)'
  /\ \A q \in ReqState : Apart(Idle, q) /\ Apart(q, Idle)
<1>1. Idle \in ReqState
  BY DEF Idle, ReqState, PCs, Ops, Kind
<1> QED
  BY <1>1 DEF Idle, ReqOK, Apart

\* A request that ends without changing a table.
LEMMA FinishStep ==
  ASSUME IInv, NEW r \in Req, Finish(r),
         UNCHANGED <<users, links, signedIn, mailed, minted, claimed, proofs, seen>>
  PROVE  IInv'
<1>1. \A q \in Req : req[q] \in ReqState
  BY DEF IInv, TypeOK
<1> QED
  BY <1>1, IdleFits, RequestOnly DEF Finish

\* A record that draws a fresh link, or none, is apart from all others.
LEMMA FreshApart ==
  ASSUME NEW r \in Req, NEW s, s.mint = None \/ FreshLink(s.mint)
  PROVE  \A q \in Req : q # r => Apart(s, req[q]) /\ Apart(req[q], s)
  BY DEF FreshLink, Apart

\* A record that keeps the drawn link of its request stays apart from the others.
LEMMA SameApart ==
  ASSUME IInv, NEW r \in Req, NEW s, s.mint = req[r].mint
  PROVE  \A q \in Req : q # r => Apart(s, req[q]) /\ Apart(req[q], s)
  BY DEF IInv, RequestsApart, Apart

\* What Goto leaves of a record.
LEMMA GotoRecord ==
  ASSUME IInv, NEW r \in Req, NEW pc \in PCs, Goto(r, pc)
  PROVE  \E s \in ReqState :
           /\ req' = [req EXCEPT ![r] = s]
           /\ s.pc = pc
           /\ s.op = req[r].op /\ s.user = req[r].user /\ s.link = req[r].link
           /\ s.mint = req[r].mint /\ s.pw = req[r].pw
<1>1. req \in [Req -> ReqState] /\ req[r] \in ReqState
  BY DEF IInv, TypeOK
<1>2. [req[r] EXCEPT !.pc = pc] \in ReqState
  BY <1>1 DEF ReqState
<1>3. req' = [req EXCEPT ![r] = [req[r] EXCEPT !.pc = pc]]
  BY <1>1 DEF Goto
<1> QED
  BY <1>1, <1>2, <1>3 DEF ReqState

-----------------------------------------------------------------------------
(* Calls that only fill in a request record.                               *)

LEMMA RegisterTakenStep ==
  ASSUME IInv, NEW r \in Req, NEW p \in Password, NEW l \in Link, RegisterTaken(r, p, l)
  PROVE  IInv'
<1>1. PICK s \in ReqState : s = [Idle EXCEPT !.pc = "replace", !.op = "register", !.pw = p,
                                    !.mint = l, !.confirms = TRUE]
  BY DEF Idle, ReqState, PCs, Ops, Kind
<1>2. s.pc = "replace" /\ s.op = "register" /\ s.pw = p /\ s.mint = l
  BY <1>1 DEF Idle
<1>3. ReqOK(s)
  BY <1>2 DEF ReqOK, RegisterTaken, FreshLink
<1>4. \A q \in Req : q # r => Apart(s, req[q]) /\ Apart(req[q], s)
  BY <1>2, FreshApart DEF RegisterTaken
<1> QED
  BY <1>1, <1>3, <1>4, RequestOnly DEF RegisterTaken

LEMMA ResendStep ==
  ASSUME IInv, NEW r \in Req, NEW u \in User, NEW l \in Link, Resend(r, u, l)
  PROVE  IInv'
<1>1. PICK s \in ReqState : s = [Idle EXCEPT !.pc = "invalidate", !.op = "resend",
                                    !.user = u, !.mint = l]
  BY DEF Idle, ReqState, PCs, Ops, Kind
<1>2. s.pc = "invalidate" /\ s.user = u /\ s.mint = l
  BY <1>1 DEF Idle
<1>3. ReqOK(s)
  BY <1>2 DEF ReqOK, Resend, FreshLink
<1>4. \A q \in Req : q # r => Apart(s, req[q]) /\ Apart(req[q], s)
  BY <1>2, FreshApart DEF Resend
<1> QED
  BY <1>1, <1>3, <1>4, RequestOnly DEF Resend

LEMMA ForgotStep ==
  ASSUME IInv, NEW r \in Req, NEW u \in User, NEW l \in Link, Forgot(r, u, l)
  PROVE  IInv'
<1>1. users[u].place \in {"home", "away"}
  BY DEF Forgot, Exists
<1>2. PICK s \in ReqState : s = [Idle EXCEPT !.pc = "invalidate", !.op = "forgot", !.user = u,
                                    !.mint = l, !.kind = "reset", !.to = users[u].place]
  BY <1>1 DEF Idle, ReqState, PCs, Ops, Kind
<1>3. s.pc = "invalidate" /\ s.user = u /\ s.mint = l
  BY <1>2 DEF Idle
<1>4. ReqOK(s)
  BY <1>3 DEF ReqOK, Forgot, FreshLink
<1>5. \A q \in Req : q # r => Apart(s, req[q]) /\ Apart(req[q], s)
  BY <1>3, FreshApart DEF Forgot
<1> QED
  BY <1>2, <1>4, <1>5, RequestOnly DEF Forgot

LEMMA VerifyEmailStep ==
  ASSUME IInv, NEW r \in Req, NEW k \in Link, NEW l \in Link, VerifyEmail(r, k, l)
  PROVE  IInv'
<1>1. links[k].user \in User /\ links[k].confirms \in BOOLEAN
  BY DEF VerifyEmail, Redeemable, IInv, TypeOK, LinkRow
<1>2. PICK u \in User, c \in BOOLEAN : u = links[k].user /\ c = links[k].confirms
  BY <1>1
<1>3. PICK s \in ReqState : s = [Idle EXCEPT !.pc = "claim", !.op = "verify", !.user = u,
                                    !.link = k, !.mint = l, !.confirms = c]
  BY DEF Idle, ReqState, PCs, Ops, Kind
<1>4. s.pc = "claim" /\ s.op = "verify" /\ s.user = u /\ s.link = k /\ s.mint = l
  BY <1>3 DEF Idle
<1>5. ReqOK(s)
  BY <1>4 DEF ReqOK, VerifyEmail, FreshLink
<1>6. \A q \in Req : q # r => Apart(s, req[q]) /\ Apart(req[q], s)
  BY <1>4, FreshApart DEF VerifyEmail
<1>7. req' = [req EXCEPT ![r] = s]
  BY <1>2, <1>3 DEF VerifyEmail
<1> QED
  BY <1>5, <1>6, <1>7, RequestOnly DEF VerifyEmail

LEMMA ResetPasswordStep ==
  ASSUME IInv, NEW r \in Req, NEW k \in Link, NEW p \in Password, ResetPassword(r, k, p)
  PROVE  IInv'
<1>1. PICK u \in User : u = links[k].user
  BY DEF ResetPassword, Redeemable, IInv, TypeOK, LinkRow
<1>2. PICK s \in ReqState : s = [Idle EXCEPT !.pc = "lookup", !.op = "reset", !.user = u,
                                    !.link = k, !.pw = p, !.kind = "reset"]
  BY DEF Idle, ReqState, PCs, Ops, Kind
<1>3. s.pc = "lookup" /\ s.op = "reset" /\ s.user = u /\ s.link = k /\ s.pw = p /\ s.mint = None
  BY <1>2 DEF Idle
<1>4. ReqOK(s)
  BY <1>3 DEF ReqOK
<1>5. \A q \in Req : q # r => Apart(s, req[q]) /\ Apart(req[q], s)
  BY <1>3, FreshApart
<1>6. req' = [req EXCEPT ![r] = s]
  BY <1>1, <1>2 DEF ResetPassword
<1> QED
  BY <1>4, <1>5, <1>6, RequestOnly DEF ResetPassword

LEMMA SignInStep ==
  ASSUME IInv, NEW r \in Req, NEW u \in User, NEW p \in Password, SignIn(r, u, p)
  PROVE  IInv'
<1>1. PICK s \in ReqState : s = [Idle EXCEPT !.pc = "start", !.op = "signIn", !.user = u]
  BY DEF Idle, ReqState, PCs, Ops, Kind
<1>2. s.pc = "start" /\ s.user = u /\ s.mint = None
  BY <1>1 DEF Idle
<1>3. Strict => proofs[u] # {}
  BY DEF SignIn, AddressAccepted, Asked, Strict, IInv, AccountsOK, AccountOK
<1>4. ReqOK(s)
  BY <1>2, <1>3 DEF ReqOK
<1>5. \A q \in Req : q # r => Apart(s, req[q]) /\ Apart(req[q], s)
  BY <1>2, FreshApart
<1> QED
  BY <1>1, <1>4, <1>5, RequestOnly DEF SignIn

\* A request goes on to a step its record is already complete for.
LEMMA MovesOn ==
  ASSUME IInv, NEW r \in Req, NEW pc \in PCs, Goto(r, pc),
         UNCHANGED <<users, links, signedIn, mailed, minted, claimed, proofs, seen>>,
         \/ req[r].pc = "lookup" /\ pc = "claim"
         \/ req[r].pc = "end" /\ req[r].op = "register" /\ pc = "invalidate"
  PROVE  IInv'
<1>1. PICK s \in ReqState :
           /\ req' = [req EXCEPT ![r] = s]
           /\ s.pc = pc
           /\ s.op = req[r].op /\ s.user = req[r].user /\ s.link = req[r].link
           /\ s.mint = req[r].mint /\ s.pw = req[r].pw
  BY GotoRecord
<1>2. ReqOK(req[r])
  BY DEF IInv, RequestsOK
<1>3. ReqOK(s)
  BY <1>1, <1>2 DEF ReqOK
<1>4. \A q \in Req : q # r => Apart(s, req[q]) /\ Apart(req[q], s)
  BY <1>1, SameApart
<1> QED
  BY <1>1, <1>3, <1>4, RequestOnly

-----------------------------------------------------------------------------
(* Steps that change the link tables.                                      *)

\* Consuming rows keeps them, their accounts and their types.
LEMMA ConsumeKeeps ==
  ASSUME IInv, NEW S, links' = ConsumeAll(S)
  PROVE  /\ Stored' = Stored
         /\ \A l \in Stored : /\ links'[l] \in LinkRow
                              /\ links'[l].user = links[l].user
                              /\ links'[l].live => links[l].live /\ l \notin S
<1>1. Stored' = Stored /\ \A l \in Stored : links[l] \in LinkRow
  BY DEF IInv, TypeOK, ConsumeAll, Stored
<1>2. ASSUME NEW l \in Stored
      PROVE  /\ links'[l] \in LinkRow
             /\ links'[l].user = links[l].user
             /\ links'[l].live => links[l].live /\ l \notin S
  <2>1. CASE l \in S
    <3>1. links'[l] = [links[l] EXCEPT !.live = FALSE]
      BY <2>1 DEF ConsumeAll
    <3> QED BY <1>1, <3>1 DEF LinkRow
  <2>2. CASE l \notin S
    BY <1>1, <2>2 DEF ConsumeAll
  <2> QED BY <2>1, <2>2
<1> QED
  BY <1>1, <1>2

\* Consuming rows of accounts that stay, without a claim, keeps the tables sound.
LEMMA ConsumeLinksOK ==
  ASSUME IInv, NEW S, links' = ConsumeAll(S), UNCHANGED <<minted, claimed>>,
         \A u \in User : Exists(u) => Exists(u)'
  PROVE  LinksOK'
<1>1. /\ Stored' = Stored
      /\ \A l \in Stored : /\ links'[l] \in LinkRow
                           /\ links'[l].user = links[l].user
                           /\ links'[l].live => links[l].live /\ l \notin S
  BY ConsumeKeeps
<1>2. NoLinkOfTheDead'
  BY <1>1 DEF IInv, TypeOK, LinkRow, LinksOK, NoLinkOfTheDead
<1> QED
  BY <1>1, <1>2 DEF IInv, LinksOK

LEMMA IssueInvalidateStep ==
  ASSUME IInv, NEW r \in Req, IssueInvalidate(r)
  PROVE  IInv'
<1>1. /\ links' = ConsumeAll(Outstanding(req[r].user, req[r].kind))
      /\ UNCHANGED <<users, signedIn, mailed, minted, claimed, proofs, seen>>
      /\ Goto(r, "insert")
      /\ req[r].pc = "invalidate"
  BY DEF IssueInvalidate
<1>2. PICK s \in ReqState :
           /\ req' = [req EXCEPT ![r] = s]
           /\ s.pc = "insert"
           /\ s.op = req[r].op /\ s.user = req[r].user /\ s.link = req[r].link
           /\ s.mint = req[r].mint /\ s.pw = req[r].pw
  BY <1>1, GotoRecord DEF PCs
<1>3. ReqOK(req[r])
  BY DEF IInv, RequestsOK
<1>4. ReqOK(s)'
  BY <1>1, <1>2, <1>3 DEF ReqOK
<1>5. \A q \in Req : q # r => Apart(s, req[q]) /\ Apart(req[q], s)
  BY <1>2, SameApart
<1>6. req' \in [Req -> ReqState] /\ RequestsOK' /\ RequestsApart'
  BY <1>1, <1>2, <1>4, <1>5, RequestMoves
<1>7. LinksOK'
  BY <1>1, ConsumeLinksOK DEF Exists
<1>8. Stored' \subseteq Link /\ \A l \in Stored' : links'[l] \in LinkRow
  BY <1>1, ConsumeKeeps DEF IInv, TypeOK
<1>9. TypeOK' /\ AccountsOK'
  BY <1>1, <1>6, <1>8 DEF IInv, TypeOK, AccountsOK, AccountOK, Exists
<1> QED
  BY <1>6, <1>7, <1>9 DEF IInv

LEMMA IssueInsertStep ==
  ASSUME IInv, NEW r \in Req, IssueInsert(r)
  PROVE  IInv'
<1>1. /\ minted' = minted \cup {req[r].mint}
      /\ UNCHANGED <<users, signedIn, mailed, claimed, proofs, seen>>
      /\ Goto(r, "mail")
      /\ req[r].pc = "insert"
      /\ Exists(req[r].user)
  BY DEF IssueInsert
<1>2. PICK s \in ReqState :
           /\ req' = [req EXCEPT ![r] = s]
           /\ s.pc = "mail"
           /\ s.op = req[r].op /\ s.user = req[r].user /\ s.link = req[r].link
           /\ s.mint = req[r].mint /\ s.pw = req[r].pw
  BY <1>1, GotoRecord DEF PCs
<1>3. ReqOK(req[r]) /\ req[r] \in ReqState
  BY DEF IInv, RequestsOK, TypeOK
<1>4. PICK m \in Link, u \in User : m = req[r].mint /\ u = req[r].user /\ m \notin minted
  BY <1>1, <1>3, EmailLinksAssumption DEF ReqOK
<1>5. ReqOK(s)'
  BY <1>1, <1>2, <1>3 DEF ReqOK
<1>6. \A q \in Req : q # r => Apart(s, req[q]) /\ Apart(req[q], s)
  BY <1>2, SameApart
<1>7. req' \in [Req -> ReqState] /\ RequestsOK' /\ RequestsApart'
  BY <1>1, <1>2, <1>5, <1>6, RequestMoves
<1>8. PICK row \in LinkRow : row = MintedRow(r) /\ row.user = u
  <2>1. req[r].kind \in Kind
    BY <1>3 DEF ReqState
  <2>2. (req[r].kind = "verify" /\ req[r].confirms) \in BOOLEAN
    OBVIOUS
  <2>3. PICK c \in BOOLEAN : c = (req[r].kind = "verify" /\ req[r].confirms)
    BY <2>2
  <2>4. MintedRow(r) = [kind |-> req[r].kind, user |-> u, confirms |-> c, live |-> TRUE,
                        lapsed |-> FALSE]
    BY <1>4, <2>3, Zenon DEF MintedRow
  <2>5. PICK k \in Kind : k = req[r].kind
    BY <2>1
  <2>6. PICK row \in LinkRow : row = [kind |-> k, user |-> u, confirms |-> c, live |-> TRUE,
                                     lapsed |-> FALSE]
    BY DEF LinkRow
  <2>7. row.user = u
    BY <2>6
  <2>8. row = MintedRow(r)
    BY <2>4, <2>5, <2>6
  <2> QED
    BY <2>7, <2>8
<1>9. /\ Stored' = Stored \cup {m}
      /\ links'[m] = row
      /\ m \notin Stored
      /\ \A l \in Stored : links'[l] = links[l]
  BY <1>4, <1>8 DEF IssueInsert, Stored, IInv, LinksOK
<1>10. claimed[m] = 0
  BY <1>4 DEF IInv, LinksOK
<1>11. NoLinkOfTheDead'
  BY <1>1, <1>4, <1>8, <1>9 DEF IInv, LinksOK, NoLinkOfTheDead, Exists
<1>12. LinksOK'
  BY <1>1, <1>4, <1>9, <1>10, <1>11 DEF IInv, LinksOK
<1>13. TypeOK'
  BY <1>1, <1>4, <1>7, <1>8, <1>9 DEF IInv, TypeOK
<1>14. AccountsOK'
  BY <1>1 DEF IInv, AccountsOK, AccountOK, Exists
<1> QED
  BY <1>7, <1>12, <1>13, <1>14 DEF IInv

LEMMA MailStep ==
  ASSUME IInv, NEW r \in Req, Mail(r)
  PROVE  IInv'
<1>1. /\ UNCHANGED <<users, links, signedIn, minted, claimed, proofs, seen>>
      /\ Finish(r)
      /\ req[r].to \in {"home", "away"}
      /\ \A q \in Req : req[q] \in ReqState
  BY DEF Mail, IInv, TypeOK, ReqState
<1>2. mailed' \in [Link -> {"no", "home", "away"}]
  BY <1>1 DEF Mail, IInv, TypeOK
<1>3. req' \in [Req -> ReqState] /\ RequestsOK' /\ RequestsApart'
  BY <1>1, IdleFits, RequestMoves DEF Finish
<1>4. TypeOK' /\ LinksOK' /\ AccountsOK'
  BY <1>1, <1>2, <1>3 DEF IInv, TypeOK, LinksOK, AccountsOK, AccountOK, NoLinkOfTheDead, Stored, Exists
<1> QED
  BY <1>3, <1>4 DEF IInv

LEMMA ClaimStep ==
  ASSUME IInv, NEW r \in Req, Claim(r)
  PROVE  IInv'
<1>1. PICK k \in Link : k = req[r].link /\ req[r].pc = "claim" /\ ReqOK(req[r])
  BY DEF Claim, IInv, RequestsOK, ReqOK
<1>2. /\ links' = ConsumeAll({k})
      /\ claimed' = [claimed EXCEPT ![k] = @ + 1]
      /\ UNCHANGED <<users, signedIn, mailed, minted, proofs, seen>>
      /\ k \in Stored
      /\ links[k].live
  BY <1>1 DEF Claim, Claimable
<1>3. /\ claimed' \in [Link -> Nat]
      /\ claimed'[k] = 1
      /\ \A l \in Link : l # k => claimed'[l] = claimed[l]
  BY <1>2 DEF IInv, TypeOK, LinksOK
<1>4. claimed[k] = 0
  BY <1>2 DEF IInv, LinksOK
<1>5. PICK pc \in PCs : Goto(r, pc) /\ pc = IF req[r].op = "verify" THEN "mark" ELSE "set"
  BY DEF Claim, PCs
<1>6. PICK s \in ReqState :
           /\ req' = [req EXCEPT ![r] = s]
           /\ s.pc = pc
           /\ s.op = req[r].op /\ s.user = req[r].user /\ s.link = req[r].link
           /\ s.mint = req[r].mint /\ s.pw = req[r].pw
  BY <1>5, GotoRecord
<1>7. ReqOK(s)'
  BY <1>1, <1>2, <1>3, <1>5, <1>6 DEF ReqOK
<1>8. \A q \in Req : q # r => Apart(s, req[q]) /\ Apart(req[q], s)
  BY <1>6, SameApart
<1>9. \A l \in Link : claimed[l] = 1 => claimed'[l] = 1
  BY <1>3, <1>4
<1>10. req' \in [Req -> ReqState] /\ RequestsOK' /\ RequestsApart'
  BY <1>2, <1>6, <1>7, <1>8, <1>9, RequestMoves
<1>11. /\ Stored' = Stored
       /\ \A l \in Stored : /\ links'[l] \in LinkRow
                            /\ links'[l].user = links[l].user
                            /\ links'[l].live => links[l].live /\ l \notin {k}
  BY <1>2, ConsumeKeeps
<1>12. NoLinkOfTheDead'
  BY <1>2, <1>11 DEF IInv, LinksOK, NoLinkOfTheDead, Exists
<1>13. LinksOK'
  <2>1. Stored \subseteq minted /\ Stored \subseteq Link
    BY DEF IInv, LinksOK, TypeOK
  <2>2. \A l \in Link : claimed'[l] <= 1
    BY <1>3 DEF IInv, LinksOK
  <2>3. \A l \in Link : l \notin minted' => claimed'[l] = 0
    BY <1>2, <1>3, <2>1 DEF IInv, LinksOK
  <2>4. \A l \in Stored : links'[l].live => claimed'[l] = 0
    BY <1>3, <1>11, <2>1 DEF IInv, LinksOK
  <2> QED
    BY <1>2, <1>11, <1>12, <2>1, <2>2, <2>3, <2>4 DEF LinksOK
<1>14. TypeOK' /\ AccountsOK'
  BY <1>2, <1>3, <1>10, <1>11 DEF IInv, TypeOK, AccountsOK, AccountOK, Exists
<1> QED
  BY <1>10, <1>13, <1>14 DEF IInv

-----------------------------------------------------------------------------
(* Steps that change an account.                                           *)

\* The link tables stay sound when no account disappears.
LEMMA SameLinksOK ==
  ASSUME IInv, UNCHANGED <<links, minted, claimed>>,
         \A u \in User : Exists(u) => Exists(u)'
  PROVE  LinksOK'
<1>1. \A l \in Stored : links[l].user \in User
  BY DEF IInv, TypeOK, LinkRow
<1> QED
  BY <1>1 DEF IInv, LinksOK, NoLinkOfTheDead, Stored

LEMMA RegisterNewStep ==
  ASSUME IInv, NEW r \in Req, NEW u \in User, NEW p \in Password, NEW l \in Link,
         NEW asked \in Asked, RegisterNew(r, u, p, l, asked)
  PROVE  IInv'
<1>1. /\ UNCHANGED <<links, signedIn, mailed, minted, claimed, proofs, seen>>
      /\ users[u].place = "new"
      /\ asked => FreshLink(l)
      /\ asked \in BOOLEAN
      /\ Strict => asked
  BY EmailLinksAssumption DEF RegisterNew, Asked, Strict
<1>2. PICK pc \in PCs, m \in Link \cup {None} :
        /\ pc = IF asked THEN "invalidate" ELSE "start"
        /\ m = IF asked THEN l ELSE None
  BY DEF PCs
<1>3. PICK s \in ReqState : s = [Idle EXCEPT !.pc = pc, !.op = "register", !.user = u,
                                    !.mint = m, !.confirms = TRUE]
  BY DEF Idle, ReqState, Ops, Kind
<1>4. s.pc = pc /\ s.user = u /\ s.mint = m
  BY <1>3 DEF Idle
<1>5. req' = [req EXCEPT ![r] = s]
  BY <1>2, <1>3 DEF RegisterNew
<1>6. ReqOK(s)'
  BY <1>1, <1>2, <1>4 DEF ReqOK, FreshLink
<1>7. s.mint = None \/ FreshLink(s.mint)
  BY <1>1, <1>2, <1>4
<1>8. \A q \in Req : q # r => Apart(s, req[q]) /\ Apart(req[q], s)
  BY <1>7, FreshApart
<1>9. req' \in [Req -> ReqState] /\ RequestsOK' /\ RequestsApart'
  BY <1>1, <1>5, <1>6, <1>8, RequestMoves
<1>10. PICK a \in Account : a = [place |-> "home", verified |-> FALSE, pw |-> p, by |-> "signup"]
  BY DEF Account
<1>11. /\ users' \in [User -> Account]
       /\ users'[u].place = "home" /\ ~users'[u].verified
       /\ \A v \in User : v # u => users'[v] = users[v]
  BY <1>10 DEF RegisterNew, IInv, TypeOK
<1>12. \A v \in User : Exists(v) => Exists(v)'
  BY <1>11 DEF Exists
<1>13. LinksOK'
  BY <1>1, <1>12, SameLinksOK
<1>14. TypeOK'
  BY <1>1, <1>9, <1>11 DEF IInv, TypeOK, Stored
<1>15. AccountsOK'
  BY <1>1, <1>11 DEF IInv, AccountsOK, AccountOK, Exists
<1> QED
  BY <1>9, <1>13, <1>14, <1>15 DEF IInv

LEMMA ReplaceUnverifiedStep ==
  ASSUME IInv, NEW r \in Req, NEW u \in User, ReplaceUnverified(r, u)
  PROVE  IInv'
<1>1. /\ UNCHANGED <<links, signedIn, mailed, minted, claimed, proofs, seen>>
      /\ users[u].place = "home" /\ ~users[u].verified
      /\ req[r].pc = "replace" /\ ReqOK(req[r])
      /\ req[r] \in ReqState
      /\ users[u] \in Account
  BY DEF ReplaceUnverified, Replaceable, IInv, RequestsOK, TypeOK
<1>2. PICK s \in ReqState : s = [req[r] EXCEPT !.pc = "end", !.user = u]
  BY <1>1 DEF ReqState, PCs
<1>3. s.pc = "end" /\ s.user = u /\ s.mint = req[r].mint
  BY <1>1, <1>2 DEF ReqState
<1>4. req' = [req EXCEPT ![r] = s]
  BY <1>2 DEF ReplaceUnverified, IInv, TypeOK
<1>5. ReqOK(s)'
  BY <1>1, <1>3 DEF ReqOK
<1>6. \A q \in Req : q # r => Apart(s, req[q]) /\ Apart(req[q], s)
  BY <1>3, SameApart
<1>7. req' \in [Req -> ReqState] /\ RequestsOK' /\ RequestsApart'
  BY <1>1, <1>4, <1>5, <1>6, RequestMoves
<1>8. PICK a \in Account : a = [users[u] EXCEPT !.pw = req[r].pw, !.by = "signup"]
  BY <1>1 DEF Account, ReqOK
<1>9. a.place = "home" /\ ~a.verified
  BY <1>1, <1>8 DEF Account
<1>10. users' = [users EXCEPT ![u] = a]
  BY <1>8 DEF ReplaceUnverified, IInv, TypeOK
<1>11. /\ users' \in [User -> Account]
       /\ users'[u] = a
       /\ \A v \in User : v # u => users'[v] = users[v]
  BY <1>10 DEF IInv, TypeOK
<1>12. \A v \in User : Exists(v) => Exists(v)'
  BY <1>9, <1>11 DEF Exists
<1>13. LinksOK'
  BY <1>1, <1>12, SameLinksOK
<1>14. TypeOK'
  BY <1>1, <1>7, <1>11 DEF IInv, TypeOK, Stored
<1>15. ASSUME NEW v \in User PROVE AccountOK(v)'
  <2>1. CASE v = u
    BY <2>1, <1>1, <1>9, <1>11 DEF IInv, AccountsOK, AccountOK, Exists
  <2>2. CASE v # u
    BY <2>2, <1>1, <1>11 DEF IInv, AccountsOK, AccountOK, Exists
  <2> QED BY <2>1, <2>2
<1> QED
  BY <1>7, <1>13, <1>14, <1>15 DEF IInv, AccountsOK

\* Ending sessions disturbs no other part of the invariant.
LEMMA EndSessionsStep ==
  ASSUME IInv, NEW r \in Req, EndSessions(r)
  PROVE  IInv'
<1>1. /\ UNCHANGED <<users, links, mailed, minted, claimed, proofs, seen>>
      /\ signedIn' \subseteq signedIn
      /\ req[r].pc = "end" /\ ReqOK(req[r])
      /\ \A q \in Req : req[q] \in ReqState
  BY DEF EndSessions, IInv, RequestsOK, TypeOK
<1>2. req' \in [Req -> ReqState] /\ RequestsOK' /\ RequestsApart'
  <2>1. CASE req[r].op = "register"
    <3>1. PICK s \in ReqState :
           /\ req' = [req EXCEPT ![r] = s]
           /\ s.pc = "invalidate"
           /\ s.op = req[r].op /\ s.user = req[r].user /\ s.link = req[r].link
           /\ s.mint = req[r].mint /\ s.pw = req[r].pw
      BY <2>1, GotoRecord DEF EndSessions, PCs
    <3>2. ReqOK(s)'
      BY <1>1, <2>1, <3>1 DEF ReqOK
    <3>3. \A q \in Req : q # r => Apart(s, req[q]) /\ Apart(req[q], s)
      BY <3>1, SameApart
    <3> QED
      BY <1>1, <3>1, <3>2, <3>3, RequestMoves
  <2>2. CASE req[r].op # "register"
    BY <1>1, <2>2, IdleFits, RequestMoves DEF EndSessions, Finish
  <2> QED BY <2>1, <2>2
<1>3. TypeOK' /\ LinksOK' /\ AccountsOK'
  BY <1>1, <1>2 DEF IInv, TypeOK, LinksOK, AccountsOK, AccountOK, NoLinkOfTheDead, Stored, Exists
<1> QED
  BY <1>2, <1>3 DEF IInv

LEMMA StartSessionStep ==
  ASSUME IInv, NEW r \in Req, StartSession(r)
  PROVE  IInv'
<1>1. /\ UNCHANGED <<users, links, mailed, minted, claimed, proofs>>
      /\ Finish(r)
      /\ req[r].pc = "start" /\ ReqOK(req[r])
      /\ Exists(req[r].user)
      /\ \A q \in Req : req[q] \in ReqState
  BY DEF StartSession, IInv, RequestsOK, TypeOK
<1>2. req' \in [Req -> ReqState] /\ RequestsOK' /\ RequestsApart'
  BY <1>1, IdleFits, RequestMoves DEF Finish
<1>3. PICK u \in User : u = req[r].user /\ (Strict => proofs[u] # {})
  BY <1>1 DEF ReqOK
<1>4. signedIn' = signedIn \cup {u} /\ seen' = seen \cup {u}
  BY <1>3 DEF StartSession
<1>5. AccountsOK'
  BY <1>1, <1>3, <1>4 DEF IInv, AccountsOK, AccountOK, Exists
<1>6. TypeOK' /\ LinksOK'
  BY <1>1, <1>2, <1>4 DEF IInv, TypeOK, LinksOK, NoLinkOfTheDead, Stored, Exists
<1> QED
  BY <1>2, <1>5, <1>6 DEF IInv

\* The account row a redeemed link leaves.
LEMMA VerifiedRowIs ==
  ASSUME TypeOK, NEW u \in User, NEW c \in BOOLEAN
  PROVE  \E a \in Account :
           /\ a = VerifiedRow(u, c)
           /\ a.verified
           /\ a.place = users[u].place
           /\ a.by = IF c THEN users[u].by ELSE "marker"
<1>1. users[u] \in Account
  BY DEF TypeOK
<1>2. CASE c
  <2>1. VerifiedRow(u, c) = [users[u] EXCEPT !.verified = TRUE]
    BY <1>2 DEF VerifiedRow
  <2> QED
    BY <1>1, <1>2, <2>1 DEF Account
<1>3. CASE ~c
  <2>1. VerifiedRow(u, c) = [users[u] EXCEPT !.verified = TRUE, !.pw = Marker, !.by = "marker"]
    BY <1>3 DEF VerifiedRow
  <2> QED
    BY <1>1, <1>3, <2>1 DEF Account
<1> QED
  BY <1>2, <1>3

LEMMA MarkVerifiedStep ==
  ASSUME IInv, NEW r \in Req, MarkVerified(r)
  PROVE  IInv'
<1>1. /\ UNCHANGED <<links, mailed, minted, claimed, seen>>
      /\ req[r].pc = "mark" /\ ReqOK(req[r])
      /\ Exists(req[r].user)
      /\ \A q \in Req : req[q] \in ReqState
  BY DEF MarkVerified, IInv, RequestsOK, TypeOK
<1>2. PICK u \in User, c \in BOOLEAN : u = req[r].user /\ c = req[r].confirms
  BY <1>1 DEF ReqOK, ReqState
<1>3. PICK a \in Account :
           /\ a = VerifiedRow(u, c)
           /\ a.verified
           /\ a.place = users[u].place
           /\ a.by = IF c THEN users[u].by ELSE "marker"
  BY VerifiedRowIs DEF IInv
<1>4. /\ users' = [users EXCEPT ![u] = a]
      /\ signedIn' = signedIn \ {u}
      /\ proofs' = [proofs EXCEPT ![u] = @ \cup {c}]
  BY <1>2, <1>3 DEF MarkVerified
<1>5. /\ users' \in [User -> Account]
      /\ users'[u] = a
      /\ \A v \in User : v # u => users'[v] = users[v]
  BY <1>4 DEF IInv, TypeOK
<1>6. /\ proofs' \in [User -> SUBSET BOOLEAN]
      /\ proofs'[u] = proofs[u] \cup {c}
      /\ \A v \in User : v # u => proofs'[v] = proofs[v]
      /\ \A v \in User : proofs[v] \subseteq proofs'[v]
  BY <1>4 DEF IInv, TypeOK
<1>7. req' \in [Req -> ReqState] /\ RequestsOK' /\ RequestsApart'
  <2>1. CASE c
    <3>1. req' = [req EXCEPT ![r] = Idle]
      BY <1>2, <2>1 DEF MarkVerified, AfterMark
    <3> QED
      BY <1>1, <1>6, <3>1, IdleFits, RequestMoves
  <2>2. CASE ~c
    <3>1. users[u].place \in {"home", "away"}
      BY <1>1, <1>2 DEF Exists
    <3>2. PICK s \in ReqState : s = [req[r] EXCEPT !.pc = "invalidate", !.kind = "reset",
                                          !.to = users[u].place]
      BY <1>1, <3>1 DEF ReqState, PCs, Kind
    <3>3. s.pc = "invalidate" /\ s.user = u /\ s.mint = req[r].mint
      BY <1>1, <1>2, <3>2 DEF ReqState
    <3>4. req' = [req EXCEPT ![r] = s]
      BY <1>2, <2>2, <3>2 DEF MarkVerified, AfterMark
    <3>5. ReqOK(s)'
      BY <1>1, <3>3 DEF ReqOK
    <3>6. \A q \in Req : q # r => Apart(s, req[q]) /\ Apart(req[q], s)
      BY <3>3, SameApart
    <3> QED
      BY <1>1, <1>6, <3>4, <3>5, <3>6, RequestMoves
  <2> QED BY <2>1, <2>2
<1>8. \A v \in User : Exists(v) => Exists(v)'
  BY <1>3, <1>5 DEF Exists
<1>9. LinksOK'
  BY <1>1, <1>8, SameLinksOK
<1>10. TypeOK'
  BY <1>1, <1>4, <1>5, <1>6, <1>7 DEF IInv, TypeOK, Stored
<1>11. ASSUME NEW v \in User PROVE AccountOK(v)'
  <2>1. CASE v # u
    BY <2>1, <1>1, <1>4, <1>5, <1>6 DEF IInv, AccountsOK, AccountOK, Exists
  <2>2. CASE v = u
    <3>1. AccountOK(u) /\ proofs[u] \subseteq BOOLEAN
      BY DEF IInv, AccountsOK, TypeOK
    <3>2. a.by = "signup" => proofs'[u] = {TRUE}
      <4> SUFFICES ASSUME a.by = "signup" PROVE proofs'[u] = {TRUE}
        OBVIOUS
      <4>1. c = TRUE /\ users[u].by = "signup"
        BY <1>3
      <4>2. proofs[u] = {} \/ proofs[u] = {TRUE}
        BY <3>1, <4>1 DEF AccountOK
      <4> QED
        BY <1>6, <4>1, <4>2
    <3>3. proofs'[u] # {} /\ u \notin signedIn'
      BY <1>4, <1>6
    <3>4. users[u].place # "new"
      BY <1>1, <1>2 DEF Exists
    <3> QED
      BY <2>2, <1>3, <1>5, <3>2, <3>3, <3>4 DEF AccountOK
  <2> QED BY <2>1, <2>2
<1> QED
  BY <1>7, <1>9, <1>10, <1>11 DEF IInv, AccountsOK

\* An account whose password is set anew, by a reset or by its owner.
LEMMA NewPassword ==
  ASSUME IInv, NEW u \in User, NEW p \in Password, NEW by \in {"reset", "change"},
         users' = [users EXCEPT ![u].pw = p, ![u].by = by],
         signedIn' \subseteq signedIn, UNCHANGED <<proofs, seen>>
  PROVE  /\ users' \in [User -> Account]
         /\ \A v \in User : Exists(v) => Exists(v)'
         /\ AccountsOK'
<1>1. users \in [User -> Account] /\ users[u] \in Account
  BY DEF IInv, TypeOK
<1>2. PICK a \in Account : a = [users[u] EXCEPT !.pw = p, !.by = by]
  BY <1>1 DEF Account
<1>3. a.place = users[u].place /\ a.verified = users[u].verified /\ a.by = by
  BY <1>1, <1>2 DEF Account
<1>4. users' = [users EXCEPT ![u] = a]
  BY <1>1, <1>2
<1>5. /\ users' \in [User -> Account]
      /\ users'[u] = a
      /\ \A v \in User : v # u => users'[v] = users[v]
  BY <1>1, <1>4
<1>6. \A v \in User : Exists(v) <=> Exists(v)'
  BY <1>3, <1>5 DEF Exists
<1>7. ASSUME NEW v \in User PROVE AccountOK(v)'
  <2>1. AccountOK(v)
    BY DEF IInv, AccountsOK
  <2>2. CASE v = u
    BY <2>1, <2>2, <1>3, <1>5, <1>6 DEF AccountOK
  <2>3. CASE v # u
    BY <2>1, <2>3, <1>5, <1>6 DEF AccountOK
  <2> QED BY <2>2, <2>3
<1> QED
  BY <1>5, <1>6, <1>7 DEF AccountsOK

LEMMA SetPasswordStep ==
  ASSUME IInv, NEW r \in Req, SetPassword(r)
  PROVE  IInv'
<1>1. /\ UNCHANGED <<links, signedIn, mailed, minted, claimed, proofs, seen>>
      /\ req[r].pc = "set" /\ ReqOK(req[r])
      /\ Goto(r, "end")
  BY DEF SetPassword, IInv, RequestsOK
<1>2. PICK s \in ReqState :
           /\ req' = [req EXCEPT ![r] = s]
           /\ s.pc = "end"
           /\ s.op = req[r].op /\ s.user = req[r].user /\ s.link = req[r].link
           /\ s.mint = req[r].mint /\ s.pw = req[r].pw
  BY <1>1, GotoRecord DEF PCs
<1>3. ReqOK(s)'
  BY <1>1, <1>2 DEF ReqOK
<1>4. \A q \in Req : q # r => Apart(s, req[q]) /\ Apart(req[q], s)
  BY <1>2, SameApart
<1>5. req' \in [Req -> ReqState] /\ RequestsOK' /\ RequestsApart'
  BY <1>1, <1>2, <1>3, <1>4, RequestMoves
<1>6. /\ users' \in [User -> Account]
      /\ \A v \in User : Exists(v) => Exists(v)'
      /\ AccountsOK'
  <2>1. CASE Exists(req[r].user)
    BY <1>1, <2>1, NewPassword DEF SetPassword, ReqOK
  <2>2. CASE ~Exists(req[r].user)
    BY <1>1, <2>2 DEF SetPassword, IInv, TypeOK, AccountsOK, AccountOK, Exists
  <2> QED BY <2>1, <2>2
<1>7. LinksOK'
  BY <1>1, <1>6, SameLinksOK
<1>8. TypeOK'
  BY <1>1, <1>5, <1>6 DEF IInv, TypeOK, Stored
<1> QED
  BY <1>5, <1>6, <1>7, <1>8 DEF IInv

LEMMA ChangePasswordStep ==
  ASSUME IInv, NEW r \in Req, NEW u \in User, NEW p \in Password, ChangePassword(r, u, p)
  PROVE  IInv'
<1>1. /\ UNCHANGED <<mailed, minted, claimed, proofs, seen>>
      /\ links' = ConsumeAll(Outstanding(u, "reset"))
      /\ signedIn' = signedIn \ {u}
      /\ u \in seen
  BY DEF ChangePassword
<1>2. PICK s \in ReqState : s = [Idle EXCEPT !.pc = "start", !.op = "change", !.user = u]
  BY DEF Idle, ReqState, PCs, Ops, Kind
<1>3. s.pc = "start" /\ s.user = u /\ s.mint = None
  BY <1>2 DEF Idle
<1>4. Strict => proofs[u] # {}
  BY <1>1 DEF IInv, AccountsOK, AccountOK
<1>5. ReqOK(s)'
  BY <1>1, <1>3, <1>4 DEF ReqOK
<1>6. \A q \in Req : q # r => Apart(s, req[q]) /\ Apart(req[q], s)
  BY <1>3, FreshApart
<1>7. req' \in [Req -> ReqState] /\ RequestsOK' /\ RequestsApart'
  BY <1>1, <1>2, <1>5, <1>6, RequestMoves DEF ChangePassword
<1>8. /\ users' \in [User -> Account]
      /\ \A v \in User : Exists(v) => Exists(v)'
      /\ AccountsOK'
  BY <1>1, NewPassword DEF ChangePassword
<1>9. LinksOK'
  BY <1>1, <1>8, ConsumeLinksOK
<1>10. Stored' \subseteq Link /\ \A l \in Stored' : links'[l] \in LinkRow
  BY <1>1, ConsumeKeeps DEF IInv, TypeOK
<1>11. TypeOK'
  BY <1>1, <1>7, <1>8, <1>10 DEF IInv, TypeOK
<1> QED
  BY <1>7, <1>8, <1>9, <1>11 DEF IInv

-----------------------------------------------------------------------------
(* Steps of no request.                                                    *)

LEMMA RequestsKept ==
  ASSUME IInv, UNCHANGED <<req, minted, claimed, proofs>>
  PROVE  req' \in [Req -> ReqState] /\ RequestsOK' /\ RequestsApart'
  BY DEF IInv, TypeOK, RequestsOK, ReqOK, RequestsApart, Apart

\* An account changes its place and nothing else.
LEMMA NewPlace ==
  ASSUME IInv, NEW u \in User, NEW place \in {"away", "gone"},
         users' = [users EXCEPT ![u].place = place]
  PROVE  /\ users' \in [User -> Account]
         /\ users'[u].place = place
         /\ users'[u].verified = users[u].verified /\ users'[u].by = users[u].by
         /\ \A v \in User : v # u => users'[v] = users[v]
<1>1. users \in [User -> Account] /\ users[u] \in Account
  BY DEF IInv, TypeOK
<1>2. PICK a \in Account : a = [users[u] EXCEPT !.place = place]
  BY <1>1 DEF Account
<1>3. users' = [users EXCEPT ![u] = a]
  BY <1>1, <1>2
<1> QED
  BY <1>1, <1>2, <1>3 DEF Account

LEMMA MoveAddressStep ==
  ASSUME IInv, NEW u \in User, MoveAddress(u)
  PROVE  IInv'
<1>1. /\ UNCHANGED <<signedIn, req, mailed, minted, claimed, proofs, seen>>
      /\ links' = ConsumeAll(Outstanding(u, "reset") \cup Outstanding(u, "verify"))
      /\ users' = [users EXCEPT ![u].place = "away"]
  BY DEF MoveAddress
<1>2. /\ users' \in [User -> Account]
      /\ users'[u].place = "away"
      /\ users'[u].verified = users[u].verified /\ users'[u].by = users[u].by
      /\ \A v \in User : v # u => users'[v] = users[v]
  BY <1>1, NewPlace
<1>3. \A v \in User : Exists(v) => Exists(v)'
  BY <1>2 DEF Exists
<1>4. req' \in [Req -> ReqState] /\ RequestsOK' /\ RequestsApart'
  BY <1>1, RequestsKept
<1>5. LinksOK'
  BY <1>1, <1>3, ConsumeLinksOK
<1>6. Stored' \subseteq Link /\ \A l \in Stored' : links'[l] \in LinkRow
  BY <1>1, ConsumeKeeps DEF IInv, TypeOK
<1>7. TypeOK'
  BY <1>1, <1>2, <1>4, <1>6 DEF IInv, TypeOK
<1>8. ASSUME NEW v \in User PROVE AccountOK(v)'
  <2>1. AccountOK(v)
    BY DEF IInv, AccountsOK
  <2>2. CASE v = u
    BY <2>1, <2>2, <1>1, <1>2, <1>3 DEF AccountOK
  <2>3. CASE v # u
    BY <2>1, <2>3, <1>1, <1>2, <1>3 DEF AccountOK
  <2> QED BY <2>2, <2>3
<1> QED
  BY <1>4, <1>5, <1>7, <1>8 DEF IInv, AccountsOK

LEMMA DeleteUserStep ==
  ASSUME IInv, NEW u \in User, DeleteUser(u)
  PROVE  IInv'
<1>1. /\ UNCHANGED <<req, mailed, minted, claimed, proofs, seen>>
      /\ links' = LinksWithout(u)
      /\ signedIn' = signedIn \ {u}
      /\ users' = [users EXCEPT ![u].place = "gone"]
  BY DEF DeleteUser
<1>2. /\ users' \in [User -> Account]
      /\ users'[u].place = "gone"
      /\ users'[u].verified = users[u].verified /\ users'[u].by = users[u].by
      /\ \A v \in User : v # u => users'[v] = users[v]
  BY <1>1, NewPlace
<1>3. /\ Stored' \subseteq Stored
      /\ \A l \in Stored' : links'[l] = links[l] /\ links[l].user # u
  BY <1>1 DEF LinksWithout, Stored
<1>4. req' \in [Req -> ReqState] /\ RequestsOK' /\ RequestsApart'
  BY <1>1, RequestsKept
<1>5. NoLinkOfTheDead'
  BY <1>2, <1>3 DEF IInv, TypeOK, LinkRow, LinksOK, NoLinkOfTheDead, Exists
<1>6. LinksOK'
  BY <1>1, <1>3, <1>5 DEF IInv, LinksOK
<1>7. TypeOK'
  BY <1>1, <1>2, <1>3, <1>4 DEF IInv, TypeOK
<1>8. ASSUME NEW v \in User PROVE AccountOK(v)'
  <2>1. AccountOK(v)
    BY DEF IInv, AccountsOK
  <2>2. CASE v = u
    BY <2>1, <2>2, <1>1, <1>2 DEF AccountOK
  <2>3. CASE v # u
    BY <2>1, <2>3, <1>1, <1>2 DEF AccountOK, Exists
  <2> QED BY <2>2, <2>3
<1> QED
  BY <1>4, <1>6, <1>7, <1>8 DEF IInv, AccountsOK

LEMMA LapseStep ==
  ASSUME IInv, NEW l \in Link, Lapse(l)
  PROVE  IInv'
<1>1. /\ UNCHANGED <<users, signedIn, req, mailed, minted, claimed, proofs, seen>>
      /\ l \in Stored
      /\ \A k \in Stored : links[k] \in LinkRow
      /\ links' = [links EXCEPT ![l].lapsed = TRUE]
  BY DEF Lapse, IInv, TypeOK
<1>2. Stored' = Stored
  BY <1>1 DEF Stored
<1>3. ASSUME NEW k \in Stored
      PROVE  links'[k] \in LinkRow /\ links'[k].user = links[k].user /\ (links'[k].live => links[k].live)
  <2>1. CASE k = l
    <3>1. links'[k] = [links[k] EXCEPT !.lapsed = TRUE]
      BY <1>1, <2>1 DEF Stored
    <3>2. links[k] \in LinkRow
      BY <1>1
    <3>3. links'[k] \in LinkRow /\ links'[k].user = links[k].user
      BY <3>1, <3>2 DEF LinkRow
    <3>4. links'[k].live => links[k].live
      BY <3>1, <3>2, Zenon DEF LinkRow
    <3> QED
      BY <3>3, <3>4
  <2>2. CASE k # l
    BY <1>1, <2>2 DEF Stored
  <2> QED BY <2>1, <2>2
<1>4. req' \in [Req -> ReqState] /\ RequestsOK' /\ RequestsApart'
  BY <1>1, RequestsKept
<1>5. NoLinkOfTheDead'
  BY <1>1, <1>2, <1>3 DEF IInv, LinksOK, NoLinkOfTheDead, Exists
<1>6. LinksOK'
  BY <1>1, <1>2, <1>3, <1>5 DEF IInv, LinksOK
<1>7. TypeOK' /\ AccountsOK'
  BY <1>1, <1>2, <1>3, <1>4 DEF IInv, TypeOK, AccountsOK, AccountOK, Exists
<1> QED
  BY <1>4, <1>6, <1>7 DEF IInv

-----------------------------------------------------------------------------
(* The invariant and what follows from it.                                 *)

LEMMA InitIInv == Init => IInv
<1> SUFFICES ASSUME Init PROVE IInv
  OBVIOUS
<1>1. Stored = {}
  BY DEF Init, Stored
<1>2. TypeOK
  <2>1. users \in [User -> Account]
    BY DEF Init, Account
  <2>2. req \in [Req -> ReqState]
    BY IdleFits DEF Init
  <2> QED
    BY <1>1, <2>1, <2>2 DEF Init, TypeOK
<1>3. RequestsOK
  BY IdleFits DEF Init, RequestsOK
<1>4. RequestsApart
  BY IdleFits DEF Init, RequestsApart
<1>5. LinksOK
  BY <1>1 DEF Init, LinksOK, NoLinkOfTheDead
<1>6. AccountsOK
  BY DEF Init, AccountsOK, AccountOK
<1> QED
  BY <1>2, <1>3, <1>4, <1>5, <1>6 DEF IInv

LEMMA StepIInv ==
  ASSUME IInv, NEW r \in Req, Step(r)
  PROVE  IInv'
<1>1. ASSUME NEW u \in User, ReplaceUnverified(r, u) PROVE IInv'
  BY <1>1, ReplaceUnverifiedStep
<1>2. CASE ReplaceNothing(r) \/ IssueRefused(r) \/ ClaimLost(r) \/ MarkNothing(r) \/ StartRefused(r)
  BY <1>2, FinishStep DEF ReplaceNothing, IssueRefused, ClaimLost, MarkNothing, StartRefused
<1>3. CASE EndSessions(r)
  BY <1>3, EndSessionsStep
<1>4. CASE EndSessionsFails(r)
  BY <1>4, FinishStep, MovesOn DEF EndSessionsFails, PCs
<1>5. CASE IssueInvalidate(r)
  BY <1>5, IssueInvalidateStep
<1>6. CASE IssueInsert(r)
  BY <1>6, IssueInsertStep
<1>7. CASE Mail(r)
  BY <1>7, MailStep
<1>8. CASE Lookup(r)
  BY <1>8, FinishStep, MovesOn DEF Lookup, PCs
<1>9. CASE Claim(r)
  BY <1>9, ClaimStep
<1>10. CASE MarkVerified(r)
  BY <1>10, MarkVerifiedStep
<1>11. CASE SetPassword(r)
  BY <1>11, SetPasswordStep
<1>12. CASE StartSession(r)
  BY <1>12, StartSessionStep
<1> QED
  BY <1>1, <1>2, <1>3, <1>4, <1>5, <1>6, <1>7, <1>8, <1>9, <1>10, <1>11, <1>12 DEF Step

LEMMA NextIInv == IInv /\ [Next]_vars => IInv'
<1> SUFFICES ASSUME IInv, [Next]_vars PROVE IInv'
  OBVIOUS
<1>1. ASSUME NEW r \in Req, Step(r) PROVE IInv'
  BY <1>1, StepIInv
<1>2. ASSUME NEW r \in Req, Call(r) PROVE IInv'
  BY <1>2, RegisterNewStep, RegisterTakenStep, ResendStep, ForgotStep, VerifyEmailStep,
     ResetPasswordStep, SignInStep, ChangePasswordStep DEF Call
<1>3. CASE World
  BY <1>3, MoveAddressStep, DeleteUserStep, LapseStep DEF World
<1>4. CASE Faults
  BY <1>4, FinishStep DEF Faults, Abort, MailLost
<1>5. CASE UNCHANGED vars
  <2>1. req' \in [Req -> ReqState] /\ RequestsOK' /\ RequestsApart'
    BY <1>5, RequestsKept DEF vars
  <2> QED
    BY <1>5, <2>1 DEF vars, IInv, TypeOK, LinksOK, AccountsOK, AccountOK, NoLinkOfTheDead, Stored, Exists
<1> QED
  BY <1>1, <1>2, <1>3, <1>4, <1>5 DEF Next, Smooth

\* The inductive invariant holds in every reachable state: request records are
\* complete, drawn links are unknown, live links unclaimed, proofs recorded.
THEOREM Invariant == Spec => []IInv
<1> QED
  BY InitIInv, NextIInv, PTL DEF Spec

\* Every variable keeps its type.
THEOREM TypeCorrect == Spec => []TypeOK
<1>1. IInv => TypeOK
  BY DEF IInv
<1> QED
  BY <1>1, Invariant, PTL

\* A single-use link is acted on at most once, whatever requests race for it
\* between LookupToken and ClaimToken.
THEOREM SingleUse == Spec => []ClaimedOnce
<1>1. IInv => ClaimedOnce
  BY DEF IInv, LinksOK, ClaimedOnce
<1> QED
  BY <1>1, Invariant, PTL

\* A verified account keeps a sign-up's password only if nothing but sign-up links
\* ever verified it; where verification is required a session needs a redeemed
\* link; and no link outlives its account.
THEOREM AddressIsProved ==
  Spec => [](KeptPasswordWasConfirmed /\ SessionNeedsProof /\ NoLinkOfTheDead)
<1>1. IInv => KeptPasswordWasConfirmed
  BY DEF IInv, AccountsOK, AccountOK, KeptPasswordWasConfirmed
<1>2. IInv => SessionNeedsProof
  BY DEF IInv, TypeOK, AccountsOK, AccountOK, SessionNeedsProof
<1>3. IInv => NoLinkOfTheDead
  BY DEF IInv, LinksOK
<1> QED
  BY <1>1, <1>2, <1>3, Invariant, PTL

\* Where verification is required nobody holds a session of an account whose address
\* was not proven by a redeemed link, whoever resends, stops or signs up again.
THEOREM SessionsAreProved == Spec => []SessionNeedsProof
<1> QED
  BY AddressIsProved, PTL

\* The password of a verified account changes only by a link claimed for it or by
\* a caller who had signed in to it; a sign-up that is still under way when the
\* address is verified changes nothing (ReplaceUnverified).
THEOREM NoSignUpReplacesVerified == Spec => VerifiedPasswordIsSafe
<1>1. ASSUME IInv, [Next]_vars, NEW u \in User,
             Exists(u), users[u].verified, users'[u].pw # users[u].pw
      PROVE  \/ u \in seen
             \/ \E r \in Req : /\ req[r].pc \in {"mark", "set"}
                               /\ req[r].user = u
                               /\ claimed[req[r].link] = 1
  <2>1. users \in [User -> Account] /\ RequestsOK
    BY <1>1 DEF IInv, TypeOK
  <2>2. ASSUME NEW r \in Req, MarkVerified(r) \/ SetPassword(r)
        PROVE  /\ req[r].pc \in {"mark", "set"}
               /\ req[r].user = u
               /\ claimed[req[r].link] = 1
    <3>1. req[r].pc \in {"mark", "set"} /\ ReqOK(req[r])
      BY <2>1, <2>2 DEF MarkVerified, SetPassword, RequestsOK
    <3>2. req[r].user \in User /\ claimed[req[r].link] = 1
      BY <3>1 DEF ReqOK
    <3>3. CASE req[r].user # u
      <4>1. CASE MarkVerified(r)
        BY <1>1, <2>1, <3>2, <3>3, <4>1 DEF MarkVerified
      <4>2. CASE SetPassword(r)
        BY <1>1, <2>1, <3>2, <3>3, <4>2 DEF SetPassword
      <4> QED
        BY <2>2, <4>1, <4>2
    <3> QED
      BY <3>1, <3>2, <3>3
  <2>3. ASSUME NEW r \in Req, NEW v \in User, ReplaceUnverified(r, v) PROVE FALSE
    <3>1. v # u
      BY <1>1, <2>3 DEF ReplaceUnverified, Replaceable
    <3> QED
      BY <1>1, <2>1, <2>3, <3>1 DEF ReplaceUnverified
  <2>4. ASSUME NEW r \in Req, NEW v \in User, NEW p \in Password, NEW l \in Link,
               NEW asked \in Asked, RegisterNew(r, v, p, l, asked)
        PROVE  FALSE
    <3>1. v # u
      BY <1>1, <2>4 DEF RegisterNew, Exists
    <3> QED
      BY <1>1, <2>1, <2>4, <3>1 DEF RegisterNew
  <2>5. ASSUME NEW r \in Req, NEW v \in User, NEW p \in Password, ChangePassword(r, v, p)
        PROVE  u \in seen
    <3>1. CASE v = u
      BY <2>5, <3>1 DEF ChangePassword
    <3>2. CASE v # u
      BY <1>1, <2>1, <2>5, <3>2 DEF ChangePassword
    <3> QED BY <3>1, <3>2
  <2>6. ASSUME NEW v \in User, MoveAddress(v) \/ DeleteUser(v) PROVE FALSE
    <3>1. PICK place \in {"away", "gone"} : users' = [users EXCEPT ![v].place = place]
      BY <2>6 DEF MoveAddress, DeleteUser
    <3>2. users'[u].pw = users[u].pw
      BY <2>1, <3>1 DEF Account
    <3> QED
      BY <1>1, <3>2
  <2>7. ASSUME NEW r \in Req, Step(r)
        PROVE  \E q \in Req : /\ req[q].pc \in {"mark", "set"}
                               /\ req[q].user = u
                               /\ claimed[req[q].link] = 1
    BY <1>1, <2>2, <2>3, <2>7
       DEF Step, ReplaceNothing, EndSessions, EndSessionsFails, IssueInvalidate, IssueInsert,
           IssueRefused, Mail, Lookup, Claim, ClaimLost, MarkNothing, StartSession, StartRefused
  <2>8. ASSUME NEW r \in Req, Call(r) PROVE u \in seen
    BY <1>1, <2>4, <2>5, <2>8
       DEF Call, RegisterTaken, Resend, Forgot, VerifyEmail, ResetPassword, SignIn
  <2>9. World \/ Faults \/ UNCHANGED vars => FALSE
    BY <1>1, <2>6 DEF World, Faults, Lapse, Abort, MailLost, vars
  <2> QED
    BY <1>1, <2>7, <2>8, <2>9 DEF Next, Smooth
<1>2. IInv /\ [Next]_vars =>
        [\A u \in User :
           Exists(u) /\ users[u].verified /\ users'[u].pw # users[u].pw =>
             \/ u \in seen
             \/ \E r \in Req : /\ req[r].pc \in {"mark", "set"}
                               /\ req[r].user = u
                               /\ claimed[req[r].link] = 1]_vars
  BY <1>1
<1> QED
  BY <1>2, Invariant, PTL DEF Spec, VerifiedPasswordIsSafe
=============================================================================
