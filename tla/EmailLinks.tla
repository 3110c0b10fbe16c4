----------------------------- MODULE EmailLinks -----------------------------
(***************************************************************************)
(* Sign-up, address verification and password reset for one email address. *)
(*                                                                         *)
(* Accounts come and go at the address: one signs up, is deleted or moves  *)
(* to another address (a confirmed email change), and the next one signs   *)
(* up.  What proves the address is a mailed single-use link.  A link from  *)
(* a sign-up also confirms the password that sign-up set; a link from a    *)
(* resend proves the address alone, so redeeming it disables the stored    *)
(* password and mails a reset link.                                        *)
(*                                                                         *)
(* Every statement a handler runs on its own connection is an action, since *)
(* none of these handlers holds a transaction across two of them:          *)
(* IssueToken invalidates and then inserts, a redeem looks up and then     *)
(* claims, and what the claim entitles to is a third statement.            *)
(***************************************************************************)
EXTENDS Naturals, FiniteSets

CONSTANTS
  User,      \* the ids of the accounts the address has in turn
  Link,      \* single-use links (token_hash)
  Password,  \* passwords
  Req,       \* requests the server handles at the same time
  None,      \* no user, link or password
  Marker,    \* unprovenHashMarker, which no password matches
  Required,  \* the project requires a verified address to sign in
  Outages    \* the project's settings cannot always be read

ASSUME EmailLinksAssumption ==
  /\ None \notin User \cup Link \cup Password
  /\ Marker \notin Password
  /\ Required \in BOOLEAN
  /\ Outages \in BOOLEAN

VARIABLES
  users,     \* users[u]: the account row
  links,     \* the rows of both token tables: a function from stored links
  signedIn,  \* accounts that hold a live refresh token
  req,       \* req[r]: the handler state of request r
  mailed,    \* mailed[l]: where the plaintext of l was mailed to
  \* history
  minted,    \* links ever stored
  claimed,   \* claimed[l]: how many requests claimed l
  proofs,    \* proofs[u]: confirms_password of every link MarkVerified applied
  seen       \* accounts an access token was ever issued for

vars == <<users, links, signedIn, req, mailed, minted, claimed, proofs, seen>>

-----------------------------------------------------------------------------
(* Rows and request records.                                               *)

\* An account.  place: "new" before the sign-up, "home" at the modelled address,
\* "away" after an email change, "gone" once deleted.  by: who set the password.
Account == [place: {"new", "home", "away", "gone"}, verified: BOOLEAN,
            pw: Password \cup {Marker},
            by: {"signup", "reset", "change", "marker"}]

Kind == {"verify", "reset"}

\* A row of email_verification_tokens or password_reset_tokens.
LinkRow == [kind: Kind, user: User, confirms: BOOLEAN, live: BOOLEAN,
            lapsed: BOOLEAN]

Ops == {"none", "register", "resend", "forgot", "verify", "reset", "signIn", "change"}

PCs == {"idle", "replace", "end", "invalidate", "insert", "mail",
        "lookup", "claim", "mark", "set", "start"}

ReqState == [pc: PCs, op: Ops,
             user: User \cup {None},        \* the account the request acts on
             link: Link \cup {None},        \* the presented link
             mint: Link \cup {None},        \* the link it will store
             pw: Password \cup {None},      \* the password it carries
             kind: Kind, confirms: BOOLEAN, \* of the link it will store or apply
             to: {"home", "away"}]          \* the address it will mail

Idle == [pc |-> "idle", op |-> "none", user |-> None, link |-> None,
         mint |-> None, pw |-> None, kind |-> "verify", confirms |-> FALSE,
         to |-> "home"]

Exists(u) == users[u].place \in {"home", "away"}

Stored == DOMAIN links

Redeemable(l, kind) ==
  l \in Stored /\ links[l].kind = kind /\ links[l].live /\ ~links[l].lapsed

\* token.New draws a plaintext nobody has: not stored, not about to be.
FreshLink(l) == l \notin minted /\ \A r \in Req : req[r].mint # l

Outstanding(u, kind) == {l \in Stored : links[l].user = u /\ links[l].kind = kind}

ConsumeAll(S) ==
  [l \in Stored |-> IF l \in S THEN [links[l] EXCEPT !.live = FALSE] ELSE links[l]]

\* What settingsFor says of the requirement: the project's setting or, when the
\* settings cannot be read, the permissive default.
Asked == {Required} \cup (IF Outages THEN {FALSE} ELSE {})

\* Every request asks for a verified address.
Strict == Required /\ ~Outages

Finish(r) == req' = [req EXCEPT ![r] = Idle]
Goto(r, pc) == req' = [req EXCEPT ![r].pc = pc]

-----------------------------------------------------------------------------
(* Sign-up.                                                                *)

\* Register, the address is free: InsertUser creates the account.  When
\* verification is asked for the sign-up's own link follows, otherwise a session.
RegisterNew(r, u, p, l, asked) ==
  /\ req[r].pc = "idle"
  /\ asked => FreshLink(l)
  /\ users[u].place = "new"
  /\ \A v \in User : users[v].place # "home"
  /\ users' = [users EXCEPT ![u] = [place |-> "home", verified |-> FALSE,
                                    pw |-> p, by |-> "signup"]]
  /\ req' = [req EXCEPT ![r] =
       [Idle EXCEPT !.pc = IF asked THEN "invalidate" ELSE "start",
                    !.op = "register", !.user = u,
                    !.mint = IF asked THEN l ELSE None, !.confirms = TRUE]]
  /\ UNCHANGED <<links, signedIn, mailed, minted, claimed, proofs, seen>>

\* Register, the address is taken: when verification is asked for the sign-up
\* goes on to replaceUnverified; otherwise the answer is 409.
RegisterTaken(r, p, l) ==
  /\ req[r].pc = "idle"
  /\ TRUE \in Asked
  /\ FreshLink(l)
  /\ \E v \in User : users[v].place = "home"
  /\ req' = [req EXCEPT ![r] =
       [Idle EXCEPT !.pc = "replace", !.op = "register", !.pw = p,
                    !.mint = l, !.confirms = TRUE]]
  /\ UNCHANGED <<users, links, signedIn, mailed, minted, claimed, proofs, seen>>

\* Variant: ReplaceUnverified without `email_verified = false`.
ReplaceableEvenIfVerified(u) == users[u].place = "home"

\* The WHERE clause of ReplaceUnverified.
Replaceable(u) == users[u].place = "home" /\ ~users[u].verified

\* replaceUnverified: the newest sign-up's password wins.
ReplaceUnverified(r, u) ==
  /\ req[r].pc = "replace"
  /\ Replaceable(u)
  /\ users' = [users EXCEPT ![u].pw = req[r].pw, ![u].by = "signup"]
  /\ req' = [req EXCEPT ![r].pc = "end", ![r].user = u]
  /\ UNCHANGED <<links, signedIn, mailed, minted, claimed, proofs, seen>>

\* No row matches, or the resend budget of the address is spent.
ReplaceNothing(r) ==
  /\ req[r].pc = "replace"
  /\ Finish(r)
  /\ UNCHANGED <<users, links, signedIn, mailed, minted, claimed, proofs, seen>>

\* RevokeUserRefreshTokens, after a replaced sign-up and after a reset.
EndSessions(r) ==
  /\ req[r].pc = "end"
  /\ signedIn' = signedIn \ {req[r].user}
  /\ IF req[r].op = "register" THEN Goto(r, "invalidate") ELSE Finish(r)
  /\ UNCHANGED <<users, links, mailed, minted, claimed, proofs, seen>>

\* The revocation fails: a sign-up logs it and mails its link all the same, a
\* reset answers 500.
EndSessionsFails(r) ==
  /\ req[r].pc = "end"
  /\ IF req[r].op = "register" THEN Goto(r, "invalidate") ELSE Finish(r)
  /\ UNCHANGED <<users, links, signedIn, mailed, minted, claimed, proofs, seen>>

-----------------------------------------------------------------------------
(* Issuing a link.                                                         *)

\* ResendVerification: the account is read, and a verified one gets no link.
Resend(r, u, l) ==
  /\ req[r].pc = "idle"
  /\ FreshLink(l)
  /\ users[u].place = "home"
  /\ ~users[u].verified
  /\ req' = [req EXCEPT ![r] =
       [Idle EXCEPT !.pc = "invalidate", !.op = "resend", !.user = u, !.mint = l]]
  /\ UNCHANGED <<users, links, signedIn, mailed, minted, claimed, proofs, seen>>

\* ForgotPassword: the link goes to the address the account was found by.
Forgot(r, u, l) ==
  /\ req[r].pc = "idle"
  /\ FreshLink(l)
  /\ Exists(u)
  /\ req' = [req EXCEPT ![r] =
       [Idle EXCEPT !.pc = "invalidate", !.op = "forgot", !.user = u, !.mint = l,
                    !.kind = "reset", !.to = users[u].place]]
  /\ UNCHANGED <<users, links, signedIn, mailed, minted, claimed, proofs, seen>>

\* IssueToken, first statement: the outstanding links of the kind are consumed.
IssueInvalidate(r) ==
  /\ req[r].pc = "invalidate"
  /\ links' = ConsumeAll(Outstanding(req[r].user, req[r].kind))
  /\ Goto(r, "insert")
  /\ UNCHANGED <<users, signedIn, mailed, minted, claimed, proofs, seen>>

MintedRow(r) ==
  [kind |-> req[r].kind, user |-> req[r].user,
   confirms |-> req[r].kind = "verify" /\ req[r].confirms,
   live |-> TRUE, lapsed |-> FALSE]

\* IssueToken, second statement.
IssueInsert(r) ==
  /\ req[r].pc = "insert"
  /\ Exists(req[r].user)
  /\ links' = [l \in Stored \cup {req[r].mint} |->
                 IF l = req[r].mint THEN MintedRow(r) ELSE links[l]]
  /\ minted' = minted \cup {req[r].mint}
  /\ Goto(r, "mail")
  /\ UNCHANGED <<users, signedIn, mailed, claimed, proofs, seen>>

\* The foreign key refuses a link of a deleted account; the failure is logged.
IssueRefused(r) ==
  /\ req[r].pc = "insert"
  /\ ~Exists(req[r].user)
  /\ Finish(r)
  /\ UNCHANGED <<users, links, signedIn, mailed, minted, claimed, proofs, seen>>

\* sendVerification, mailPasswordReset: the mail is delivered.
Mail(r) ==
  /\ req[r].pc = "mail"
  /\ mailed' = [mailed EXCEPT ![req[r].mint] = req[r].to]
  /\ Finish(r)
  /\ UNCHANGED <<users, links, signedIn, minted, claimed, proofs, seen>>

\* The relay refuses or loses the mail; the handler only logs it.
MailLost(r) ==
  /\ req[r].pc = "mail"
  /\ Finish(r)
  /\ UNCHANGED <<users, links, signedIn, mailed, minted, claimed, proofs, seen>>

-----------------------------------------------------------------------------
(* Redeeming a link.                                                       *)

\* VerifyEmail: the lookup half of redeemVerification.
VerifyEmail(r, k, l) ==
  /\ req[r].pc = "idle"
  /\ mailed[k] # "no"
  /\ Redeemable(k, "verify")
  /\ FreshLink(l)
  /\ req' = [req EXCEPT ![r] =
       [Idle EXCEPT !.pc = "claim", !.op = "verify", !.user = links[k].user,
                    !.link = k, !.mint = l, !.confirms = links[k].confirms]]
  /\ UNCHANGED <<users, links, signedIn, mailed, minted, claimed, proofs, seen>>

\* ResetPassword: the peek, before the new password is hashed.
ResetPassword(r, k, p) ==
  /\ req[r].pc = "idle"
  /\ mailed[k] # "no"
  /\ Redeemable(k, "reset")
  /\ req' = [req EXCEPT ![r] =
       [Idle EXCEPT !.pc = "lookup", !.op = "reset", !.user = links[k].user,
                    !.link = k, !.pw = p, !.kind = "reset"]]
  /\ UNCHANGED <<users, links, signedIn, mailed, minted, claimed, proofs, seen>>

\* The lookup of redeem, once the hash is there.
Lookup(r) ==
  /\ req[r].pc = "lookup"
  /\ IF Redeemable(req[r].link, "reset") THEN Goto(r, "claim") ELSE Finish(r)
  /\ UNCHANGED <<users, links, signedIn, mailed, minted, claimed, proofs, seen>>

\* Variant: the consuming UPDATE without `consumed_at IS NULL`.
ClaimableTwice(l) == l \in Stored

\* The WHERE clause of ClaimToken: by row id, whatever the expiry is by now.
Claimable(l) == l \in Stored /\ links[l].live

\* ClaimToken.
Claim(r) ==
  /\ req[r].pc = "claim"
  /\ Claimable(req[r].link)
  /\ links' = ConsumeAll({req[r].link})
  /\ claimed' = [claimed EXCEPT ![req[r].link] = @ + 1]
  /\ Goto(r, IF req[r].op = "verify" THEN "mark" ELSE "set")
  /\ UNCHANGED <<users, signedIn, mailed, minted, proofs, seen>>

\* Another request consumed the link first.
ClaimLost(r) ==
  /\ req[r].pc = "claim"
  /\ ~Claimable(req[r].link)
  /\ Finish(r)
  /\ UNCHANGED <<users, links, signedIn, mailed, minted, claimed, proofs, seen>>

\* Variant: the stored password is kept whatever the link proves.
VerifiedRowKept(u, confirms) == [users[u] EXCEPT !.verified = TRUE]

VerifiedRow(u, confirms) ==
  IF confirms THEN [users[u] EXCEPT !.verified = TRUE]
              ELSE [users[u] EXCEPT !.verified = TRUE, !.pw = Marker, !.by = "marker"]

\* Variant: the handler answers without mailing the reset link.
AfterMarkAnswers(r) == Idle

\* What VerifyEmail still has to do: a reset link, to the address the UPDATE
\* returned, unless the link confirmed the password.
AfterMark(r) ==
  IF req[r].confirms THEN Idle
  ELSE [req[r] EXCEPT !.pc = "invalidate", !.kind = "reset",
                      !.to = users[req[r].user].place]

\* MarkVerified, one transaction: the proof, the password it did not prove, and
\* every session of the account.
MarkVerified(r) ==
  /\ req[r].pc = "mark"
  /\ Exists(req[r].user)
  /\ users' = [users EXCEPT ![req[r].user] = VerifiedRow(req[r].user, req[r].confirms)]
  /\ signedIn' = signedIn \ {req[r].user}
  /\ proofs' = [proofs EXCEPT ![req[r].user] = @ \cup {req[r].confirms}]
  /\ req' = [req EXCEPT ![r] = AfterMark(r)]
  /\ UNCHANGED <<links, mailed, minted, claimed, seen>>

MarkNothing(r) ==
  /\ req[r].pc = "mark"
  /\ ~Exists(req[r].user)
  /\ Finish(r)
  /\ UNCHANGED <<users, links, signedIn, mailed, minted, claimed, proofs, seen>>

\* SetPassword: an UPDATE by id, which may match no row.
SetPassword(r) ==
  /\ req[r].pc = "set"
  /\ users' = IF Exists(req[r].user)
                THEN [users EXCEPT ![req[r].user].pw = req[r].pw,
                                   ![req[r].user].by = "reset"]
                ELSE users
  /\ Goto(r, "end")
  /\ UNCHANGED <<links, signedIn, mailed, minted, claimed, proofs, seen>>

-----------------------------------------------------------------------------
(* What else touches the account.                                          *)

\* Variant: the address is not asked for.
AddressNotAsked(u) == TRUE

AddressAccepted(u) == users[u].verified \/ FALSE \in Asked

\* exchangePassword: the account is read and the password checked.
SignIn(r, u, p) ==
  /\ req[r].pc = "idle"
  /\ Exists(u)
  /\ users[u].pw = p
  /\ AddressAccepted(u)
  /\ req' = [req EXCEPT ![r] = [Idle EXCEPT !.pc = "start", !.op = "signIn", !.user = u]]
  /\ UNCHANGED <<users, links, signedIn, mailed, minted, claimed, proofs, seen>>

\* startSession stores a refresh token; its foreign key needs the account.
StartSession(r) ==
  /\ req[r].pc = "start"
  /\ Exists(req[r].user)
  /\ signedIn' = signedIn \cup {req[r].user}
  /\ seen' = seen \cup {req[r].user}
  /\ Finish(r)
  /\ UNCHANGED <<users, links, mailed, minted, claimed, proofs>>

StartRefused(r) ==
  /\ req[r].pc = "start"
  /\ ~Exists(req[r].user)
  /\ Finish(r)
  /\ UNCHANGED <<users, links, signedIn, mailed, minted, claimed, proofs, seen>>

\* ChangePassword of a signed-in account, one transaction: the password, every
\* session and every reset link.  A new session follows.
ChangePassword(r, u, p) ==
  /\ req[r].pc = "idle"
  /\ u \in seen
  /\ Exists(u)
  /\ users' = [users EXCEPT ![u].pw = p, ![u].by = "change"]
  /\ links' = ConsumeAll(Outstanding(u, "reset"))
  /\ signedIn' = signedIn \ {u}
  /\ req' = [req EXCEPT ![r] = [Idle EXCEPT !.pc = "start", !.op = "change", !.user = u]]
  /\ UNCHANGED <<mailed, minted, claimed, proofs, seen>>

\* ConfirmEmailChange moves a proven account to another address and consumes
\* every link mailed to this one.
MoveAddress(u) ==
  /\ u \in seen
  /\ users[u].place = "home"
  /\ users[u].verified
  /\ users' = [users EXCEPT ![u].place = "away"]
  /\ links' = ConsumeAll(Outstanding(u, "reset") \cup Outstanding(u, "verify"))
  /\ UNCHANGED <<signedIn, req, mailed, minted, claimed, proofs, seen>>

LinksWithout(u) == [l \in {k \in Stored : links[k].user # u} |-> links[l]]

\* DeleteUser, and the takeover of an unproven account by a provider sign-in.
DeleteUser(u) ==
  /\ Exists(u)
  /\ users' = [users EXCEPT ![u].place = "gone"]
  /\ links' = LinksWithout(u)
  /\ signedIn' = signedIn \ {u}
  /\ UNCHANGED <<req, mailed, minted, claimed, proofs, seen>>

\* A link reaches its expires_at.  A request is short against a link's lifetime,
\* so a link does not lapse before the request that stored it has mailed it.
Lapse(l) ==
  /\ l \in Stored
  /\ ~links[l].lapsed
  /\ \A r \in Req : req[r].mint # l
  /\ links' = [links EXCEPT ![l].lapsed = TRUE]
  /\ UNCHANGED <<users, signedIn, req, mailed, minted, claimed, proofs, seen>>

\* The server stops, the client goes away or a statement fails.
Abort(r) ==
  /\ req[r].pc # "idle"
  /\ Finish(r)
  /\ UNCHANGED <<users, links, signedIn, mailed, minted, claimed, proofs, seen>>

-----------------------------------------------------------------------------
(* The specification.                                                      *)

Init ==
  /\ users = [u \in User |-> [place |-> "new", verified |-> FALSE,
                              pw |-> Marker, by |-> "marker"]]
  /\ links = [l \in {} |-> None]
  /\ signedIn = {}
  /\ req = [r \in Req |-> Idle]
  /\ mailed = [l \in Link |-> "no"]
  /\ minted = {}
  /\ claimed = [l \in Link |-> 0]
  /\ proofs = [u \in User |-> {}]
  /\ seen = {}

\* The steps of a handler that has been called.
Step(r) ==
  \/ \E u \in User : ReplaceUnverified(r, u)
  \/ ReplaceNothing(r)
  \/ EndSessions(r)
  \/ EndSessionsFails(r)
  \/ IssueInvalidate(r)
  \/ IssueInsert(r)
  \/ IssueRefused(r)
  \/ Mail(r)
  \/ Lookup(r)
  \/ Claim(r)
  \/ ClaimLost(r)
  \/ MarkVerified(r)
  \/ MarkNothing(r)
  \/ SetPassword(r)
  \/ StartSession(r)
  \/ StartRefused(r)

\* What clients call, and what happens to the account besides.
Call(r) ==
  \/ \E u \in User, p \in Password, l \in Link, asked \in Asked :
       RegisterNew(r, u, p, l, asked)
  \/ \E p \in Password, l \in Link : RegisterTaken(r, p, l)
  \/ \E u \in User, l \in Link : Resend(r, u, l)
  \/ \E u \in User, l \in Link : Forgot(r, u, l)
  \/ \E k, l \in Link : VerifyEmail(r, k, l)
  \/ \E k \in Link, p \in Password : ResetPassword(r, k, p)
  \/ \E u \in User, p \in Password : SignIn(r, u, p)
  \/ \E u \in User, p \in Password : ChangePassword(r, u, p)

World ==
  \/ \E u \in User : MoveAddress(u)
  \/ \E u \in User : DeleteUser(u)
  \/ \E l \in Link : Lapse(l)

Faults == \E r \in Req : Abort(r) \/ MailLost(r)

Smooth == (\E r \in Req : Step(r) \/ Call(r)) \/ World

Next == Smooth \/ Faults

Spec == Init /\ [][Next]_vars

\* Without faults every handler that has been called runs to its end.
SmoothSpec == Init /\ [][Smooth]_vars /\ \A r \in Req : WF_vars(Step(r))

-----------------------------------------------------------------------------
(* Properties.                                                             *)

\* The rows, the request records and the history keep their types.
TypeOK ==
  /\ users \in [User -> Account]
  /\ Stored \subseteq Link
  /\ \A l \in Stored : links[l] \in LinkRow
  /\ signedIn \subseteq User
  /\ req \in [Req -> ReqState]
  /\ mailed \in [Link -> {"no", "home", "away"}]
  /\ minted \subseteq Link
  /\ claimed \in [Link -> Nat]
  /\ proofs \in [User -> SUBSET BOOLEAN]
  /\ seen \subseteq User

\* However many requests look a link up at once, ClaimToken lets one of them act
\* on it: a link verifies once or resets once, before and after it is invalidated.
ClaimedOnce == \A l \in Link : claimed[l] <= 1

\* A verified account that still has a password from a sign-up was verified by
\* links of sign-ups only (VerifyEmail): one redeemed resend link, at whatever
\* point of however many sign-ups, leaves no password its sender did not prove.
KeptPasswordWasConfirmed ==
  \A u \in User :
    Exists(u) /\ users[u].verified /\ users[u].by = "signup" => proofs[u] = {TRUE}

\* With verification required, and the settings readable, nobody holds a session of an account whose address
\* was not proved by a redeemed link, replaced sign-ups and resets included.
SessionNeedsProof ==
  Strict => \A u \in signedIn : Exists(u) /\ proofs[u] # {}

\* No link row survives its account, and no issue that was under way when the
\* account was deleted stores one afterwards.
NoLinkOfTheDead == \A l \in Stored : Exists(links[l].user)

\* The password of a verified account changes only by a link claimed for that very
\* account or by a caller who had signed in to it: never by a sign-up, not even
\* one that found the address unverified and is still under way.
VerifiedPasswordIsSafe ==
  [][\A u \in User :
       Exists(u) /\ users[u].verified /\ users'[u].pw # users[u].pw =>
         \/ u \in seen
         \/ \E r \in Req : /\ req[r].pc \in {"mark", "set"}
                           /\ req[r].user = u
                           /\ claimed[req[r].link] = 1]_vars

\* An owner whose password was disabled by a link that proves only the address is
\* mailed a reset link that is live when it arrives, unless a password was set or the
\* account moved or was deleted in the meantime.
OwnerGetsResetLink ==
  \A u \in User :
    Exists(u) /\ users[u].by = "marker" ~>
      \/ ~Exists(u)
      \/ users[u].by # "marker"
      \/ users[u].place = "away"
      \/ \E l \in Outstanding(u, "reset") : links[l].live /\ mailed[l] # "no"

-----------------------------------------------------------------------------
(* The inductive invariant.                                                *)

\* A request record is complete for the step it is about to take: the link it will
\* store is still unknown, the link it acts on is its own claim, and a session it
\* will start is of an account with a proved address where that is required.
ReqOK(q) ==
  /\ q.pc \notin {"idle", "replace"} => q.user \in User
  /\ q.pc \in {"replace", "invalidate", "insert", "mail", "mark"} => q.mint \in Link
  /\ q.pc = "end" /\ q.op = "register" => q.mint \in Link
  /\ q.pc = "claim" /\ q.op = "verify" => q.mint \in Link
  /\ q.pc = "claim" /\ q.op # "verify" => q.pw \in Password
  /\ q.pc \in {"replace", "lookup", "set"} => q.pw \in Password
  /\ q.pc \in {"lookup", "claim", "mark", "set"} => q.link \in Link
  /\ q.pc \in {"lookup", "set"} => q.op = "reset"
  /\ q.pc = "claim" => q.op \in {"verify", "reset"}
  /\ q.mint # None /\ q.pc # "mail" => q.mint \notin minted
  /\ q.pc \in {"mark", "set"} => claimed[q.link] = 1
  /\ Strict /\ q.pc = "start" => proofs[q.user] # {}

RequestsOK == \A r \in Req : ReqOK(req[r])

\* No two requests are about to store the same link.
Apart(q, s) == q.mint # None => q.mint # s.mint
RequestsApart == \A r, s \in Req : r # s => Apart(req[r], req[s])

\* A live link is unclaimed, and so is one not stored yet.
LinksOK ==
  /\ Stored \subseteq minted
  /\ \A l \in Link : claimed[l] <= 1
  /\ \A l \in Link : l \notin minted => claimed[l] = 0
  /\ \A l \in Stored : links[l].live => claimed[l] = 0
  /\ NoLinkOfTheDead

\* An account is verified exactly when a link was applied to it; a sign-up's
\* password survived only confirming ones.
AccountOK(u) ==
  /\ users[u].place = "new" => ~users[u].verified
  /\ users[u].verified <=> proofs[u] # {}
  /\ users[u].verified /\ users[u].by = "signup" => proofs[u] = {TRUE}
  /\ u \in signedIn => Exists(u)
  /\ Strict /\ u \in signedIn \cup seen => proofs[u] # {}

AccountsOK == \A u \in User : AccountOK(u)

IInv == TypeOK /\ RequestsOK /\ RequestsApart /\ LinksOK /\ AccountsOK
=============================================================================
