----------------------------- MODULE Identities -----------------------------
(***************************************************************************)
(* Which account a proof of identity reaches, and who can sign in to it.   *)
(*                                                                         *)
(* An account has its own address and may have identities: provider        *)
(* subjects and further (linked) addresses.  Signing in through a provider *)
(* or an emailed code, linking, unlinking and confirming an address change *)
(* are transactions that first read and lock rows and then write, so that  *)
(* two of them interleave between the two halves; everything else is one   *)
(* statement.  Both engines run them READ COMMITTED: a row that appears     *)
(* after the read is not seen, and only a unique key stops the writer.     *)
(*                                                                         *)
(* People are part of the model: a person owns mailboxes and provider      *)
(* accounts, knows passwords and is given sessions.  The project requires  *)
(* verified addresses.  How links are issued and redeemed is EmailLinks;   *)
(* here a person opens only the links of sign-ups they made or asked for.  *)
(***************************************************************************)
EXTENDS Naturals, FiniteSets

CONSTANTS
  Person,    \* people who use the project
  User,      \* account ids, never used twice
  Address,   \* addresses as written; several may differ in case only
  Key,       \* mailboxes: what AddressKey makes of an address
  KeyOf,     \* KeyOf[a]: the mailbox of address a
  Subject,   \* provider accounts (provider and subject)
  OwnerOf,   \* OwnerOf[x]: the person who owns a mailbox or provider account
  Req,       \* transactions open at the same time
  None

\* An identity: a provider account, or a mailbox linked under the provider 'email'.
Method == Subject \cup Key

ASSUME IdentitiesAssumption ==
  /\ KeyOf \in [Address -> Key]
  /\ OwnerOf \in [Method -> Person]
  /\ Subject \cap Key = {}
  /\ None \notin Person \cup User \cup Address \cup Method

VARIABLES
  users,  \* users[u]: the account row
  ident,  \* ident[m]: the account identity m is on, a unique key, or None
  holds,  \* holds[u]: who was given a session of account u
  tx      \* tx[r]: what transaction r read and is about to write

vars == <<users, ident, holds, tx>>

-----------------------------------------------------------------------------
(* Rows and transactions.                                                  *)

\* pw: the person who knows the password; None when no password matches.
Row == [place: {"new", "here", "gone"}, email: Address \cup {None},
        proven: BOOLEAN, enabled: BOOLEAN, guest: BOOLEAN, pw: Person \cup {None}]

NoRow(place) == [place |-> place, email |-> None, proven |-> FALSE,
                 enabled |-> TRUE, guest |-> FALSE, pw |-> None]

\* user: the account to write to, None when one is to be created;
\* doomed: the unproven accounts the write deletes.
Tx == [op: {"none", "signin", "link", "unlink", "move"},
       who: Person \cup {None}, user: User \cup {None},
       method: Method \cup {None}, email: Address \cup {None},
       doomed: SUBSET User]

Closed == [op |-> "none", who |-> None, user |-> None, method |-> None,
           email |-> None, doomed |-> {}]

Here(u) == users[u].place = "here"

\* The accounts whose own address is in mailbox k, whatever its case.
Answers(k) == {u \in User : /\ Here(u)
                            /\ users[u].email # None
                            /\ KeyOf[users[u].email] = k}

RowsOfTarget(r) == {tx[r].user} \ {None}

\* The rows transaction r holds FOR UPDATE.
Rows(r) == tx[r].doomed \cup ({tx[r].user} \ {None})

\* No transaction holds a row of S.
Unlocked(S) == \A q \in Req : Rows(q) \cap S = {}

\* Nobody but the accounts of D has exactly the address e (users.email is unique).
EmailFree(e, D) == \A v \in User \ D : Here(v) => users[v].email # e

Deleted(D) == [v \in User |-> IF v \in D THEN NoRow("gone") ELSE users[v]]

\* identities.user_id is ON DELETE CASCADE.
Cascade(D) == [m \in Method |-> IF ident[m] \in D THEN None ELSE ident[m]]

Forget(D) == [v \in User |-> IF v \in D THEN {} ELSE holds[v]]

Methods(u) == {m \in Method : ident[m] = u}

Close(r) == tx' = [tx EXCEPT ![r] = Closed]

-----------------------------------------------------------------------------
(* Password accounts.                                                      *)

\* Register of an address that is neither taken nor linked; the address is not
\* verified, so no session is given.
RegisterNew(p, e, u) ==
  /\ users[u].place = "new"
  /\ ident[KeyOf[e]] = None
  /\ EmailFree(e, {})
  /\ users' = [users EXCEPT ![u] =
       [NoRow("here") EXCEPT !.email = e, !.pw = p]]
  /\ UNCHANGED <<ident, holds, tx>>

\* Register of an address whose account nobody verified.
RegisterAgain(p, e, u) ==
  /\ Here(u)
  /\ users[u].email = e
  /\ ~users[u].proven
  /\ Unlocked({u})
  /\ users' = [users EXCEPT ![u].pw = p]
  /\ UNCHANGED <<ident, holds, tx>>

\* The password MarkVerified leaves: the mailbox owner's own sign-up link keeps
\* it, a resent link disables a password that is not theirs.
KeptPassword(u, p) == IF users[u].pw = p THEN p ELSE None

\* The mailbox owner redeems a verification link.
MarkVerified(u) ==
  /\ Here(u)
  /\ users[u].email # None
  /\ ~users[u].proven
  /\ Unlocked({u})
  /\ LET p == OwnerOf[KeyOf[users[u].email]]
     IN  users' = [users EXCEPT ![u].proven = TRUE, ![u].pw = KeptPassword(u, p)]
  /\ UNCHANGED <<ident, holds, tx>>

\* The mailbox owner redeems a reset link.
ResetPassword(u) ==
  /\ Here(u)
  /\ users[u].email # None
  /\ Unlocked({u})
  /\ users' = [users EXCEPT ![u].pw = OwnerOf[KeyOf[users[u].email]]]
  /\ UNCHANGED <<ident, holds, tx>>

\* Login with a password: the address must be verified.
PasswordSignIn(p, u) ==
  /\ Here(u)
  /\ users[u].pw = p
  /\ users[u].enabled
  /\ users[u].proven
  /\ holds' = [holds EXCEPT ![u] = @ \cup {p}]
  /\ UNCHANGED <<users, ident, tx>>

\* A signed-in account holder sets a new password; a guest has no address yet.
ChangePassword(p, u) ==
  /\ p \in holds[u]
  /\ Here(u)
  /\ ~users[u].guest
  /\ Unlocked({u})
  /\ users' = [users EXCEPT ![u].pw = p]
  /\ UNCHANGED <<ident, holds, tx>>

CreateGuest(p, u) ==
  /\ users[u].place = "new"
  /\ users' = [users EXCEPT ![u] = [NoRow("here") EXCEPT !.guest = TRUE]]
  /\ holds' = [holds EXCEPT ![u] = {p}]
  /\ UNCHANGED <<ident, tx>>

\* A user manager of the project deletes the account.
DeleteUser(u) ==
  /\ Here(u)
  /\ Unlocked({u})
  /\ users' = Deleted({u})
  /\ ident' = Cascade({u})
  /\ holds' = Forget({u})
  /\ UNCHANGED tx

\* The project's operators disable and enable accounts in the database.
SetEnabled(u) ==
  /\ Here(u)
  /\ Unlocked({u})
  /\ users' = [users EXCEPT ![u].enabled = ~@]
  /\ UNCHANGED <<ident, holds, tx>>

-----------------------------------------------------------------------------
(* Signing in with a proven address e, and through provider account m when m *)
(* is not None.                                                            *)

\* The provider account signed in before: its identity decides.
SignInKnown(p, m) ==
  /\ OwnerOf[m] = p
  /\ ident[m] # None
  /\ users[ident[m]].enabled
  /\ holds' = [holds EXCEPT ![ident[m]] = @ \cup {p}]
  /\ UNCHANGED <<users, ident, tx>>

\* Another account than u, to which the mailbox of e is linked, proved it.
ProvenElsewhere(e, u) == \E v \in Answers(KeyOf[e]) \ {u} : users[v].proven

\* The exact address, else every account that differs in case only; more than
\* one is ErrAmbiguousEmail.
PickAddressMatch(e) ==
  LET all   == Answers(KeyOf[e])
      exact == {u \in all : users[u].email = e}
  IN  IF exact # {} THEN exact ELSE all

\* The accounts a proven address e may reach: the one it is linked to, unless
\* another account proved it, else the match.
AccountForAddress(e) ==
  LET linked == ident[KeyOf[e]]
  IN  IF linked = None THEN PickAddressMatch(e)
      ELSE IF ProvenElsewhere(e, linked) THEN User ELSE {linked}

VerifiedAlways(e, u) == TRUE

\* A linked address was proven when it was linked.
Verified(e, u) == ident[KeyOf[e]] = u \/ users[u].proven

\* What signs p in: the emailed code (m = None), or an unknown provider account.
Proves(p, m, e) ==
  /\ OwnerOf[KeyOf[e]] = p
  /\ m # None => OwnerOf[m] = p /\ ident[m] = None

Opened(op, p, u, m, e, D) ==
  [op |-> op, who |-> p, user |-> u, method |-> m, email |-> e, doomed |-> D]

\* The address reaches the verified account u, which is joined.
SignInJoins(r, p, m, e, u) ==
  /\ tx[r] = Closed
  /\ Proves(p, m, e)
  /\ AccountForAddress(e) = {u}
  /\ users[u].enabled
  /\ Verified(e, u)
  /\ Unlocked({u})
  /\ tx' = [tx EXCEPT ![r] = Opened("signin", p, u, m, e, {})]
  /\ UNCHANGED <<users, ident, holds>>

\* The address reaches the unverified account u, which is taken over.
SignInTakesOver(r, p, m, e, u) ==
  /\ tx[r] = Closed
  /\ Proves(p, m, e)
  /\ AccountForAddress(e) = {u}
  /\ users[u].enabled
  /\ ~Verified(e, u)
  /\ Unlocked({u})
  /\ tx' = [tx EXCEPT ![r] = Opened("signin", p, None, m, e, {u})]
  /\ UNCHANGED <<users, ident, holds>>

\* The address reaches no account and sign-ups are open.
SignInCreates(r, p, m, e) ==
  /\ tx[r] = Closed
  /\ Proves(p, m, e)
  /\ AccountForAddress(e) = {}
  /\ tx' = [tx EXCEPT ![r] = Opened("signin", p, None, m, e, {})]
  /\ UNCHANGED <<users, ident, holds>>

\* identities after the INSERT of tx[r].method for u, if there is one.
WithIdentity(r, u, rows) ==
  IF tx[r].method = None THEN rows ELSE [rows EXCEPT ![tx[r].method] = u]

\* The unique key (provider, subject) lets the INSERT through.
IdentityFree(r, rows) == tx[r].method # None => rows[tx[r].method] = None

\* Commit of a joining sign-in.
SignInCommits(r) ==
  /\ tx[r].op = "signin"
  /\ tx[r].user # None
  /\ IdentityFree(r, ident)
  /\ ident' = WithIdentity(r, tx[r].user, ident)
  /\ holds' = [holds EXCEPT ![tx[r].user] = @ \cup {tx[r].who}]
  /\ Close(r)
  /\ UNCHANGED users

\* Commit of a sign-in that creates account u, after deleting the one it takes
\* over: a new id, so nothing issued to the old account reaches the new one.
SignInCommitsNew(r, u) ==
  /\ tx[r].op = "signin"
  /\ tx[r].user = None
  /\ users[u].place = "new"
  /\ EmailFree(tx[r].email, tx[r].doomed)
  /\ IdentityFree(r, Cascade(tx[r].doomed))
  /\ users' = [Deleted(tx[r].doomed) EXCEPT ![u] =
       [NoRow("here") EXCEPT !.email = tx[r].email, !.proven = TRUE]]
  /\ ident' = WithIdentity(r, u, Cascade(tx[r].doomed))
  /\ holds' = [Forget(tx[r].doomed) EXCEPT ![u] = {tx[r].who}]
  /\ Close(r)

-----------------------------------------------------------------------------
(* Linking, unlinking and moving to another address.                       *)

\* linkTarget: enabled, with a proven address or none at all (a guest).
Linkable(u) == Here(u) /\ users[u].enabled /\ (users[u].proven \/ users[u].guest)

\* claimAddress: nobody proven or disabled, nor u itself, answers to mailbox k;
\* the unproven accounts that do are deleted.
Claimable(u, k) ==
  /\ u \notin Answers(k)
  /\ \A v \in Answers(k) : users[v].enabled /\ ~users[v].proven

\* addressLinkedElsewhere and releaseOwnLinkedAddress: no other account linked k.
NotLinkedElsewhere(u, k) == ident[k] \in {None, u}

\* A link of provider account m, whose address is e, or of the mailbox m itself.
LinkProves(p, m, e) ==
  /\ OwnerOf[m] = p
  /\ OwnerOf[KeyOf[e]] = p
  /\ m \in Key => m = KeyOf[e]

LinkBegins(r, p, u, m, e) ==
  /\ tx[r] = Closed
  /\ p \in holds[u]
  /\ LinkProves(p, m, e)
  /\ Linkable(u)
  /\ ident[m] = None
  /\ (users[u].guest /\ m \in Subject) => NotLinkedElsewhere(u, KeyOf[e])
  /\ LET claims == m \in Key \/ users[u].guest
         D      == IF claims THEN Answers(KeyOf[e]) ELSE {}
     IN  /\ claims => Claimable(u, KeyOf[e])
         /\ Unlocked(D \cup {u})
         /\ tx' = [tx EXCEPT ![r] = Opened("link", p, u, m, e, D)]
  /\ UNCHANGED <<users, ident, holds>>

\* upgradeGuest: a guest takes the address, proven.
Upgraded(r, rows) ==
  [rows EXCEPT ![tx[r].user] =
     [@ EXCEPT !.email = tx[r].email, !.proven = TRUE, !.guest = FALSE]]

LinkCommits(r) ==
  /\ tx[r].op = "link"
  /\ IdentityFree(r, Cascade(tx[r].doomed))
  /\ users[tx[r].user].guest => EmailFree(tx[r].email, tx[r].doomed)
  /\ users' = IF users[tx[r].user].guest THEN Upgraded(r, Deleted(tx[r].doomed))
                                         ELSE Deleted(tx[r].doomed)
  /\ ident' = WithIdentity(r, tx[r].user, Cascade(tx[r].doomed))
  /\ holds' = Forget(tx[r].doomed)
  /\ Close(r)

OtherWayInCountsItself(u, m) == Methods(u) # {} \/ users[u].pw # None

\* Another identity or a password is left without m.
OtherWayIn(u, m) == Methods(u) # {m} \/ users[u].pw # None

UnlinkBegins(r, p, u, m) ==
  /\ tx[r] = Closed
  /\ p \in holds[u]
  /\ Here(u)
  /\ ident[m] = u
  /\ OtherWayIn(u, m)
  /\ Unlocked({u})
  /\ tx' = [tx EXCEPT ![r] = Opened("unlink", p, u, m, None, {})]
  /\ UNCHANGED <<users, ident, holds>>

UnlinkCommits(r) ==
  /\ tx[r].op = "unlink"
  /\ ident' = [ident EXCEPT ![tx[r].method] = IF @ = tx[r].user THEN None ELSE @]
  /\ Close(r)
  /\ UNCHANGED <<users, holds>>

\* The account holder confirms a change to an address of theirs.
MoveBegins(r, p, u, e) ==
  /\ tx[r] = Closed
  /\ p \in holds[u]
  /\ OwnerOf[KeyOf[e]] = p
  /\ Here(u)
  /\ users[u].enabled
  /\ NotLinkedElsewhere(u, KeyOf[e])
  /\ Claimable(u, KeyOf[e])
  /\ Unlocked(Answers(KeyOf[e]) \cup {u})
  /\ tx' = [tx EXCEPT ![r] = Opened("move", p, u, None, e, Answers(KeyOf[e]))]
  /\ UNCHANGED <<users, ident, holds>>

\* The account's own link to the mailbox it moves to is dropped.
MoveCommits(r) ==
  /\ tx[r].op = "move"
  /\ EmailFree(tx[r].email, tx[r].doomed)
  /\ users' = Upgraded(r, Deleted(tx[r].doomed))
  /\ ident' = [Cascade(tx[r].doomed) EXCEPT ![KeyOf[tx[r].email]] =
                 IF @ = tx[r].user THEN None ELSE @]
  /\ holds' = Forget(tx[r].doomed)
  /\ Close(r)

\* A unique key or a foreign key refuses a write, or the request stops.
Rollback(r) ==
  /\ tx[r] # Closed
  /\ Close(r)
  /\ UNCHANGED <<users, ident, holds>>

-----------------------------------------------------------------------------
Init ==
  /\ users = [u \in User |-> NoRow("new")]
  /\ ident = [m \in Method |-> None]
  /\ holds = [u \in User |-> {}]
  /\ tx = [r \in Req |-> Closed]

Next ==
  \/ \E p \in Person, e \in Address, u \in User :
       RegisterNew(p, e, u) \/ RegisterAgain(p, e, u)
  \/ \E u \in User : MarkVerified(u) \/ ResetPassword(u) \/ SetEnabled(u)
                      \/ DeleteUser(u)
  \/ \E p \in Person, u \in User :
       PasswordSignIn(p, u) \/ ChangePassword(p, u) \/ CreateGuest(p, u)
  \/ \E p \in Person, m \in Subject : SignInKnown(p, m)
  \/ \E r \in Req, p \in Person, m \in Subject \cup {None}, e \in Address :
       \/ SignInCreates(r, p, m, e)
       \/ \E u \in User : SignInJoins(r, p, m, e, u) \/ SignInTakesOver(r, p, m, e, u)
  \/ \E r \in Req, p \in Person, u \in User, m \in Method :
       \/ UnlinkBegins(r, p, u, m)
       \/ \E e \in Address : LinkBegins(r, p, u, m, e)
  \/ \E r \in Req, p \in Person, u \in User, e \in Address : MoveBegins(r, p, u, e)
  \/ \E r \in Req : \/ SignInCommits(r) \/ LinkCommits(r) \/ UnlinkCommits(r)
                    \/ MoveCommits(r) \/ Rollback(r)
                    \/ \E u \in User : SignInCommitsNew(r, u)

Spec == Init /\ [][Next]_vars

-----------------------------------------------------------------------------
(* Properties.                                                             *)

\* Every variable keeps its type; an identity is on an account that is there.
TypeOK ==
  /\ users \in [User -> Row]
  /\ ident \in [Method -> User \cup {None}]
  /\ holds \in [User -> SUBSET Person]
  /\ tx \in [Req -> Tx]

\* Person p knows the password of account u, was given a session of it, owns an
\* identity on it or receives its mail.
CanUse(p, u) ==
  \/ users[u].pw = p
  \/ p \in holds[u]
  \/ \E m \in Method : ident[m] = u /\ OwnerOf[m] = p
  \/ users[u].email # None /\ OwnerOf[KeyOf[users[u].email]] = p

\* Somebody proved the account theirs, was given a session of it or linked to it.
InUse(u) ==
  /\ Here(u)
  /\ \/ users[u].proven
     \/ users[u].guest
     \/ holds[u] # {}
     \/ \E m \in Method : ident[m] = u

\* Whoever proves an identity is never given an account somebody else can use:
\* all the ways into an account in use, and everybody who was ever given a session
\* of it, are one person's, however sign-ups with other people's addresses,
\* takeovers, links and address changes interleave.
OnePerson ==
  \A u \in User, p, q \in Person : (InUse(u) /\ CanUse(p, u) /\ CanUse(q, u)) => p = q

\* A takeover, a link or an address change deletes unproven accounts only, even
\* when the owner verifies one at the same time; only a user manager deletes a
\* proven one.
ProvenIsKept ==
  [][\A u \in User : (Here(u) /\ users[u].proven /\ users'[u].place = "gone")
       => DeleteUser(u)]_vars

\* An account that loses an identity to an unlink keeps a password or another
\* identity, also when two unlinks run at once.
UnlinkKeepsAWayIn ==
  [][\A r \in Req, u \in User :
       (UnlinkCommits(r) /\ tx[r].user = u)
         => users[u].pw # None \/ \E m \in Method : ident'[m] = u]_vars

-----------------------------------------------------------------------------
(* The inductive invariant behind them.                                    *)

\* One person uses account u; nobody was given a session of, or linked to, an
\* account that is not there or that nobody proved; a guest has no address.
AccountOK(u) ==
  /\ \A p, q \in Person : (InUse(u) /\ CanUse(p, u) /\ CanUse(q, u)) => p = q
  /\ (~Here(u) \/ (~users[u].proven /\ ~users[u].guest))
       => holds[u] = {} /\ \A m \in Method : ident[m] # u
  /\ users[u].guest => users[u].email = None

\* What transaction t read still holds under its locks.
Sound(t) ==
  /\ t.op = "none" => t = Closed
  /\ t.op # "none" => t.who # None
  /\ t.op \in {"signin", "link", "move"}
       => t.email # None /\ OwnerOf[KeyOf[t.email]] = t.who
  /\ (t.op \in {"signin", "link"} /\ t.method # None) => OwnerOf[t.method] = t.who
  /\ t.op \in {"link", "unlink"} => t.method # None
  /\ t.op \in {"link", "unlink", "move"} => t.user # None
  /\ t.user # None => InUse(t.user) /\ CanUse(t.who, t.user)
  /\ t.user \notin t.doomed
  /\ \A v \in t.doomed : Here(v) /\ ~users[v].proven /\ ~users[v].guest
  /\ t.op = "unlink" => ident[t.method] = t.user /\ OtherWayIn(t.user, t.method)

\* No row is locked by two transactions.
LocksApart == \A q, r \in Req : q # r => Rows(q) \cap Rows(r) = {}

IInv ==
  /\ TypeOK
  /\ \A u \in User : AccountOK(u)
  /\ \A r \in Req : Sound(tx[r])
  /\ LocksApart

=============================================================================
