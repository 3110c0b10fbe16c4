-------------------------- MODULE IdentitiesProofs --------------------------
(* Proofs of the safety properties of Identities, for any people, accounts, *)
(* addresses, provider accounts and transactions.                          *)
EXTENDS Identities, TLAPS

-----------------------------------------------------------------------------
(* What a step leaves alone.                                               *)

\* An account that a step does not touch stays as it should be.
LEMMA SameAccount ==
  ASSUME NEW u \in User, AccountOK(u),
         users'[u] = users[u], holds'[u] = holds[u],
         \A m \in Method : (ident'[m] = u) <=> (ident[m] = u)
  PROVE  AccountOK(u)'
<1> USE DEF Here
<1>1. InUse(u)' <=> InUse(u)
  BY DEF InUse
<1>2. ASSUME NEW p \in Person PROVE CanUse(p, u)' <=> CanUse(p, u)
  BY DEF CanUse
<1> QED
  BY <1>1, <1>2 DEF AccountOK

\* A transaction whose rows a step leaves alone stays sound.
LEMMA Untouched ==
  ASSUME TypeOK, NEW t \in Tx, Sound(t), TypeOK',
         \A u \in t.doomed \cup ({t.user} \ {None}) :
           /\ users'[u] = users[u]
           /\ holds[u] \subseteq holds'[u]
           /\ \A m \in Method : ident[m] = u => ident'[m] = u
  PROVE  Sound(t)'
<1> USE DEF Here
<1>1. ASSUME t.user # None PROVE InUse(t.user)' /\ CanUse(t.who, t.user)'
  <2>1. InUse(t.user) /\ CanUse(t.who, t.user)
    BY <1>1 DEF Sound
  <2>2. InUse(t.user)'
    BY <1>1, <2>1 DEF InUse
  <2>3. CanUse(t.who, t.user)'
    BY <1>1, <2>1 DEF CanUse
  <2> QED
    BY <2>2, <2>3
<1>2. \A v \in t.doomed : Here(v)' /\ ~users'[v].proven /\ ~users'[v].guest
  BY DEF Sound
<1>3. ASSUME t.op = "unlink"
      PROVE  ident'[t.method] = t.user /\ OtherWayIn(t.user, t.method)'
  <2>1. t.user # None /\ t.method # None /\ ident[t.method] = t.user
        /\ OtherWayIn(t.user, t.method)
    BY <1>3 DEF Sound
  <2>2. t.user \in User /\ t.method \in Method
    BY <2>1 DEF Tx
  <2>3. ident'[t.method] = t.user
    BY <2>1, <2>2
  <2>4. CASE users[t.user].pw # None
    BY <2>1, <2>3, <2>4 DEF OtherWayIn
  <2>5. CASE users[t.user].pw = None
    <3>1. PICK m \in Method : ident[m] = t.user /\ m # t.method
      BY <2>1, <2>2, <2>5 DEF OtherWayIn, Methods
    <3>2. ident'[m] = t.user
      BY <2>1, <3>1
    <3> QED
      BY <2>3, <3>1, <3>2 DEF OtherWayIn, Methods
  <2> QED
    BY <2>3, <2>4, <2>5
<1> QED
  BY <1>1, <1>2, <1>3 DEF Sound

\* A closed transaction is sound.
LEMMA ClosedIsSound == Closed \in Tx /\ Sound(Closed) /\ Sound(Closed)'
<1>1. Closed \in Tx
  BY DEF Closed, Tx
<1> QED
  BY <1>1 DEF Closed, Sound

\* A transaction locks only accounts that are there.
LEMMA RowsAreHere ==
  ASSUME TypeOK, NEW r \in Req, Sound(tx[r]), NEW u \in Rows(r)
  PROVE  u \in User /\ Here(u)
<1>1. tx[r] \in Tx
  BY DEF TypeOK
<1>2. CASE u \in tx[r].doomed
  BY <1>1, <1>2 DEF Sound, Tx
<1>3. CASE u = tx[r].user /\ u # None
  BY <1>1, <1>3 DEF Sound, Tx, InUse
<1> QED
  BY <1>2, <1>3 DEF Rows

\* A step that writes the accounts of D and otherwise closes transactions keeps
\* the invariant when it leaves those accounts right and no other transaction
\* finds its rows changed.
LEMMA WriteStep ==
  ASSUME IInv, TypeOK', NEW D \in SUBSET User,
         \A v \in D : AccountOK(v)',
         \A v \in User \ D :
           /\ users'[v] = users[v]
           /\ holds'[v] = holds[v]
           /\ \A m \in Method : (ident'[m] = v) <=> (ident[m] = v),
         \A q \in Req :
           \/ tx'[q] = Closed
           \/ /\ tx'[q] = tx[q]
              /\ \A u \in D \cap Rows(q) :
                   /\ users'[u] = users[u]
                   /\ holds[u] \subseteq holds'[u]
                   /\ \A m \in Method : ident[m] = u => ident'[m] = u
  PROVE  IInv'
<1>1. ASSUME NEW v \in User PROVE AccountOK(v)'
  <2>1. CASE v \in D
    BY <2>1
  <2>2. CASE v \notin D
    BY <2>2, SameAccount DEF IInv
  <2> QED
    BY <2>1, <2>2
<1>2. ASSUME NEW q \in Req PROVE Sound(tx[q])'
  <2>1. CASE tx'[q] = Closed
    BY <2>1, ClosedIsSound
  <2>2. CASE tx'[q] = tx[q] /\ tx'[q] # Closed
    <3>1. PICK t \in Tx : t = tx[q]
      BY DEF IInv, TypeOK
    <3>2. Sound(t)
      BY <3>1 DEF IInv
    <3>3. \A u \in t.doomed \cup ({t.user} \ {None}) : u \in User /\ u \in Rows(q)
      BY <3>1 DEF Rows, Tx
    <3>4. Sound(t)'
      BY <2>2, <3>2, <3>3, Untouched DEF IInv
    <3> QED
      BY <2>2, <3>1, <3>4
  <2> QED
    BY <2>1, <2>2
<1>3. LocksApart'
  <2> SUFFICES ASSUME NEW q \in Req, NEW r \in Req, q # r
               PROVE  Rows(q)' \cap Rows(r)' = {}
    BY DEF LocksApart
  <2>1. Rows(q) \cap Rows(r) = {}
    BY DEF IInv, LocksApart
  <2>2. \A s \in Req : Rows(s)' = Rows(s) \/ Rows(s)' = {}
    BY DEF Rows, Closed
  <2> QED
    BY <2>1, <2>2
<1> QED
  BY <1>1, <1>2, <1>3 DEF IInv

\* The same for a step that writes one account u that no transaction holds.
LEMMA OneAccountStep ==
  ASSUME IInv, TypeOK', UNCHANGED tx, NEW u \in User, AccountOK(u)',
         \A q \in Req : u \notin Rows(q),
         \A v \in User \ {u} :
           /\ users'[v] = users[v]
           /\ holds'[v] = holds[v]
           /\ \A m \in Method : (ident'[m] = v) <=> (ident[m] = v)
  PROVE  IInv'
<1>1. PICK D \in SUBSET User : D = {u}
  OBVIOUS
<1>2. \A v \in D : AccountOK(v)'
  BY <1>1
<1>3. \A v \in User \ D :
        /\ users'[v] = users[v]
        /\ holds'[v] = holds[v]
        /\ \A m \in Method : (ident'[m] = v) <=> (ident[m] = v)
  BY <1>1
<1>4. \A q \in Req : tx'[q] = tx[q] /\ D \cap Rows(q) = {}
  BY <1>1
<1> HIDE <1>1
<1> QED
  BY <1>2, <1>3, <1>4, WriteStep

\* Opening a transaction that is sound and takes free rows keeps the invariant.
LEMMA OpenStep ==
  ASSUME IInv, NEW r \in Req, NEW t \in Tx, Sound(t),
         Unlocked(t.doomed \cup ({t.user} \ {None})),
         tx' = [tx EXCEPT ![r] = t], UNCHANGED <<users, ident, holds>>
  PROVE  IInv'
<1>1. TypeOK'
  BY DEF IInv, TypeOK
<1>2. ASSUME NEW v \in User PROVE AccountOK(v)'
  BY SameAccount DEF IInv
<1>3. ASSUME NEW q \in Req PROVE Sound(tx[q])'
  <2>1. PICK s \in Tx : s = tx'[q]
    BY <1>1 DEF TypeOK
  <2>2. Sound(s)
    BY <2>1 DEF IInv, TypeOK
  <2>3. Sound(s)'
    BY <1>1, <2>2, Untouched DEF IInv
  <2> QED
    BY <2>1, <2>3
<1>4. LocksApart'
  <2> SUFFICES ASSUME NEW q \in Req, NEW s \in Req, q # s
               PROVE  Rows(q)' \cap Rows(s)' = {}
    BY DEF LocksApart
  <2>1. Rows(q) \cap Rows(s) = {}
    BY DEF IInv, LocksApart
  <2>2. Rows(q)' = IF q = r THEN t.doomed \cup ({t.user} \ {None}) ELSE Rows(q)
    BY DEF Rows, IInv, TypeOK
  <2>3. Rows(s)' = IF s = r THEN t.doomed \cup ({t.user} \ {None}) ELSE Rows(s)
    BY DEF Rows, IInv, TypeOK
  <2> QED
    BY <2>1, <2>2, <2>3 DEF Unlocked
<1> QED
  BY <1>1, <1>2, <1>3, <1>4 DEF IInv

-----------------------------------------------------------------------------
(* One lemma per action that is one statement.                             *)

\* An account that is not there is in no transaction's rows.
LEMMA NewIsFree ==
  ASSUME IInv, NEW u \in User, ~Here(u), NEW q \in Req
  PROVE  u \notin Rows(q)
BY RowsAreHere DEF IInv

LEMMA RegisterNewStep ==
  ASSUME IInv, NEW p \in Person, NEW e \in Address, NEW u \in User, RegisterNew(p, e, u)
  PROVE  IInv'
<1>1. PICK s \in Row : s = [NoRow("here") EXCEPT !.email = e, !.pw = p]
  BY DEF NoRow, Row
<1>2. s.place = "here" /\ s.email = e /\ ~s.proven /\ ~s.guest
  BY <1>1 DEF NoRow
<1>3. users' = [users EXCEPT ![u] = s] /\ UNCHANGED <<ident, holds, tx>> /\ ~Here(u)
  BY <1>1 DEF RegisterNew, Here
<1>4. TypeOK'
  BY <1>3 DEF IInv, TypeOK
<1>5. users'[u] = s /\ \A v \in User \ {u} : users'[v] = users[v]
  BY <1>3 DEF IInv, TypeOK
<1>6. AccountOK(u)'
  <2>1. holds[u] = {} /\ \A m \in Method : ident[m] # u
    BY <1>3 DEF IInv, AccountOK
  <2>2. ~InUse(u)'
    BY <1>2, <1>3, <1>5, <2>1 DEF InUse
  <2> QED
    BY <1>2, <1>3, <1>5, <2>1, <2>2 DEF AccountOK
<1>7. \A q \in Req : u \notin Rows(q)
  BY <1>3, NewIsFree
<1> QED
  BY <1>3, <1>4, <1>5, <1>6, <1>7, OneAccountStep

LEMMA RegisterAgainStep ==
  ASSUME IInv, NEW p \in Person, NEW e \in Address, NEW u \in User, RegisterAgain(p, e, u)
  PROVE  IInv'
<1>1. users' = [users EXCEPT ![u].pw = p] /\ UNCHANGED <<ident, holds, tx>>
      /\ Here(u) /\ users[u].email = e /\ ~users[u].proven
  BY DEF RegisterAgain
<1>2. TypeOK'
  BY <1>1 DEF IInv, TypeOK, Row
<1>3. /\ users'[u].place = "here" /\ users'[u].email = e
      /\ users'[u].proven = users[u].proven /\ users'[u].guest = users[u].guest
      /\ \A v \in User \ {u} : users'[v] = users[v]
  BY <1>1 DEF IInv, TypeOK, Row, Here
<1>4. ~users[u].guest
  BY <1>1, IdentitiesAssumption DEF IInv, AccountOK
<1>5. AccountOK(u)'
  <2>1. holds[u] = {} /\ \A m \in Method : ident[m] # u
    BY <1>1, <1>4 DEF IInv, AccountOK
  <2>2. ~InUse(u)'
    BY <1>1, <1>3, <1>4, <2>1 DEF InUse
  <2> QED
    BY <1>1, <1>3, <1>4, <2>1, <2>2 DEF AccountOK
<1>6. \A q \in Req : u \notin Rows(q)
  BY DEF RegisterAgain, Unlocked
<1> QED
  BY <1>1, <1>2, <1>3, <1>5, <1>6, OneAccountStep

\* A step that changes who knows the password of u, and may mark its address
\* proven, is right when the new password is that of somebody who can use u and,
\* on an account becoming proven, of the one who receives its mail.
LEMMA PasswordStep ==
  ASSUME IInv, NEW u \in User, NEW s \in Row,
         Here(u), Unlocked({u}), UNCHANGED <<ident, holds, tx>>,
         users' = [users EXCEPT ![u] = s],
         s.place = "here", s.email = users[u].email, s.guest = users[u].guest,
         users[u].proven => s.proven,
         s.pw # None => CanUse(s.pw, u),
         (s.proven /\ ~users[u].proven)
           => /\ users[u].email # None
              /\ s.pw # None => OwnerOf[KeyOf[users[u].email]] = s.pw
  PROVE  IInv'
<1>1. TypeOK'
  BY DEF IInv, TypeOK
<1>2. users'[u] = s /\ \A v \in User \ {u} : users'[v] = users[v]
  BY DEF IInv, TypeOK
<1>3. ASSUME NEW p \in Person, CanUse(p, u)' PROVE CanUse(p, u)
  BY <1>2, <1>3, IdentitiesAssumption DEF CanUse
<1>4. ASSUME NEW p \in Person, NEW q \in Person, InUse(u)', CanUse(p, u)', CanUse(q, u)'
      PROVE  p = q
  <2>1. CASE InUse(u)
    BY <1>3, <1>4, <2>1 DEF IInv, AccountOK
  <2>2. CASE ~InUse(u)
    <3>1. s.proven /\ ~users[u].proven
      BY <1>2, <1>4, <2>2 DEF InUse, Here
    <3>2. holds[u] = {} /\ \A m \in Method : ident[m] # u
      BY <2>2 DEF InUse
    <3>3. \A x \in Person : CanUse(x, u)' => x = OwnerOf[KeyOf[users[u].email]]
      BY <1>2, <3>1, <3>2, IdentitiesAssumption DEF CanUse
    <3> QED
      BY <1>4, <3>3
  <2> QED
    BY <2>1, <2>2
<1>5. AccountOK(u)'
  <2>1. AccountOK(u)
    BY DEF IInv
  <2>2. s.guest => s.email = None
    BY <2>1 DEF AccountOK
  <2>3. (~s.proven /\ ~s.guest) => holds[u] = {} /\ \A m \in Method : ident[m] # u
    BY <2>1 DEF AccountOK
  <2> QED
    BY <1>2, <1>4, <2>2, <2>3 DEF AccountOK, Here
<1>6. \A q \in Req : u \notin Rows(q)
  BY DEF Unlocked
<1> QED
  BY <1>1, <1>2, <1>5, <1>6, OneAccountStep

LEMMA MarkVerifiedStep ==
  ASSUME IInv, NEW u \in User, MarkVerified(u)
  PROVE  IInv'
<1>1. users[u] \in Row /\ users[u].email \in Address
  BY DEF IInv, TypeOK, Row, MarkVerified
<1>2. PICK w \in Person \cup {None} : w = KeptPassword(u, OwnerOf[KeyOf[users[u].email]])
  BY <1>1, IdentitiesAssumption DEF KeptPassword, Method
<1>3. PICK s \in Row : s = [users[u] EXCEPT !.proven = TRUE, !.pw = w]
  BY <1>1, Zenon DEF Row
<1>4. users' = [users EXCEPT ![u] = s]
  BY <1>2, <1>3, Zenon DEF MarkVerified
<1>5. s.place = users[u].place /\ s.email = users[u].email /\ s.guest = users[u].guest
      /\ s.proven /\ s.pw = w
  BY <1>1, <1>3 DEF Row
<1>6. w # None => w = OwnerOf[KeyOf[users[u].email]] /\ users[u].pw = w
  BY <1>2 DEF KeptPassword
<1> QED
  BY <1>4, <1>5, <1>6, PasswordStep DEF MarkVerified, Here, CanUse

LEMMA ResetPasswordStep ==
  ASSUME IInv, NEW u \in User, ResetPassword(u)
  PROVE  IInv'
<1>1. users[u] \in Row /\ users[u].email \in Address
  BY DEF IInv, TypeOK, Row, ResetPassword
<1>2. PICK w \in Person : w = OwnerOf[KeyOf[users[u].email]]
  BY <1>1, IdentitiesAssumption DEF Method
<1>3. PICK s \in Row : s = [users[u] EXCEPT !.pw = w]
  BY <1>1 DEF Row
<1>4. users' = [users EXCEPT ![u] = s]
  BY <1>2, <1>3 DEF ResetPassword
<1>5. s.place = users[u].place /\ s.email = users[u].email /\ s.guest = users[u].guest
      /\ s.proven = users[u].proven /\ s.pw = w
  BY <1>1, <1>3 DEF Row
<1> QED
  BY <1>2, <1>4, <1>5, PasswordStep DEF ResetPassword, Here, CanUse

LEMMA ChangePasswordStep ==
  ASSUME IInv, NEW p \in Person, NEW u \in User, ChangePassword(p, u)
  PROVE  IInv'
<1>1. users[u] \in Row
  BY DEF IInv, TypeOK
<1>3. PICK s \in Row : s = [users[u] EXCEPT !.pw = p]
  BY <1>1 DEF Row
<1>4. users' = [users EXCEPT ![u] = s]
  BY <1>3 DEF ChangePassword
<1>5. s.place = users[u].place /\ s.email = users[u].email /\ s.guest = users[u].guest
      /\ s.proven = users[u].proven /\ s.pw = p
  BY <1>1, <1>3 DEF Row
<1> QED
  BY <1>4, <1>5, PasswordStep DEF ChangePassword, Here, CanUse

LEMMA SetEnabledStep ==
  ASSUME IInv, NEW u \in User, SetEnabled(u)
  PROVE  IInv'
<1>1. users[u] \in Row
  BY DEF IInv, TypeOK
<1>3. PICK s \in Row : s = [users[u] EXCEPT !.enabled = ~@]
  BY <1>1, Zenon DEF Row
<1>4. users' = [users EXCEPT ![u] = s]
  BY <1>3, Zenon DEF SetEnabled
<1>5. s.place = users[u].place /\ s.email = users[u].email /\ s.guest = users[u].guest
      /\ s.proven = users[u].proven /\ s.pw = users[u].pw
  BY <1>1, <1>3 DEF Row
<1> QED
  BY <1>4, <1>5, PasswordStep DEF SetEnabled, Here, CanUse

\* Giving somebody who can use an account in use a session of it.
LEMMA SessionStep ==
  ASSUME IInv, NEW u \in User, NEW p \in Person, InUse(u), CanUse(p, u),
         holds' = [holds EXCEPT ![u] = @ \cup {p}], UNCHANGED <<users, ident, tx>>
  PROVE  IInv'
<1>1. TypeOK'
  BY DEF IInv, TypeOK
<1>2. holds'[u] = holds[u] \cup {p} /\ \A v \in User \ {u} : holds'[v] = holds[v]
  BY DEF IInv, TypeOK
<1>3. ASSUME NEW x \in Person, CanUse(x, u)' PROVE CanUse(x, u)
  BY <1>2, <1>3 DEF CanUse
<1>4. AccountOK(u)
  BY DEF IInv
<1>5. AccountOK(u)'
  BY <1>3, <1>4 DEF AccountOK, InUse, Here
<1>6. PICK D \in SUBSET User : D = {u}
  OBVIOUS
<1>7. \A v \in D : AccountOK(v)'
  BY <1>5, <1>6
<1>8. \A v \in User \ D :
        /\ users'[v] = users[v]
        /\ holds'[v] = holds[v]
        /\ \A m \in Method : (ident'[m] = v) <=> (ident[m] = v)
  BY <1>2, <1>6
<1>9. \A v \in D : users'[v] = users[v] /\ holds[v] \subseteq holds'[v]
                   /\ \A m \in Method : ident[m] = v => ident'[m] = v
  BY <1>2, <1>6
<1> HIDE <1>6
<1> QED
  BY <1>1, <1>7, <1>8, <1>9, WriteStep

LEMMA PasswordSignInStep ==
  ASSUME IInv, NEW p \in Person, NEW u \in User, PasswordSignIn(p, u)
  PROVE  IInv'
BY SessionStep DEF PasswordSignIn, InUse, CanUse

LEMMA SignInKnownStep ==
  ASSUME IInv, NEW p \in Person, NEW m \in Subject, SignInKnown(p, m)
  PROVE  IInv'
<1>1. PICK u \in User : u = ident[m]
  BY DEF SignInKnown, IInv, TypeOK, Method
<1>2. m \in Method
  BY DEF Method
<1>3. InUse(u)
  BY <1>1, <1>2 DEF IInv, AccountOK, InUse
<1>4. CanUse(p, u)
  BY <1>1, <1>2 DEF SignInKnown, CanUse
<1> QED
  BY <1>1, <1>3, <1>4, SessionStep DEF SignInKnown

LEMMA CreateGuestStep ==
  ASSUME IInv, NEW p \in Person, NEW u \in User, CreateGuest(p, u)
  PROVE  IInv'
<1>1. PICK s \in Row : s = [NoRow("here") EXCEPT !.guest = TRUE]
  BY Zenon DEF NoRow, Row
<1>2. s.place = "here" /\ s.email = None /\ s.guest /\ s.pw = None
  BY <1>1 DEF NoRow
<1>3. users' = [users EXCEPT ![u] = s] /\ UNCHANGED <<ident, tx>> /\ ~Here(u)
      /\ holds' = [holds EXCEPT ![u] = {p}]
  BY <1>1 DEF CreateGuest, Here
<1>4. TypeOK'
  BY <1>3 DEF IInv, TypeOK
<1>5. /\ users'[u] = s /\ \A v \in User \ {u} : users'[v] = users[v]
      /\ holds'[u] = {p} /\ \A v \in User \ {u} : holds'[v] = holds[v]
  BY <1>3 DEF IInv, TypeOK
<1>6. AccountOK(u)'
  <2>1. \A m \in Method : ident[m] # u
    BY <1>3 DEF IInv, AccountOK
  <2>2. \A x \in Person : CanUse(x, u)' => x = p
    BY <1>2, <1>3, <1>5, <2>1, IdentitiesAssumption DEF CanUse
  <2> QED
    BY <1>2, <1>5, <2>2 DEF AccountOK, Here
<1>7. \A q \in Req : u \notin Rows(q)
  BY <1>3, NewIsFree
<1> QED
  BY <1>3, <1>4, <1>5, <1>6, <1>7, OneAccountStep

\* What deleting the accounts of D does to the three tables.
LEMMA DeletionFacts ==
  ASSUME TypeOK, NEW D \in SUBSET User
  PROVE  /\ Deleted(D) \in [User -> Row]
         /\ Cascade(D) \in [Method -> User \cup {None}]
         /\ Forget(D) \in [User -> SUBSET Person]
         /\ \A v \in D : Deleted(D)[v] = NoRow("gone") /\ Forget(D)[v] = {}
         /\ \A v \in User \ D : Deleted(D)[v] = users[v] /\ Forget(D)[v] = holds[v]
         /\ \A m \in Method : Cascade(D)[m] \notin D
         /\ \A m \in Method, v \in User \ D : (Cascade(D)[m] = v) <=> (ident[m] = v)
         /\ \A m \in Method : Cascade(D)[m] # None => Cascade(D)[m] = ident[m]
<1>1. NoRow("gone") \in Row
  BY DEF NoRow, Row
<1>2. None \notin User
  BY IdentitiesAssumption
<1>3. /\ Deleted(D) \in [User -> Row]
      /\ \A v \in D : Deleted(D)[v] = NoRow("gone")
      /\ \A v \in User \ D : Deleted(D)[v] = users[v]
  BY <1>1 DEF Deleted, TypeOK
<1>4. /\ Forget(D) \in [User -> SUBSET Person]
      /\ \A v \in D : Forget(D)[v] = {}
      /\ \A v \in User \ D : Forget(D)[v] = holds[v]
  BY DEF Forget, TypeOK
<1>5. /\ Cascade(D) \in [Method -> User \cup {None}]
      /\ \A m \in Method : Cascade(D)[m] \notin D
      /\ \A m \in Method, v \in User \ D : (Cascade(D)[m] = v) <=> (ident[m] = v)
      /\ \A m \in Method : Cascade(D)[m] # None => Cascade(D)[m] = ident[m]
  BY <1>2 DEF Cascade, TypeOK
<1> QED
  BY <1>3, <1>4, <1>5

\* A deleted account leaves nothing behind.
LEMMA GoneIsOK ==
  ASSUME NEW v \in User, users'[v] = NoRow("gone"), holds'[v] = {},
         \A m \in Method : ident'[m] # v
  PROVE  AccountOK(v)'
<1>1. ~Here(v)' /\ ~users'[v].guest
  BY DEF Here, NoRow
<1> QED
  BY <1>1 DEF AccountOK, InUse

LEMMA DeleteUserStep ==
  ASSUME IInv, NEW u \in User, DeleteUser(u)
  PROVE  IInv'
<1>1. PICK D \in SUBSET User : D = {u}
  OBVIOUS
<1>2. users' = Deleted(D) /\ ident' = Cascade(D) /\ holds' = Forget(D) /\ tx' = tx
  BY <1>1 DEF DeleteUser
<1>3. TypeOK'
  BY <1>2, DeletionFacts DEF IInv, TypeOK
<1>4. \A v \in D : AccountOK(v)'
  <2> SUFFICES ASSUME NEW v \in D PROVE AccountOK(v)'
    OBVIOUS
  <2>1. v \in User /\ users'[v] = NoRow("gone") /\ holds'[v] = {}
        /\ \A m \in Method : ident'[m] # v
    BY <1>2, DeletionFacts DEF IInv
  <2> QED
    BY <2>1, GoneIsOK
<1>5. \A v \in User \ D :
        /\ users'[v] = users[v]
        /\ holds'[v] = holds[v]
        /\ \A m \in Method : (ident'[m] = v) <=> (ident[m] = v)
  BY <1>2, DeletionFacts DEF IInv
<1>6. \A q \in Req : tx'[q] = tx[q] /\ D \cap Rows(q) = {}
  BY <1>1, <1>2 DEF DeleteUser, Unlocked
<1> HIDE <1>1
<1> QED
  BY <1>3, <1>4, <1>5, <1>6, WriteStep

-----------------------------------------------------------------------------
(* The first half of a transaction: what it read is sound.                 *)

\* The account a proven address reaches answers to it, or the mailbox is linked
\* to it.
LEMMA ReachedByAddress ==
  ASSUME TypeOK, NEW e \in Address, NEW u \in User, AccountForAddress(e) = {u}
  PROVE  u \in Answers(KeyOf[e]) \/ ident[KeyOf[e]] = u
<1>1. CASE ident[KeyOf[e]] = None
  BY <1>1 DEF AccountForAddress, PickAddressMatch
<1>2. CASE ident[KeyOf[e]] # None /\ ~ProvenElsewhere(e, ident[KeyOf[e]])
  BY <1>2 DEF AccountForAddress
<1>3. CASE ident[KeyOf[e]] # None /\ ProvenElsewhere(e, ident[KeyOf[e]])
  <2>1. PICK v \in User : v # ident[KeyOf[e]]
    BY <1>3 DEF ProvenElsewhere, Answers
  <2>2. ident[KeyOf[e]] \in User
    BY <1>3, IdentitiesAssumption DEF TypeOK, Method
  <2>3. User = {u}
    BY <1>3 DEF AccountForAddress
  <2> QED
    BY <2>1, <2>2, <2>3
<1> QED
  BY <1>1, <1>2, <1>3

\* An unproven account that has an address is nobody's guest account.
LEMMA UnprovenAnswer ==
  ASSUME IInv, NEW k \in Key, NEW v \in Answers(k), ~users[v].proven
  PROVE  v \in User /\ Here(v) /\ ~users[v].guest
BY DEF IInv, AccountOK, Answers

LEMMA SignInJoinsStep ==
  ASSUME IInv, NEW r \in Req, NEW p \in Person, NEW m \in Subject \cup {None},
         NEW e \in Address, NEW u \in User, SignInJoins(r, p, m, e, u)
  PROVE  IInv'
<1>1. PICK t \in Tx : t = Opened("signin", p, u, m, e, {})
  BY DEF Opened, Tx, Method
<1>2. t.op = "signin" /\ t.who = p /\ t.user = u /\ t.method = m /\ t.email = e
      /\ t.doomed = {}
  BY <1>1 DEF Opened
<1>3. KeyOf[e] \in Method /\ OwnerOf[KeyOf[e]] = p /\ (m # None => OwnerOf[m] = p)
  BY IdentitiesAssumption DEF SignInJoins, Proves, Method
<1>4. InUse(u) /\ CanUse(p, u)
  <2>1. CASE ident[KeyOf[e]] = u
    BY <1>3, <2>1 DEF InUse, CanUse, IInv, AccountOK
  <2>2. CASE ident[KeyOf[e]] # u
    <3>1. u \in Answers(KeyOf[e]) /\ users[u].proven
      BY <2>2, ReachedByAddress DEF SignInJoins, Verified, IInv
    <3> QED
      BY <1>3, <3>1 DEF InUse, CanUse, Answers
  <2> QED
    BY <2>1, <2>2
<1>5. Sound(t)
  BY <1>2, <1>3, <1>4, IdentitiesAssumption DEF Sound
<1>6. Unlocked(t.doomed \cup ({t.user} \ {None}))
  BY <1>2 DEF SignInJoins, Unlocked
<1> QED
  BY <1>1, <1>5, <1>6, OpenStep DEF SignInJoins

LEMMA SignInTakesOverStep ==
  ASSUME IInv, NEW r \in Req, NEW p \in Person, NEW m \in Subject \cup {None},
         NEW e \in Address, NEW u \in User, SignInTakesOver(r, p, m, e, u)
  PROVE  IInv'
<1>1. PICK t \in Tx : t = Opened("signin", p, None, m, e, {u})
  BY DEF Opened, Tx, Method
<1>2. t.op = "signin" /\ t.who = p /\ t.user = None /\ t.method = m /\ t.email = e
      /\ t.doomed = {u}
  BY <1>1 DEF Opened
<1>3. OwnerOf[KeyOf[e]] = p /\ (m # None => OwnerOf[m] = p)
  BY DEF SignInTakesOver, Proves
<1>4. u \in Answers(KeyOf[e]) /\ ~users[u].proven
  BY ReachedByAddress DEF SignInTakesOver, Verified, IInv
<1>5. Here(u) /\ ~users[u].guest
  BY <1>4, UnprovenAnswer, IdentitiesAssumption
<1>6. Sound(t)
  BY <1>2, <1>3, <1>4, <1>5, IdentitiesAssumption DEF Sound
<1>7. Unlocked(t.doomed \cup ({t.user} \ {None}))
  BY <1>2 DEF SignInTakesOver, Unlocked
<1> QED
  BY <1>1, <1>6, <1>7, OpenStep DEF SignInTakesOver

LEMMA SignInCreatesStep ==
  ASSUME IInv, NEW r \in Req, NEW p \in Person, NEW m \in Subject \cup {None},
         NEW e \in Address, SignInCreates(r, p, m, e)
  PROVE  IInv'
<1>1. PICK t \in Tx : t = Opened("signin", p, None, m, e, {})
  BY DEF Opened, Tx, Method
<1>2. t.op = "signin" /\ t.who = p /\ t.user = None /\ t.method = m /\ t.email = e
      /\ t.doomed = {}
  BY <1>1 DEF Opened
<1>3. Sound(t)
  BY <1>2, IdentitiesAssumption DEF Sound, SignInCreates, Proves
<1>4. Unlocked(t.doomed \cup ({t.user} \ {None}))
  BY <1>2 DEF Unlocked
<1> QED
  BY <1>1, <1>3, <1>4, OpenStep DEF SignInCreates

LEMMA LinkBeginsStep ==
  ASSUME IInv, NEW r \in Req, NEW p \in Person, NEW u \in User, NEW m \in Method,
         NEW e \in Address, LinkBegins(r, p, u, m, e)
  PROVE  IInv'
<1>1. PICK D \in SUBSET User :
        D = IF m \in Key \/ users[u].guest THEN Answers(KeyOf[e]) ELSE {}
  BY DEF Answers
<1>2. PICK t \in Tx : t = Opened("link", p, u, m, e, D)
  BY DEF Opened, Tx
<1>3. t.op = "link" /\ t.who = p /\ t.user = u /\ t.method = m /\ t.email = e
      /\ t.doomed = D
  BY <1>2 DEF Opened
<1>4. u \notin D /\ \A v \in D : v \in Answers(KeyOf[e]) /\ ~users[v].proven
  BY <1>1 DEF LinkBegins, Claimable
<1>5. \A v \in D : Here(v) /\ ~users[v].guest
  BY <1>4, UnprovenAnswer, IdentitiesAssumption
<1>6. InUse(u) /\ CanUse(p, u)
  BY DEF LinkBegins, Linkable, InUse, CanUse
<1>7. Sound(t)
  BY <1>3, <1>4, <1>5, <1>6, IdentitiesAssumption DEF Sound, LinkBegins, LinkProves
<1>8. Unlocked(t.doomed \cup ({t.user} \ {None}))
  BY <1>1, <1>3 DEF LinkBegins, Unlocked
<1>9. tx' = [tx EXCEPT ![r] = t] /\ UNCHANGED <<users, ident, holds>>
  BY <1>1, <1>2 DEF LinkBegins
<1> QED
  BY <1>7, <1>8, <1>9, OpenStep

LEMMA UnlinkBeginsStep ==
  ASSUME IInv, NEW r \in Req, NEW p \in Person, NEW u \in User, NEW m \in Method,
         UnlinkBegins(r, p, u, m)
  PROVE  IInv'
<1>1. PICK t \in Tx : t = Opened("unlink", p, u, m, None, {})
  BY DEF Opened, Tx
<1>2. t.op = "unlink" /\ t.who = p /\ t.user = u /\ t.method = m /\ t.doomed = {}
  BY <1>1 DEF Opened
<1>3. InUse(u) /\ CanUse(p, u)
  BY DEF UnlinkBegins, InUse, CanUse
<1>4. Sound(t)
  BY <1>2, <1>3, IdentitiesAssumption DEF Sound, UnlinkBegins
<1>5. Unlocked(t.doomed \cup ({t.user} \ {None}))
  BY <1>2 DEF UnlinkBegins, Unlocked
<1> QED
  BY <1>1, <1>4, <1>5, OpenStep DEF UnlinkBegins

LEMMA MoveBeginsStep ==
  ASSUME IInv, NEW r \in Req, NEW p \in Person, NEW u \in User, NEW e \in Address,
         MoveBegins(r, p, u, e)
  PROVE  IInv'
<1>1. PICK D \in SUBSET User : D = Answers(KeyOf[e])
  BY DEF Answers
<1>2. PICK t \in Tx : t = Opened("move", p, u, None, e, D)
  BY DEF Opened, Tx
<1>3. t.op = "move" /\ t.who = p /\ t.user = u /\ t.method = None /\ t.email = e
      /\ t.doomed = D
  BY <1>2 DEF Opened
<1>4. u \notin D /\ \A v \in D : v \in Answers(KeyOf[e]) /\ ~users[v].proven
  BY <1>1 DEF MoveBegins, Claimable
<1>5. \A v \in D : Here(v) /\ ~users[v].guest
  BY <1>4, UnprovenAnswer, IdentitiesAssumption
<1>6. InUse(u) /\ CanUse(p, u)
  BY DEF MoveBegins, InUse, CanUse
<1>7. Sound(t)
  BY <1>3, <1>4, <1>5, <1>6, IdentitiesAssumption DEF Sound, MoveBegins
<1>8. Unlocked(t.doomed \cup ({t.user} \ {None}))
  BY <1>1, <1>3 DEF MoveBegins, Unlocked
<1> QED
  BY <1>1, <1>2, <1>7, <1>8, OpenStep DEF MoveBegins

-----------------------------------------------------------------------------
(* The second half: what a commit writes.                                  *)

\* A commit of r writes only rows r holds and accounts that were not there.
LEMMA CommitStep ==
  ASSUME IInv, TypeOK', NEW r \in Req, NEW D \in SUBSET User,
         \A v \in D : v \in Rows(r) \/ ~Here(v),
         \A v \in D : AccountOK(v)',
         \A v \in User \ D :
           /\ users'[v] = users[v]
           /\ holds'[v] = holds[v]
           /\ \A m \in Method : (ident'[m] = v) <=> (ident[m] = v),
         Close(r)
  PROVE  IInv'
<1>1. ASSUME NEW q \in Req PROVE tx'[q] = Closed \/ (tx'[q] = tx[q] /\ D \cap Rows(q) = {})
  <2>1. CASE q = r
    BY <2>1 DEF Close, IInv, TypeOK
  <2>2. CASE q # r
    <3>1. tx'[q] = tx[q]
      BY <2>2 DEF Close, IInv, TypeOK
    <3>2. Rows(q) \cap Rows(r) = {}
      BY <2>2 DEF IInv, LocksApart
    <3> QED
      BY <3>1, <3>2, NewIsFree
  <2> QED
    BY <2>1, <2>2
<1> QED
  BY <1>1, WriteStep

\* Closing a transaction leaves a transaction.
LEMMA CloseType ==
  ASSUME TypeOK, NEW r \in Req, Close(r)
  PROVE  tx' \in [Req -> Tx]
<1>1. Closed \in Tx
  BY ClosedIsSound
<1> QED
  BY <1>1 DEF Close, TypeOK

\* An account in use is proven or a guest's.
LEMMA InUseIsProven ==
  ASSUME NEW u \in User, AccountOK(u), InUse(u)
  PROVE  Here(u) /\ (users[u].proven \/ users[u].guest)
BY DEF AccountOK, InUse

\* An account in use stays one person's when nobody but w, who can use it, gains
\* a way in.
LEMMA StaysOnePersons ==
  ASSUME NEW u \in User, NEW w \in Person, AccountOK(u), InUse(u), CanUse(w, u),
         \A x \in Person : CanUse(x, u)' => (CanUse(x, u) \/ x = w),
         Here(u)', users'[u].proven \/ users'[u].guest,
         users'[u].guest => users'[u].email = None
  PROVE  AccountOK(u)'
<1>1. \A x \in Person : CanUse(x, u)' => x = w
  BY DEF AccountOK
<1> QED
  BY <1>1 DEF AccountOK

\* What a transaction about to commit read, as facts about a rigid record.
LEMMA OpenTx ==
  ASSUME IInv, NEW r \in Req
  PROVE  \E t \in Tx : t = tx[r] /\ Sound(t) /\ Rows(r) = t.doomed \cup ({t.user} \ {None})
BY DEF IInv, TypeOK, Rows

\* identities after the INSERT of t.method for u.
LEMMA InsertIdentity ==
  ASSUME NEW r \in Req, NEW t \in Tx, t = tx[r], NEW u \in User,
         NEW rows \in [Method -> User \cup {None}],
         ident' = WithIdentity(r, u, rows), IdentityFree(r, rows)
  PROVE  /\ ident' \in [Method -> User \cup {None}]
         /\ \A v \in User \ {u}, m \in Method : (ident'[m] = v) <=> (rows[m] = v)
         /\ \A m \in Method : ident'[m] = u => (rows[m] = u \/ m = t.method)
         /\ t.method # None => ident'[t.method] = u
<1>1. CASE t.method = None
  BY <1>1 DEF WithIdentity
<1>2. CASE t.method # None
  <2>1. t.method \in Method /\ ident' = [rows EXCEPT ![t.method] = u]
        /\ rows[t.method] = None
    BY <1>2 DEF Tx, WithIdentity, IdentityFree
  <2> QED
    BY <2>1, IdentitiesAssumption
<1> QED
  BY <1>1, <1>2

LEMMA SignInCommitsStep ==
  ASSUME IInv, NEW r \in Req, SignInCommits(r)
  PROVE  IInv'
<1>1. PICK t \in Tx : t = tx[r] /\ Sound(t)
                     /\ Rows(r) = t.doomed \cup ({t.user} \ {None})
  BY OpenTx
<1>2. PICK u \in User : u = t.user
  BY <1>1 DEF SignInCommits, Tx
<1>3. PICK w \in Person : w = t.who
  BY <1>1, <1>2 DEF SignInCommits, Tx, Sound
<1>4. /\ ident' \in [Method -> User \cup {None}]
      /\ \A v \in User \ {u}, m \in Method : (ident'[m] = v) <=> (ident[m] = v)
      /\ \A m \in Method : ident'[m] = u => (ident[m] = u \/ m = t.method)
  BY <1>1, <1>2, InsertIdentity DEF SignInCommits, IInv, TypeOK
<1>5. holds' = [holds EXCEPT ![u] = @ \cup {w}] /\ users' = users
  BY <1>1, <1>2, <1>3 DEF SignInCommits
<1>6. holds'[u] = holds[u] \cup {w} /\ \A v \in User \ {u} : holds'[v] = holds[v]
  BY <1>5 DEF IInv, TypeOK
<1>7. TypeOK'
  <2>1. tx' \in [Req -> Tx]
    BY CloseType DEF SignInCommits, IInv
  <2>2. holds' \in [User -> SUBSET Person]
    BY <1>5 DEF IInv, TypeOK
  <2> QED
    BY <1>4, <1>5, <2>1, <2>2 DEF IInv, TypeOK
<1>8. InUse(u) /\ CanUse(w, u) /\ (t.method # None => OwnerOf[t.method] = w)
  BY <1>1, <1>2, <1>3, IdentitiesAssumption DEF Sound, SignInCommits
<1>9. AccountOK(u)'
  <2>1. \A x \in Person : CanUse(x, u)' => (CanUse(x, u) \/ x = w)
    BY <1>4, <1>5, <1>6, <1>8, IdentitiesAssumption DEF CanUse
  <2>2. AccountOK(u)
    BY DEF IInv
  <2>3. Here(u)' /\ (users'[u].proven \/ users'[u].guest)
        /\ (users'[u].guest => users'[u].email = None)
    BY <1>5, <1>8, <2>2, InUseIsProven DEF AccountOK, Here
  <2> QED
    BY <1>8, <2>1, <2>2, <2>3, StaysOnePersons
<1>10. PICK D \in SUBSET User : D = {u}
  OBVIOUS
<1>11. \A v \in D : AccountOK(v)' /\ v \in Rows(r)
  BY <1>1, <1>2, <1>9, <1>10, IdentitiesAssumption
<1>12. \A v \in User \ D :
        /\ users'[v] = users[v]
        /\ holds'[v] = holds[v]
        /\ \A m \in Method : (ident'[m] = v) <=> (ident[m] = v)
  BY <1>4, <1>5, <1>6, <1>10
<1>13. Close(r)
  BY DEF SignInCommits
<1> HIDE <1>10
<1> QED
  BY <1>7, <1>11, <1>12, <1>13, CommitStep

LEMMA SignInCommitsNewStep ==
  ASSUME IInv, NEW r \in Req, NEW u \in User, SignInCommitsNew(r, u)
  PROVE  IInv'
<1>1. PICK t \in Tx : t = tx[r] /\ Sound(t)
                     /\ Rows(r) = t.doomed \cup ({t.user} \ {None})
  BY OpenTx
<1>2. PICK w \in Person : w = t.who
  BY <1>1 DEF SignInCommitsNew, Tx, Sound
<1>3. PICK e \in Address : e = t.email
  BY <1>1 DEF SignInCommitsNew, Tx, Sound
<1>4. PICK X \in SUBSET User : X = t.doomed
  BY DEF Tx
<1>5. ~Here(u) /\ u \notin X
  BY <1>1, <1>4 DEF SignInCommitsNew, Here, Sound
<1>6. PICK s \in Row : s = [NoRow("here") EXCEPT !.email = e, !.proven = TRUE]
  BY Zenon DEF NoRow, Row
<1>7. s.place = "here" /\ s.email = e /\ s.proven /\ ~s.guest /\ s.pw = None
  BY <1>6 DEF NoRow
<1>8. /\ users' = [Deleted(X) EXCEPT ![u] = s]
      /\ ident' = WithIdentity(r, u, Cascade(X))
      /\ IdentityFree(r, Cascade(X))
      /\ holds' = [Forget(X) EXCEPT ![u] = {w}]
      /\ Close(r)
  BY <1>1, <1>2, <1>3, <1>4, <1>6 DEF SignInCommitsNew
<1>9. TypeOK
  BY DEF IInv
<1>10. /\ ident' \in [Method -> User \cup {None}]
       /\ \A v \in User \ {u}, m \in Method : (ident'[m] = v) <=> (Cascade(X)[m] = v)
       /\ \A m \in Method : ident'[m] = u => (Cascade(X)[m] = u \/ m = t.method)
  BY <1>1, <1>8, <1>9, DeletionFacts, InsertIdentity
<1>11. /\ users' \in [User -> Row] /\ users'[u] = s
       /\ \A v \in User \ {u} : users'[v] = Deleted(X)[v]
  BY <1>8, <1>9, DeletionFacts
<1>12. /\ holds' \in [User -> SUBSET Person] /\ holds'[u] = {w}
       /\ \A v \in User \ {u} : holds'[v] = Forget(X)[v]
  BY <1>8, <1>9, DeletionFacts
<1>13. TypeOK'
  BY <1>8, <1>9, <1>10, <1>11, <1>12, CloseType DEF TypeOK
<1>14. AccountOK(u)'
  <2>1. \A m \in Method : ident[m] # u
    BY <1>5 DEF IInv, AccountOK
  <2>2. \A m \in Method : ident'[m] = u => OwnerOf[m] = w
    <3>1. t.method # None => OwnerOf[t.method] = w
      BY <1>1, <1>2 DEF Sound, SignInCommitsNew
    <3> QED
      BY <1>5, <1>9, <1>10, <2>1, <3>1, DeletionFacts, IdentitiesAssumption
  <2>3. OwnerOf[KeyOf[e]] = w
    BY <1>1, <1>2, <1>3 DEF Sound, SignInCommitsNew
  <2>4. \A x \in Person : CanUse(x, u)' => x = w
    BY <1>7, <1>11, <1>12, <2>2, <2>3, IdentitiesAssumption DEF CanUse
  <2> QED
    BY <1>7, <1>11, <2>4 DEF AccountOK, Here
<1>15. ASSUME NEW v \in X PROVE AccountOK(v)' /\ v \in Rows(r)
  <2>1. v \in User /\ v # u
    BY <1>5
  <2>2. users'[v] = NoRow("gone") /\ holds'[v] = {} /\ \A m \in Method : ident'[m] # v
    BY <1>9, <1>10, <1>11, <1>12, <2>1, DeletionFacts
  <2> QED
    BY <1>1, <1>4, <2>1, <2>2, GoneIsOK
<1>16. PICK D \in SUBSET User : D = X \cup {u}
  OBVIOUS
<1>17. \A v \in D : AccountOK(v)' /\ (v \in Rows(r) \/ ~Here(v))
  BY <1>5, <1>14, <1>15, <1>16
<1>18. ASSUME NEW v \in User \ D
       PROVE  /\ users'[v] = users[v]
              /\ holds'[v] = holds[v]
              /\ \A m \in Method : (ident'[m] = v) <=> (ident[m] = v)
  <2>1. v \in User \ {u} /\ v \in User \ X
    BY <1>16
  <2>2. Deleted(X)[v] = users[v] /\ Forget(X)[v] = holds[v]
    BY <1>9, <2>1, DeletionFacts
  <2>3. \A m \in Method : (Cascade(X)[m] = v) <=> (ident[m] = v)
    BY <1>9, <2>1, DeletionFacts
  <2>4. \A m \in Method : (ident'[m] = v) <=> (Cascade(X)[m] = v)
    BY <1>10, <2>1
  <2>5. users'[v] = Deleted(X)[v] /\ holds'[v] = Forget(X)[v]
    BY <1>11, <1>12, <2>1
  <2> QED
    BY <2>2, <2>3, <2>4, <2>5
<1> HIDE <1>16
<1> QED
  BY <1>8, <1>13, <1>17, <1>18, CommitStep

\* A commit that deletes the accounts of X, unproven ones it holds, and writes to
\* the account u it was opened for.
LEMMA DeletingCommit ==
  ASSUME IInv, TypeOK', NEW r \in Req, NEW u \in User, u \in Rows(r),
         NEW X \in SUBSET User, X \subseteq Rows(r), u \notin X, Close(r),
         \A v \in User \ {u} : users'[v] = Deleted(X)[v],
         holds' = Forget(X),
         \A v \in User \ {u}, m \in Method : (ident'[m] = v) <=> (Cascade(X)[m] = v),
         AccountOK(u)'
  PROVE  IInv'
<1>1. TypeOK
  BY DEF IInv
<1>2. ASSUME NEW v \in X PROVE AccountOK(v)'
  <2>1. users'[v] = NoRow("gone") /\ holds'[v] = {} /\ \A m \in Method : ident'[m] # v
    BY <1>1, DeletionFacts
  <2> QED
    BY <2>1, GoneIsOK
<1>3. PICK D \in SUBSET User : D = X \cup {u}
  OBVIOUS
<1>4. \A v \in D : AccountOK(v)' /\ v \in Rows(r)
  BY <1>2, <1>3
<1>5. \A v \in User \ D :
        /\ users'[v] = users[v]
        /\ holds'[v] = holds[v]
        /\ \A m \in Method : (ident'[m] = v) <=> (ident[m] = v)
  BY <1>1, <1>3, DeletionFacts
<1> HIDE <1>3
<1> QED
  BY <1>4, <1>5, CommitStep

\* A row upgraded to address e.
LEMMA UpgradedRow ==
  ASSUME NEW r \in Req, NEW u \in User, u = tx[r].user, NEW e \in Address, e = tx[r].email,
         NEW rows \in [User -> Row]
  PROVE  /\ Upgraded(r, rows) \in [User -> Row]
         /\ \A v \in User \ {u} : Upgraded(r, rows)[v] = rows[v]
         /\ Upgraded(r, rows)[u].place = rows[u].place
         /\ Upgraded(r, rows)[u].email = e
         /\ Upgraded(r, rows)[u].proven
         /\ ~Upgraded(r, rows)[u].guest
         /\ Upgraded(r, rows)[u].pw = rows[u].pw
<1>0. PICK w \in Row : w = rows[u]
  OBVIOUS
<1>1. PICK s \in Row : s = [w EXCEPT !.email = e, !.proven = TRUE, !.guest = FALSE]
  <2>1. [w EXCEPT !.email = e, !.proven = TRUE, !.guest = FALSE] \in Row
    BY Zenon DEF Row
  <2> QED
    BY <2>1
<1>2. Upgraded(r, rows) = [rows EXCEPT ![u] = s]
  BY <1>0, <1>1 DEF Upgraded
<1>3. s.place = w.place /\ s.email = e /\ s.proven /\ ~s.guest /\ s.pw = w.pw
  BY <1>1 DEF Row
<1> QED
  BY <1>0, <1>2, <1>3

LEMMA LinkCommitsStep ==
  ASSUME IInv, NEW r \in Req, LinkCommits(r)
  PROVE  IInv'
<1>1. PICK t \in Tx : t = tx[r] /\ Sound(t)
                     /\ Rows(r) = t.doomed \cup ({t.user} \ {None})
  BY OpenTx
<1>2. PICK u \in User : u = t.user
  BY <1>1 DEF LinkCommits, Tx, Sound
<1>3. PICK w \in Person : w = t.who
  BY <1>1 DEF LinkCommits, Tx, Sound
<1>4. PICK e \in Address : e = t.email
  BY <1>1 DEF LinkCommits, Tx, Sound
<1>5. PICK X \in SUBSET User : X = t.doomed
  BY DEF Tx
<1>6. /\ u \notin X /\ InUse(u) /\ CanUse(w, u)
      /\ OwnerOf[KeyOf[e]] = w /\ OwnerOf[t.method] = w
  BY <1>1, <1>2, <1>3, <1>4, <1>5, IdentitiesAssumption DEF Sound, LinkCommits
<1>7. /\ users' = IF users[u].guest THEN Upgraded(r, Deleted(X)) ELSE Deleted(X)
      /\ ident' = WithIdentity(r, u, Cascade(X))
      /\ IdentityFree(r, Cascade(X))
      /\ holds' = Forget(X)
      /\ Close(r)
  BY <1>1, <1>2, <1>5 DEF LinkCommits
<1>8. TypeOK
  BY DEF IInv
<1>9. /\ ident' \in [Method -> User \cup {None}]
      /\ \A v \in User \ {u}, m \in Method : (ident'[m] = v) <=> (Cascade(X)[m] = v)
      /\ \A m \in Method : ident'[m] = u => (Cascade(X)[m] = u \/ m = t.method)
  BY <1>1, <1>7, <1>8, DeletionFacts, InsertIdentity
<1>10. Deleted(X) \in [User -> Row] /\ Deleted(X)[u] = users[u] /\ holds'[u] = holds[u]
  BY <1>6, <1>7, <1>8, DeletionFacts
<1>11. /\ users' \in [User -> Row]
       /\ \A v \in User \ {u} : users'[v] = Deleted(X)[v]
       /\ \/ users'[u] = users[u] /\ ~users[u].guest
          \/ /\ users'[u].place = users[u].place /\ users'[u].email = e
             /\ users'[u].proven /\ ~users'[u].guest /\ users'[u].pw = users[u].pw
  <2>1. CASE users[u].guest
    <3>1. users' = Upgraded(r, Deleted(X))
      BY <1>7, <2>1
    <3>2. PICK rows \in [User -> Row] : rows = Deleted(X)
      BY <1>10
    <3>3. u = tx[r].user /\ e = tx[r].email /\ users' = Upgraded(r, rows) /\ rows[u] = users[u]
      BY <1>1, <1>2, <1>4, <1>10, <3>1, <3>2
    <3> HIDE <3>2
    <3>4. /\ users' \in [User -> Row]
          /\ \A v \in User \ {u} : users'[v] = rows[v]
          /\ users'[u].place = users[u].place /\ users'[u].email = e
          /\ users'[u].proven /\ ~users'[u].guest /\ users'[u].pw = users[u].pw
      BY <3>3, UpgradedRow
    <3> QED
      BY <3>2, <3>4
  <2>2. CASE ~users[u].guest
    BY <1>7, <1>10, <2>2
  <2> QED
    BY <2>1, <2>2
<1>12. TypeOK'
  BY <1>7, <1>8, <1>9, <1>11, CloseType, DeletionFacts DEF TypeOK
<1>13. AccountOK(u)'
  <2>1. AccountOK(u)
    BY DEF IInv
  <2>2. \A m \in Method : ident'[m] = u => (ident[m] = u \/ OwnerOf[m] = w)
    BY <1>6, <1>8, <1>9, DeletionFacts, IdentitiesAssumption
  <2>3. \A x \in Person : CanUse(x, u)' => (CanUse(x, u) \/ x = w)
    BY <1>6, <1>10, <1>11, <2>2 DEF CanUse
  <2>4. Here(u) /\ (users[u].proven \/ users[u].guest)
    BY <1>6, <2>1, InUseIsProven
  <2>5. Here(u)' /\ (users'[u].proven \/ users'[u].guest) /\ ~users'[u].guest
    BY <1>11, <2>4 DEF Here
  <2> QED
    BY <1>6, <2>1, <2>3, <2>5, StaysOnePersons
<1>14. u \in Rows(r) /\ X \subseteq Rows(r)
  BY <1>1, <1>2, <1>5, IdentitiesAssumption
<1> QED
  BY <1>6, <1>7, <1>9, <1>11, <1>12, <1>13, <1>14, DeletingCommit

LEMMA MoveCommitsStep ==
  ASSUME IInv, NEW r \in Req, MoveCommits(r)
  PROVE  IInv'
<1>1. PICK t \in Tx : t = tx[r] /\ Sound(t)
                     /\ Rows(r) = t.doomed \cup ({t.user} \ {None})
  BY OpenTx
<1>2. PICK u \in User : u = t.user
  BY <1>1 DEF MoveCommits, Tx, Sound
<1>3. PICK w \in Person : w = t.who
  BY <1>1 DEF MoveCommits, Tx, Sound
<1>4. PICK e \in Address : e = t.email
  BY <1>1 DEF MoveCommits, Tx, Sound
<1>5. PICK X \in SUBSET User : X = t.doomed
  BY DEF Tx
<1>6. u \notin X /\ InUse(u) /\ CanUse(w, u) /\ OwnerOf[KeyOf[e]] = w
  BY <1>1, <1>2, <1>3, <1>4, <1>5, IdentitiesAssumption DEF Sound, MoveCommits
<1>7. /\ users' = Upgraded(r, Deleted(X))
      /\ ident' = [Cascade(X) EXCEPT ![KeyOf[e]] = IF @ = u THEN None ELSE @]
      /\ holds' = Forget(X)
      /\ Close(r)
  BY <1>1, <1>2, <1>4, <1>5 DEF MoveCommits
<1>8. TypeOK
  BY DEF IInv
<1>9. /\ ident' \in [Method -> User \cup {None}]
      /\ \A v \in User \ {u}, m \in Method : (ident'[m] = v) <=> (Cascade(X)[m] = v)
      /\ \A m \in Method : ident'[m] = u => Cascade(X)[m] = u
  <2>1. Cascade(X) \in [Method -> User \cup {None}]
    BY <1>8, DeletionFacts
  <2>2. PICK k \in Method : k = KeyOf[e]
    BY IdentitiesAssumption DEF Method
  <2>3. ident' = [Cascade(X) EXCEPT ![k] = IF Cascade(X)[k] = u THEN None ELSE Cascade(X)[k]]
    BY <1>7, <2>2
  <2>4. None \notin User
    BY IdentitiesAssumption
  <2> QED
    BY <2>1, <2>3, <2>4
<1>10. Deleted(X) \in [User -> Row] /\ Deleted(X)[u] = users[u] /\ holds'[u] = holds[u]
  BY <1>6, <1>7, <1>8, DeletionFacts
<1>11. /\ users' \in [User -> Row]
       /\ \A v \in User \ {u} : users'[v] = Deleted(X)[v]
       /\ users'[u].place = users[u].place /\ users'[u].email = e
       /\ users'[u].proven /\ ~users'[u].guest /\ users'[u].pw = users[u].pw
  <2>1. PICK rows \in [User -> Row] : rows = Deleted(X)
    BY <1>10
  <2>2. u = tx[r].user /\ e = tx[r].email /\ users' = Upgraded(r, rows) /\ rows[u] = users[u]
    BY <1>1, <1>2, <1>4, <1>7, <1>10, <2>1
  <2> HIDE <2>1
  <2>3. /\ users' \in [User -> Row]
        /\ \A v \in User \ {u} : users'[v] = rows[v]
        /\ users'[u].place = users[u].place /\ users'[u].email = e
        /\ users'[u].proven /\ ~users'[u].guest /\ users'[u].pw = users[u].pw
    BY <2>2, UpgradedRow
  <2> QED
    BY <2>1, <2>3
<1>12. TypeOK'
  BY <1>7, <1>8, <1>9, <1>11, CloseType, DeletionFacts DEF TypeOK
<1>13. AccountOK(u)'
  <2>1. AccountOK(u)
    BY DEF IInv
  <2>2. \A m \in Method : ident'[m] = u => ident[m] = u
    BY <1>6, <1>8, <1>9, DeletionFacts
  <2>3. \A x \in Person : CanUse(x, u)' => (CanUse(x, u) \/ x = w)
    BY <1>6, <1>10, <1>11, <2>2 DEF CanUse
  <2>4. Here(u)' /\ (users'[u].proven \/ users'[u].guest) /\ ~users'[u].guest
    BY <1>6, <1>11, <2>1, InUseIsProven DEF Here
  <2> QED
    BY <1>6, <2>1, <2>3, <2>4, StaysOnePersons
<1>14. u \in Rows(r) /\ X \subseteq Rows(r)
  BY <1>1, <1>2, <1>5, IdentitiesAssumption
<1> QED
  BY <1>6, <1>7, <1>9, <1>11, <1>12, <1>13, <1>14, DeletingCommit

LEMMA UnlinkCommitsStep ==
  ASSUME IInv, NEW r \in Req, UnlinkCommits(r)
  PROVE  IInv'
<1>1. PICK t \in Tx : t = tx[r] /\ Sound(t)
                     /\ Rows(r) = t.doomed \cup ({t.user} \ {None})
  BY OpenTx
<1>2. PICK u \in User : u = t.user
  BY <1>1 DEF UnlinkCommits, Tx, Sound
<1>3. t.method \in Method
  BY <1>1 DEF UnlinkCommits, Tx, Sound
<1>4. ident' = [ident EXCEPT ![t.method] = IF @ = u THEN None ELSE @]
      /\ users' = users /\ holds' = holds /\ Close(r)
  BY <1>1, <1>2 DEF UnlinkCommits
<1>5. /\ ident' \in [Method -> User \cup {None}]
      /\ \A v \in User \ {u}, m \in Method : (ident'[m] = v) <=> (ident[m] = v)
      /\ \A m \in Method : ident'[m] = u => ident[m] = u
  BY <1>3, <1>4, IdentitiesAssumption DEF IInv, TypeOK
<1>6. TypeOK'
  BY <1>4, <1>5, CloseType DEF IInv, TypeOK
<1>7. AccountOK(u)'
  <2>1. AccountOK(u)
    BY DEF IInv
  <2>2. InUse(u)' => InUse(u)
    BY <1>4, <1>5 DEF InUse, Here
  <2>3. \A x \in Person : CanUse(x, u)' => CanUse(x, u)
    BY <1>4, <1>5 DEF CanUse
  <2> QED
    BY <1>4, <1>5, <2>1, <2>2, <2>3 DEF AccountOK, Here
<1>8. PICK D \in SUBSET User : D = {u}
  OBVIOUS
<1>9. \A v \in D : AccountOK(v)' /\ v \in Rows(r)
  BY <1>1, <1>2, <1>7, <1>8, IdentitiesAssumption
<1>10. \A v \in User \ D :
        /\ users'[v] = users[v]
        /\ holds'[v] = holds[v]
        /\ \A m \in Method : (ident'[m] = v) <=> (ident[m] = v)
  BY <1>4, <1>5, <1>8
<1> HIDE <1>8
<1> QED
  BY <1>4, <1>6, <1>9, <1>10, CommitStep

LEMMA RollbackStep ==
  ASSUME IInv, NEW r \in Req, Rollback(r)
  PROVE  IInv'
<1>1. TypeOK'
  BY CloseType DEF Rollback, IInv, TypeOK
<1>2. PICK D \in SUBSET User : D = {}
  OBVIOUS
<1> QED
  BY <1>1, <1>2, CommitStep DEF Rollback

-----------------------------------------------------------------------------
(* The theorems.                                                           *)

LEMMA InitOK == Init => IInv
<1> SUFFICES ASSUME Init PROVE IInv
  OBVIOUS
<1>1. NoRow("new") \in Row /\ NoRow("new").place # "here" /\ ~NoRow("new").guest
  BY DEF NoRow, Row
<1>2. TypeOK
  BY <1>1, ClosedIsSound DEF Init, TypeOK
<1>3. ASSUME NEW u \in User PROVE AccountOK(u)
  BY <1>1, IdentitiesAssumption DEF Init, AccountOK, InUse, Here
<1>4. \A r \in Req : Sound(tx[r]) /\ Rows(r) = {}
  BY ClosedIsSound DEF Init, Rows, Closed
<1> QED
  BY <1>2, <1>3, <1>4 DEF IInv, LocksApart

LEMMA NextOK == IInv /\ [Next]_vars => IInv'
<1> SUFFICES ASSUME IInv, [Next]_vars PROVE IInv'
  OBVIOUS
<1>1. CASE \E p \in Person, e \in Address, u \in User :
             RegisterNew(p, e, u) \/ RegisterAgain(p, e, u)
  BY <1>1, RegisterNewStep, RegisterAgainStep
<1>2. CASE \E u \in User : MarkVerified(u) \/ ResetPassword(u) \/ SetEnabled(u)
                             \/ DeleteUser(u)
  BY <1>2, MarkVerifiedStep, ResetPasswordStep, SetEnabledStep, DeleteUserStep
<1>3. CASE \E p \in Person, u \in User :
             PasswordSignIn(p, u) \/ ChangePassword(p, u) \/ CreateGuest(p, u)
  BY <1>3, PasswordSignInStep, ChangePasswordStep, CreateGuestStep
<1>4. CASE \E p \in Person, m \in Subject : SignInKnown(p, m)
  BY <1>4, SignInKnownStep
<1>5. CASE \E r \in Req, p \in Person, m \in Subject \cup {None}, e \in Address :
             \/ SignInCreates(r, p, m, e)
             \/ \E u \in User : SignInJoins(r, p, m, e, u) \/ SignInTakesOver(r, p, m, e, u)
  BY <1>5, SignInCreatesStep, SignInJoinsStep, SignInTakesOverStep
<1>6. CASE \E r \in Req, p \in Person, u \in User, m \in Method :
             \/ UnlinkBegins(r, p, u, m)
             \/ \E e \in Address : LinkBegins(r, p, u, m, e)
  BY <1>6, UnlinkBeginsStep, LinkBeginsStep
<1>7. CASE \E r \in Req, p \in Person, u \in User, e \in Address : MoveBegins(r, p, u, e)
  BY <1>7, MoveBeginsStep
<1>8. CASE \E r \in Req : \/ SignInCommits(r) \/ LinkCommits(r) \/ UnlinkCommits(r)
                           \/ MoveCommits(r) \/ Rollback(r)
                           \/ \E u \in User : SignInCommitsNew(r, u)
  BY <1>8, SignInCommitsStep, LinkCommitsStep, UnlinkCommitsStep, MoveCommitsStep,
     RollbackStep, SignInCommitsNewStep
<1>9. CASE UNCHANGED vars
  <2>1. TypeOK'
    BY <1>9 DEF vars, IInv, TypeOK
  <2>2. PICK D \in SUBSET User : D = {}
    OBVIOUS
  <2> QED
    BY <1>9, <2>1, <2>2, WriteStep DEF vars
<1> QED
  BY <1>1, <1>2, <1>3, <1>4, <1>5, <1>6, <1>7, <1>8, <1>9 DEF Next

\* The invariant that carries every result below: each account in use is one
\* person's, each transaction's reads hold under the rows it locked (Sound), and
\* no two transactions lock the same row.
THEOREM Invariant == Spec => []IInv
  BY InitOK, NextOK, PTL DEF Spec

\* Every table and every open transaction keeps its type.
THEOREM TypeCorrect == Spec => []TypeOK
<1>1. IInv => TypeOK
  BY DEF IInv
<1> QED
  BY <1>1, Invariant, PTL

\* Whoever proves an identity is never given an account somebody else can use,
\* whatever sign-ups, takeovers, links and address changes run at the same time.
THEOREM AccountsAreOnePersons == Spec => []OnePerson
<1>1. IInv => OnePerson
  BY DEF IInv, AccountOK, OnePerson
<1> QED
  BY <1>1, Invariant, PTL

\* A commit deletes no proven account.
LEMMA CommitsSpareProven ==
  ASSUME IInv, NEW u \in User, Here(u), users[u].proven, NEW r \in Req, NEW v \in User,
         SignInCommitsNew(r, v) \/ LinkCommits(r) \/ MoveCommits(r)
  PROVE  users'[u].place # "gone"
<1>1. PICK t \in Tx : t = tx[r] /\ Sound(t)
  BY OpenTx
<1>2. PICK X \in SUBSET User : X = t.doomed
  BY DEF Tx
<1>3. u \notin X
  BY <1>1, <1>2 DEF Sound
<1>4. Deleted(X) \in [User -> Row] /\ Deleted(X)[u] = users[u]
  BY <1>3, DeletionFacts DEF IInv
<1>5. CASE SignInCommitsNew(r, v)
  <2>1. v # u
    BY <1>5 DEF SignInCommitsNew, Here
  <2>2. PICK s : users' = [Deleted(X) EXCEPT ![v] = s]
    BY <1>1, <1>2, <1>5 DEF SignInCommitsNew
  <2> QED
    BY <1>4, <2>1, <2>2 DEF Here
<1>6. ASSUME LinkCommits(r) \/ MoveCommits(r),
             users' = Upgraded(r, Deleted(X))
      PROVE  users'[u].place # "gone"
  <2>1. PICK w \in User : w = tx[r].user
    BY <1>1, <1>6 DEF LinkCommits, MoveCommits, Sound, Tx
  <2>2. PICK e \in Address : e = tx[r].email
    BY <1>1, <1>6 DEF LinkCommits, MoveCommits, Sound, Tx
  <2> QED
    BY <1>4, <1>6, <2>1, <2>2, UpgradedRow DEF Here
<1>7. CASE LinkCommits(r)
  <2>1. users' = Upgraded(r, Deleted(X)) \/ users' = Deleted(X)
    BY <1>1, <1>2, <1>7 DEF LinkCommits
  <2> QED
    BY <1>4, <1>6, <1>7, <2>1 DEF Here
<1>8. CASE MoveCommits(r)
  <2>1. users' = Upgraded(r, Deleted(X))
    BY <1>1, <1>2, <1>8 DEF MoveCommits
  <2> QED
    BY <1>6, <1>8, <2>1
<1> QED
  BY <1>5, <1>7, <1>8

\* A takeover, a link or an address change deletes unproven accounts only, even
\* when the owner verifies one while it runs: the rows it is about to delete stay
\* unproven because it holds them.
THEOREM ProvenAccountsAreKept == Spec => ProvenIsKept
<1>1. IInv /\ [Next]_vars
        => [\A u \in User : (Here(u) /\ users[u].proven /\ users'[u].place = "gone")
              => DeleteUser(u)]_vars
  <2> SUFFICES ASSUME IInv, Next, NEW u \in User, Here(u), users[u].proven,
                      users'[u].place = "gone"
               PROVE  DeleteUser(u)
    BY DEF vars
  <2>1. CASE \E p \in Person, e \in Address, v \in User :
               RegisterNew(p, e, v) \/ RegisterAgain(p, e, v)
    <3>1. PICK p \in Person, e \in Address, v \in User :
               RegisterNew(p, e, v) \/ RegisterAgain(p, e, v)
      BY <2>1
    <3>2. users[v] \in Row
      BY DEF IInv, TypeOK
    <3>3. users'[u].place # "gone"
      BY <3>1, <3>2 DEF IInv, TypeOK, RegisterNew, RegisterAgain, Row, NoRow, Here
    <3> QED
      BY <3>3
  <2>2. CASE \E v \in User : MarkVerified(v) \/ ResetPassword(v) \/ SetEnabled(v)
    <3>1. PICK v \in User : MarkVerified(v) \/ ResetPassword(v) \/ SetEnabled(v)
      BY <2>2
    <3>2. users[v] \in Row
      BY DEF IInv, TypeOK
    <3>3. users'[u].place = users[u].place
      BY <3>1, <3>2 DEF IInv, TypeOK, MarkVerified, ResetPassword, SetEnabled, Row
    <3> QED
      BY <3>3 DEF Here
  <2>3. CASE \E v \in User : DeleteUser(v)
    <3>1. PICK v \in User : DeleteUser(v)
      BY <2>3
    <3>2. CASE u = v
      BY <3>1, <3>2
    <3>3. CASE u # v
      BY <3>1, <3>3 DEF DeleteUser, Deleted, Here
    <3> QED
      BY <3>2, <3>3
  <2>4. CASE \E p \in Person, v \in User :
               PasswordSignIn(p, v) \/ ChangePassword(p, v) \/ CreateGuest(p, v)
    <3>1. PICK p \in Person, v \in User :
               PasswordSignIn(p, v) \/ ChangePassword(p, v) \/ CreateGuest(p, v)
      BY <2>4
    <3>2. users[v] \in Row
      BY DEF IInv, TypeOK
    <3>3. users'[u].place # "gone"
      BY <3>1, <3>2
         DEF IInv, TypeOK, PasswordSignIn, ChangePassword, CreateGuest, Row, NoRow, Here
    <3> QED
      BY <3>3
  <2>5. CASE UNCHANGED users
    BY <2>5 DEF Here
  <2>6. CASE \E r \in Req : LinkCommits(r) \/ MoveCommits(r)
                            \/ \E v \in User : SignInCommitsNew(r, v)
    BY <2>6, CommitsSpareProven
  <2>7. CASE \E p \in Person, m \in Subject : SignInKnown(p, m)
    BY <2>5, <2>7 DEF SignInKnown
  <2>8. CASE \E r \in Req, p \in Person, m \in Subject \cup {None}, e \in Address :
               \/ SignInCreates(r, p, m, e)
               \/ \E v \in User : SignInJoins(r, p, m, e, v) \/ SignInTakesOver(r, p, m, e, v)
    <3>1. ASSUME NEW r \in Req, NEW p \in Person, NEW m \in Subject \cup {None}, NEW e \in Address,
                 NEW v \in User, SignInJoins(r, p, m, e, v) \/ SignInTakesOver(r, p, m, e, v)
          PROVE  UNCHANGED users
      BY <3>1 DEF SignInJoins, SignInTakesOver
    <3>2. ASSUME NEW r \in Req, NEW p \in Person, NEW m \in Subject \cup {None}, NEW e \in Address,
                 SignInCreates(r, p, m, e)
          PROVE  UNCHANGED users
      BY <3>2 DEF SignInCreates
    <3> QED
      BY <2>5, <2>8, <3>1, <3>2
  <2>9. CASE \E r \in Req, p \in Person, v \in User, m \in Method :
               \/ UnlinkBegins(r, p, v, m)
               \/ \E e \in Address : LinkBegins(r, p, v, m, e)
    <3>1. ASSUME NEW r \in Req, NEW p \in Person, NEW v \in User, NEW m \in Method,
                 NEW e \in Address, LinkBegins(r, p, v, m, e)
          PROVE  UNCHANGED users
      BY <3>1 DEF LinkBegins
    <3>2. ASSUME NEW r \in Req, NEW p \in Person, NEW v \in User, NEW m \in Method,
                 UnlinkBegins(r, p, v, m)
          PROVE  UNCHANGED users
      BY <3>2 DEF UnlinkBegins
    <3> QED
      BY <2>5, <2>9, <3>1, <3>2
  <2>10. CASE \E r \in Req, p \in Person, v \in User, e \in Address : MoveBegins(r, p, v, e)
    BY <2>5, <2>10 DEF MoveBegins
  <2>11. CASE \E r \in Req : SignInCommits(r) \/ UnlinkCommits(r) \/ Rollback(r)
    BY <2>5, <2>11 DEF SignInCommits, UnlinkCommits, Rollback
  <2> QED
    BY <2>1, <2>2, <2>3, <2>4, <2>6, <2>7, <2>8, <2>9, <2>10, <2>11 DEF Next
<1> QED
  BY <1>1, Invariant, PTL DEF Spec, ProvenIsKept

\* An account that loses an identity to an unlink keeps another identity or a
\* password: what UnlinkIdentity counted is still there when it deletes.
THEOREM UnlinkLeavesAWayIn == Spec => UnlinkKeepsAWayIn
<1>1. IInv /\ [Next]_vars
        => [\A r \in Req, u \in User :
              (UnlinkCommits(r) /\ tx[r].user = u)
                => users[u].pw # None \/ \E m \in Method : ident'[m] = u]_vars
  <2> SUFFICES ASSUME IInv, NEW r \in Req, NEW u \in User, UnlinkCommits(r),
                      tx[r].user = u, users[u].pw = None
               PROVE  \E m \in Method : ident'[m] = u
    OBVIOUS
  <2>1. PICK t \in Tx : t = tx[r] /\ Sound(t)
    BY OpenTx
  <2>2. t.method \in Method /\ ident[t.method] = u /\ OtherWayIn(u, t.method)
    BY <2>1 DEF UnlinkCommits, Sound, Tx
  <2>3. PICK m \in Method : ident[m] = u /\ m # t.method
    BY <2>2 DEF OtherWayIn, Methods
  <2>4. ident'[m] = u
    BY <2>1, <2>3 DEF UnlinkCommits, IInv, TypeOK
  <2> QED
    BY <2>4
<1> QED
  BY <1>1, Invariant, PTL DEF Spec, UnlinkKeepsAWayIn

=============================================================================
