-------------------------- MODULE EmailOtpsProofs --------------------------
(* Proofs of the safety properties of EmailOtps, for any addresses, browsers, *)
(* clients, accounts, requests, budgets and times.                         *)
EXTENDS EmailOtps, FiniteSetTheorems, TLAPS

-----------------------------------------------------------------------------
(* Counting.                                                               *)

\* Sets of rows are finite.
LEMMA RowsFinite ==
  ASSUME NEW S \in SUBSET Id
  PROVE  IsFiniteSet(S) /\ Cardinality(S) \in Nat
<1>1. IsFiniteSet(Id)
  BY FS_Interval, EmailOtpsAssumption DEF Id
<1>2. IsFiniteSet(S)
  BY <1>1, FS_Subset
<1> QED
  BY <1>2, FS_CardinalityType

\* Fewer rows count no more.
LEMMA Fewer ==
  ASSUME NEW T \in SUBSET Id, NEW S \in SUBSET T
  PROVE  /\ Cardinality(S) \in Nat /\ Cardinality(T) \in Nat
         /\ Cardinality(S) <= Cardinality(T)
<1>1. IsFiniteSet(T) /\ Cardinality(T) \in Nat
  BY RowsFinite
<1>2. Cardinality(S) \in Nat
  BY RowsFinite
<1> QED
  BY <1>1, <1>2, FS_Subset

\* One row more than fewer than k are k at most.
LEMMA OneMore ==
  ASSUME NEW T \in SUBSET Id, NEW n \in Id, NEW S \in SUBSET (T \cup {n}),
         NEW k \in Nat, Cardinality(T) < k
  PROVE  Cardinality(S) \in Nat /\ Cardinality(S) <= k
<1>1. IsFiniteSet(T) /\ Cardinality(T) \in Nat
  BY RowsFinite
<1>2. Cardinality(T \cup {n}) <= k
  BY <1>1, FS_AddElement
<1>3. Cardinality(S) <= Cardinality(T \cup {n}) /\ Cardinality(S) \in Nat
      /\ Cardinality(T \cup {n}) \in Nat
  <2>1. T \cup {n} \in SUBSET Id
    OBVIOUS
  <2> QED
    BY <2>1, Fewer
<1> QED
  BY <1>2, <1>3

\* What a count looks at.
Same(i) ==
  /\ otps'[i].email = otps[i].email
  /\ otps'[i].made = otps[i].made
  /\ otps'[i].ip = otps[i].ip
  /\ otps'[i].user = otps[i].user
  /\ otps'[i].mailed = otps[i].mailed

\* A step that stores no row keeps every window in budget.
LEMMA WindowsKept ==
  ASSUME TypeOK, TypeOK', WindowsHold, Rows' \subseteq Rows, \A i \in Rows' : Same(i)
  PROVE  WindowsHold'
<1> USE DEF Same
<1>0. Rows \subseteq Id /\ Rows' \subseteq Id
  BY DEF Rows
<1>1. ASSUME NEW i \in Rows', NEW j \in Rows', i # j, otps'[i].email = otps'[j].email
      PROVE  \/ otps'[i].made + MinInterval <= otps'[j].made
             \/ otps'[j].made + MinInterval <= otps'[i].made
  BY <1>1 DEF WindowsHold
<1>2. ASSUME NEW t \in 0 .. MaxTime, NEW age \in Nat
      PROVE  Window(t, age)' \subseteq Window(t, age) /\ Window(t, age) \subseteq Id
  BY <1>0 DEF Window
<1>3. ASSUME NEW t \in 0 .. MaxTime
      PROVE  /\ \A a \in Address : Cardinality(OfAddress(Window(t, Hour), a)') <= PerAddressHour
             /\ \A c \in Client : Cardinality({j \in Window(t, Day) : otps[j].ip = c}') <= PerIPDay
             /\ Cardinality({j \in Window(t, Day) : otps[j].mailed}') <= PerProjectDay
             /\ \A u \in User :
                  Cardinality({j \in Window(t, Day) : otps[j].user = u}') <= LinksPerAccountDay
  <2>0. Hour \in Nat /\ Day \in Nat /\ PerAddressHour \in Nat /\ PerIPDay \in Nat
        /\ PerProjectDay \in Nat /\ LinksPerAccountDay \in Nat
    BY EmailOtpsAssumption
  <2>1. ASSUME NEW a \in Address
        PROVE  Cardinality(OfAddress(Window(t, Hour), a)') <= PerAddressHour
    <3>1. OfAddress(Window(t, Hour), a)' \in SUBSET OfAddress(Window(t, Hour), a)
          /\ OfAddress(Window(t, Hour), a) \in SUBSET Id
      BY <1>2, <2>0 DEF OfAddress, Window
    <3>2. Cardinality(OfAddress(Window(t, Hour), a)) <= PerAddressHour
      BY DEF WindowsHold
    <3> HIDE DEF OfAddress, Window
    <3> QED
      BY <2>0, <3>1, <3>2, Fewer
  <2>2. ASSUME NEW c \in Client
        PROVE  Cardinality({j \in Window(t, Day) : otps[j].ip = c}') <= PerIPDay
    <3> DEFINE T == {j \in Window(t, Day) : otps[j].ip = c}
               S == {j \in Window(t, Day)' : otps'[j].ip = c}
    <3>1. S \in SUBSET T /\ T \in SUBSET Id
      BY <1>2, <2>0 DEF Window
    <3>2. Cardinality(T) <= PerIPDay
      BY DEF WindowsHold
    <3>3. Cardinality(S) <= PerIPDay
      <4> HIDE DEF S, T
      <4> QED
        BY <2>0, <3>1, <3>2, Fewer
    <3> QED
      BY <3>3
  <2>3. Cardinality({j \in Window(t, Day) : otps[j].mailed}') <= PerProjectDay
    <3> DEFINE T == {j \in Window(t, Day) : otps[j].mailed}
               S == {j \in Window(t, Day)' : otps'[j].mailed}
    <3>1. S \in SUBSET T /\ T \in SUBSET Id
      BY <1>2, <2>0 DEF Window
    <3>2. Cardinality(T) <= PerProjectDay
      BY DEF WindowsHold
    <3>3. Cardinality(S) <= PerProjectDay
      <4> HIDE DEF S, T
      <4> QED
        BY <2>0, <3>1, <3>2, Fewer
    <3> QED
      BY <3>3
  <2>4. ASSUME NEW u \in User
        PROVE  Cardinality({j \in Window(t, Day) : otps[j].user = u}') <= LinksPerAccountDay
    <3> DEFINE T == {j \in Window(t, Day) : otps[j].user = u}
               S == {j \in Window(t, Day)' : otps'[j].user = u}
    <3>1. S \in SUBSET T /\ T \in SUBSET Id
      BY <1>2, <2>0 DEF Window
    <3>2. Cardinality(T) <= LinksPerAccountDay
      BY DEF WindowsHold
    <3>3. Cardinality(S) <= LinksPerAccountDay
      <4> HIDE DEF S, T
      <4> QED
        BY <2>0, <3>1, <3>2, Fewer
    <3> QED
      BY <3>3
  <2> QED
    BY <2>1, <2>2, <2>3, <2>4
<1> QED
  BY <1>1, <1>3 DEF WindowsHold

\* A send that has counted is not told otherwise by a step that stores no row.
LEMMA CountsKept ==
  ASSUME TypeOK, TypeOK', Rows' \subseteq Rows, \A i \in Rows' : Same(i), NEW otp \in Otp
  PROVE  /\ WithinLimits(otp) => WithinLimits(otp)'
         /\ Cardinality(MailedToday(otp.made)) < PerProjectDay
              => Cardinality(MailedToday(otp.made)') < PerProjectDay
<1> USE DEF Same
<1>0. Rows \subseteq Id /\ Rows' \subseteq Id
  BY DEF Rows
<1>1. Hour \in Nat /\ Day \in Nat /\ PerAddressHour \in Nat /\ PerIPDay \in Nat
      /\ PerProjectDay \in Nat /\ LinksPerAccountDay \in Nat /\ MinInterval \in Nat
  BY EmailOtpsAssumption
<1>2. ASSUME NEW age \in Nat
      PROVE  Since(otp.made, age)' \subseteq Since(otp.made, age) /\ Since(otp.made, age) \subseteq Id
  BY <1>0 DEF Since
<1> DEFINE A == OfAddress(Since(otp.made, Hour), otp.email)
           C == {i \in Since(otp.made, Day) : otps[i].ip = otp.ip}
           U == {i \in Since(otp.made, Day) : otps[i].user = otp.user}
           M == MailedToday(otp.made)
<1>3. OfAddress(Since(otp.made, MinInterval), otp.email)'
        \subseteq OfAddress(Since(otp.made, MinInterval), otp.email)
  BY <1>1, <1>2 DEF OfAddress, Since
<1>4. A' \in SUBSET A /\ A \in SUBSET Id
  BY <1>1, <1>2 DEF OfAddress, Since
<1>5. C' \in SUBSET C /\ C \in SUBSET Id
  BY <1>1, <1>2 DEF Since
<1>6. U' \in SUBSET U /\ U \in SUBSET Id
  BY <1>1, <1>2 DEF Since
<1>7. M' \in SUBSET M /\ M \in SUBSET Id
  BY <1>1, <1>2 DEF MailedToday, Since
<1>8. /\ Cardinality(A) < PerAddressHour => Cardinality(A') < PerAddressHour
      /\ Cardinality(C) < PerIPDay => Cardinality(C') < PerIPDay
      /\ Cardinality(U) < LinksPerAccountDay => Cardinality(U') < LinksPerAccountDay
      /\ Cardinality(M) < PerProjectDay => Cardinality(M') < PerProjectDay
  <2> HIDE DEF A, C, U, M
  <2>1. /\ Cardinality(A') \in Nat /\ Cardinality(A) \in Nat /\ Cardinality(A') <= Cardinality(A)
    BY <1>4, Fewer
  <2>2. /\ Cardinality(C') \in Nat /\ Cardinality(C) \in Nat /\ Cardinality(C') <= Cardinality(C)
    BY <1>5, Fewer
  <2>3. /\ Cardinality(U') \in Nat /\ Cardinality(U) \in Nat /\ Cardinality(U') <= Cardinality(U)
    BY <1>6, Fewer
  <2>4. /\ Cardinality(M') \in Nat /\ Cardinality(M) \in Nat /\ Cardinality(M') <= Cardinality(M)
    BY <1>7, Fewer
  <2> QED
    BY <1>1, <2>1, <2>2, <2>3, <2>4
<1> QED
  BY <1>3, <1>8 DEF WithinLimits

\* A send that is within limits when it stores its row keeps every window in budget.
LEMMA WindowsGrow ==
  ASSUME TypeOK, TypeOK', WindowsHold, NEW n \in Id, NEW otp \in Otp,
         n \notin Rows, otps'[n] = otp,
         Rows' \subseteq Rows \cup {n}, \A i \in Rows' \ {n} : Same(i),
         WithinLimits(otp), otp.mailed => Cardinality(MailedToday(otp.made)) < PerProjectDay
  PROVE  WindowsHold'
<1> USE DEF Same
<1>0. Rows \subseteq Id /\ Rows' \subseteq Id
  BY DEF Rows
<1>1. Hour \in Nat /\ Day \in Nat /\ PerAddressHour \in Nat /\ PerIPDay \in Nat
      /\ PerProjectDay \in Nat /\ LinksPerAccountDay \in Nat /\ MinInterval \in Nat \ {0}
      /\ MaxTime \in Nat /\ None \notin User
  BY EmailOtpsAssumption
<1>2. otp.made \in 0 .. MaxTime /\ \A i \in Id : otps[i].made \in Int /\ otps'[i].made \in Int
  BY <1>1 DEF TypeOK, Otp, NoOtp
<1>3. ASSUME NEW i \in Rows', NEW j \in Rows', i # j, otps'[i].email = otps'[j].email
      PROVE  \/ otps'[i].made + MinInterval <= otps'[j].made
             \/ otps'[j].made + MinInterval <= otps'[i].made
  <2>1. ASSUME NEW k \in Rows, otps[k].email = otp.email PROVE otps[k].made + MinInterval <= otp.made
    BY <1>0, <1>1, <1>2, <2>1 DEF WithinLimits, OfAddress, Since
  <2>2. CASE i = n
    BY <1>3, <2>1, <2>2
  <2>3. CASE j = n
    BY <1>3, <2>1, <2>3
  <2>4. CASE i # n /\ j # n
    BY <1>3, <2>4 DEF WindowsHold
  <2> QED
    BY <2>2, <2>3, <2>4
<1>4. ASSUME NEW t \in 0 .. MaxTime, NEW age \in Nat, n \notin Window(t, age)'
      PROVE  Window(t, age)' \subseteq Window(t, age)
  BY <1>0, <1>2, <1>4 DEF Window
<1>5. ASSUME NEW t \in 0 .. MaxTime, NEW age \in Nat, n \in Window(t, age)'
      PROVE  Window(t, age)' \subseteq Since(otp.made, age) \cup {n}
  BY <1>0, <1>2, <1>5 DEF Window, Since
<1>6. ASSUME NEW t \in 0 .. MaxTime, NEW age \in Nat
      PROVE  Window(t, age) \subseteq Id /\ Since(otp.made, age) \subseteq Id
             /\ Window(t, age) \subseteq Rows /\ Since(otp.made, age) \subseteq Rows
             /\ Window(t, age)' \subseteq Rows'
  BY <1>0 DEF Window, Since
<1>7. ASSUME NEW t \in 0 .. MaxTime
      PROVE  /\ \A a \in Address : Cardinality(OfAddress(Window(t, Hour), a)') <= PerAddressHour
             /\ \A c \in Client : Cardinality({j \in Window(t, Day) : otps[j].ip = c}') <= PerIPDay
             /\ Cardinality({j \in Window(t, Day) : otps[j].mailed}') <= PerProjectDay
             /\ \A u \in User :
                  Cardinality({j \in Window(t, Day) : otps[j].user = u}') <= LinksPerAccountDay
  <2>1. ASSUME NEW a \in Address
        PROVE  Cardinality(OfAddress(Window(t, Hour), a)') <= PerAddressHour
    <3> DEFINE S == OfAddress(Window(t, Hour), a)'
               T == OfAddress(Window(t, Hour), a)
               L == OfAddress(Since(otp.made, Hour), a)
    <3>1. Cardinality(T) <= PerAddressHour /\ T \in SUBSET Id /\ L \in SUBSET Id
      BY <1>1, <1>6 DEF WindowsHold, OfAddress
    <3>2. CASE n \notin S
      <4>1. S \in SUBSET T
        <5>1. n \notin Window(t, Hour)' \/ otp.email # a
          BY <3>2 DEF OfAddress
        <5>2. Window(t, Hour)' \ {n} \subseteq Window(t, Hour)
          BY <1>0, <1>2 DEF Window
        <5> QED
          BY <1>1, <1>6, <3>2, <5>2 DEF OfAddress
      <4>2. Cardinality(S) <= PerAddressHour
        <5> HIDE DEF S, T
        <5> QED
          BY <1>1, <3>1, <4>1, Fewer
      <4> QED
        BY <4>2
    <3>3. CASE n \in S
      <4>1. otp.email = a /\ S \in SUBSET (L \cup {n})
        BY <1>1, <1>5, <1>6, <3>3 DEF OfAddress
      <4>2. Cardinality(L) < PerAddressHour
        BY <4>1 DEF WithinLimits
      <4>3. Cardinality(S) <= PerAddressHour
        <5> HIDE DEF S, L
        <5> QED
          BY <1>1, <3>1, <4>1, <4>2, OneMore
      <4> QED
        BY <4>3
    <3> QED
      BY <3>2, <3>3
  <2>2. ASSUME NEW c \in Client
        PROVE  Cardinality({j \in Window(t, Day) : otps[j].ip = c}') <= PerIPDay
    <3> DEFINE S == {j \in Window(t, Day)' : otps'[j].ip = c}
               T == {j \in Window(t, Day) : otps[j].ip = c}
               L == {j \in Since(otp.made, Day) : otps[j].ip = c}
    <3>1. Cardinality(T) <= PerIPDay /\ T \in SUBSET Id /\ L \in SUBSET Id
      BY <1>1, <1>6 DEF WindowsHold
    <3>2. CASE n \notin S
      <4>1. S \in SUBSET T
        <5>1. Window(t, Day)' \ {n} \subseteq Window(t, Day)
          BY <1>0, <1>2 DEF Window
        <5> QED
          BY <1>1, <1>6, <3>2, <5>1
      <4>2. Cardinality(S) <= PerIPDay
        <5> HIDE DEF S, T
        <5> QED
          BY <1>1, <3>1, <4>1, Fewer
      <4> QED
        BY <4>2
    <3>3. CASE n \in S
      <4>1. otp.ip = c /\ S \in SUBSET (L \cup {n})
        BY <1>1, <1>5, <1>6, <3>3
      <4>2. Cardinality(L) < PerIPDay
        BY <4>1 DEF WithinLimits
      <4>3. Cardinality(S) <= PerIPDay
        <5> HIDE DEF S, L
        <5> QED
          BY <1>1, <3>1, <4>1, <4>2, OneMore
      <4> QED
        BY <4>3
    <3> QED
      BY <3>2, <3>3
  <2>3. Cardinality({j \in Window(t, Day) : otps[j].mailed}') <= PerProjectDay
    <3> DEFINE S == {j \in Window(t, Day)' : otps'[j].mailed}
               T == {j \in Window(t, Day) : otps[j].mailed}
               L == MailedToday(otp.made)
    <3>1. Cardinality(T) <= PerProjectDay /\ T \in SUBSET Id /\ L \in SUBSET Id
      BY <1>1, <1>6 DEF WindowsHold, MailedToday
    <3>2. CASE n \notin S
      <4>1. S \in SUBSET T
        <5>1. Window(t, Day)' \ {n} \subseteq Window(t, Day)
          BY <1>0, <1>2 DEF Window
        <5> QED
          BY <1>1, <1>6, <3>2, <5>1
      <4>2. Cardinality(S) <= PerProjectDay
        <5> HIDE DEF S, T
        <5> QED
          BY <1>1, <3>1, <4>1, Fewer
      <4> QED
        BY <4>2
    <3>3. CASE n \in S
      <4>1. otp.mailed /\ S \in SUBSET (L \cup {n})
        BY <1>1, <1>5, <1>6, <3>3 DEF MailedToday
      <4>2. Cardinality(L) < PerProjectDay
        BY <4>1
      <4>3. Cardinality(S) <= PerProjectDay
        <5> HIDE DEF S, L
        <5> QED
          BY <1>1, <3>1, <4>1, <4>2, OneMore
      <4> QED
        BY <4>3
    <3> QED
      BY <3>2, <3>3
  <2>4. ASSUME NEW u \in User
        PROVE  Cardinality({j \in Window(t, Day) : otps[j].user = u}') <= LinksPerAccountDay
    <3> DEFINE S == {j \in Window(t, Day)' : otps'[j].user = u}
               T == {j \in Window(t, Day) : otps[j].user = u}
               L == {j \in Since(otp.made, Day) : otps[j].user = u}
    <3>1. Cardinality(T) <= LinksPerAccountDay /\ T \in SUBSET Id /\ L \in SUBSET Id
      BY <1>1, <1>6 DEF WindowsHold
    <3>2. CASE n \notin S
      <4>1. S \in SUBSET T
        <5>1. Window(t, Day)' \ {n} \subseteq Window(t, Day)
          BY <1>0, <1>2 DEF Window
        <5> QED
          BY <1>1, <1>6, <3>2, <5>1
      <4>2. Cardinality(S) <= LinksPerAccountDay
        <5> HIDE DEF S, T
        <5> QED
          BY <1>1, <3>1, <4>1, Fewer
      <4> QED
        BY <4>2
    <3>3. CASE n \in S
      <4>1. otp.user = u /\ S \in SUBSET (L \cup {n})
        BY <1>1, <1>5, <1>6, <3>3
      <4>2. Cardinality(L) < LinksPerAccountDay
        BY <1>1, <4>1 DEF WithinLimits
      <4>3. Cardinality(S) <= LinksPerAccountDay
        <5> HIDE DEF S, L
        <5> QED
          BY <1>1, <3>1, <4>1, <4>2, OneMore
      <4> QED
        BY <4>3
    <3> QED
      BY <3>2, <3>3
  <2> QED
    BY <2>1, <2>2, <2>3, <2>4
<1> QED
  BY <1>3, <1>7 DEF WindowsHold

-----------------------------------------------------------------------------
(* The invariant holds at the start and every action keeps it.             *)

LEMMA InitIInv == Init => IInv
<1> SUFFICES ASSUME Init PROVE IInv
  OBVIOUS
<1>1. TypeOK
  BY EmailOtpsAssumption DEF Init, TypeOK, ReqState, Idle
<1>2. Rows = {}
  BY DEF Init, Rows, NoOtp
<1>3. WindowsHold
  <2>1. \A t \in 0 .. MaxTime, age \in {Hour, Day} : Window(t, age) = {}
    BY <1>2 DEF Window
  <2>2. Cardinality({}) = 0
    BY FS_EmptySet
  <2>3. \A t \in 0 .. MaxTime :
          /\ \A a \in Address : OfAddress(Window(t, Hour), a) = {}
          /\ \A c \in Client : {j \in Window(t, Day) : otps[j].ip = c} = {}
          /\ {j \in Window(t, Day) : otps[j].mailed} = {}
          /\ \A u \in User : {j \in Window(t, Day) : otps[j].user = u} = {}
    BY <2>1 DEF OfAddress
  <2>4. 0 <= PerAddressHour /\ 0 <= PerIPDay /\ 0 <= PerProjectDay /\ 0 <= LinksPerAccountDay
    BY EmailOtpsAssumption
  <2>5. \A t \in 0 .. MaxTime :
          /\ \A a \in Address : Cardinality(OfAddress(Window(t, Hour), a)) <= PerAddressHour
          /\ \A c \in Client : Cardinality({j \in Window(t, Day) : otps[j].ip = c}) <= PerIPDay
          /\ Cardinality({j \in Window(t, Day) : otps[j].mailed}) <= PerProjectDay
          /\ \A u \in User :
               Cardinality({j \in Window(t, Day) : otps[j].user = u}) <= LinksPerAccountDay
    BY <2>2, <2>3, <2>4, Zenon
  <2> QED
    BY <1>2, <2>5, Zenon DEF WindowsHold
<1>4. \A i \in Id : RowOK(i)
  BY DEF Init, RowOK, NoOtp
<1>5. \A r \in Req : req[r].pc = "idle"
  BY DEF Init, Idle
<1> QED
  BY <1>1, <1>3, <1>4, <1>5 DEF IInv

\* A request that goes on holding no lock.
LEMMA LockFreeStep ==
  ASSUME IInv, TypeOK', NEW r \in Req, NEW x, req' = [req EXCEPT ![r] = x],
         x.pc \in {"idle", "begun"}, UNCHANGED <<sent, otps>>
  PROVE  IInv'
<1>1. req \in [Req -> ReqState] /\ \A s \in Req : req'[s] = IF s = r THEN x ELSE req[s]
  BY DEF IInv, TypeOK
<1>2. WindowsHold'
  BY DEF IInv, WindowsHold, Window, Rows, OfAddress
<1>3. \A i \in Id : RowOK(i)'
  BY DEF IInv, RowOK
<1>4. ASSUME NEW s \in Req, req'[s].pc = "store" PROVE SendOK(s)'
  <2>1. req'[s] = req[s] /\ SendOK(s) /\ sent' = sent
    BY <1>1, <1>4 DEF IInv
  <2>2. PICK otp \in Otp : otp = req[s].otp
    BY <2>1 DEF SendOK
  <2>3. /\ WithinLimits(otp)'
        /\ otp.mailed => Cardinality(MailedToday(otp.made)') < PerProjectDay
    BY <2>1, <2>2, CountsKept DEF IInv, SendOK, Rows, Same
  <2>4. \A q \in Req : req'[q].pc = "store" => q = s
    BY <1>1, <2>1 DEF SendOK
  <2> QED
    BY <2>1, <2>2, <2>3, <2>4 DEF SendOK
<1>5. ASSUME NEW s \in Req, req'[s].pc = "check" PROVE TryOK(s)'
  BY <1>1, <1>5 DEF IInv, TryOK, Rows
<1> QED
  BY <1>2, <1>3, <1>4, <1>5 DEF IInv

LEMMA IdleType == Idle \in ReqState /\ Idle.pc = "idle"
  BY EmailOtpsAssumption DEF Idle, ReqState

LEMMA SaveBeginsKeeps ==
  ASSUME IInv, NEW r \in Req, SaveBegins(r) PROVE IInv'
<1> DEFINE x == [Idle EXCEPT !.pc = "begun", !.at = now]
<1>1. x \in ReqState /\ x.pc = "begun"
  BY EmailOtpsAssumption DEF Idle, ReqState, IInv, TypeOK
<1>2. TypeOK'
  BY <1>1 DEF IInv, TypeOK, SaveBegins
<1> QED
  BY <1>1, <1>2, LockFreeStep DEF SaveBegins

LEMMA FinishKeeps ==
  ASSUME IInv, NEW r \in Req, Finish(r), UNCHANGED <<now, sent, otps>> PROVE IInv'
<1>1. TypeOK'
  BY IdleType DEF IInv, TypeOK, Finish
<1> QED
  BY <1>1, IdleType, LockFreeStep DEF Finish

\* What withinOTPLimits has counted is what the send holds the lock row for.
LEMMA SaveCountsKeeps ==
  ASSUME IInv, NEW r \in Req, NEW otp \in Otp, SaveCounts(r, otp),
         otp.here, ~otp.consumed, otp.attempts = 0, otp.tries = 0, otp.wins = 0
  PROVE  IInv'
<1> DEFINE budget == Cardinality(MailedToday(otp.made)) < PerProjectDay
<1>1. PICK mailed \in BOOLEAN : mailed = (otp.mailed /\ budget)
  <2> HIDE DEF budget
  <2> QED
    BY Zenon
<1>0. PICK stored : stored = [otp EXCEPT !.mailed = mailed]
  OBVIOUS
<1>2. /\ stored \in Otp
      /\ stored.here = otp.here /\ stored.email = otp.email /\ stored.ip = otp.ip
      /\ stored.user = otp.user /\ stored.made = otp.made /\ stored.consumed = otp.consumed
      /\ stored.attempts = otp.attempts /\ stored.tries = otp.tries /\ stored.wins = otp.wins
      /\ stored.mailed = mailed
  BY <1>0 DEF Otp
<1>3. /\ req' = [req EXCEPT ![r] = [@ EXCEPT !.pc = "store", !.otp = stored]]
      /\ UNCHANGED <<now, sent, otps>>
  BY <1>0, <1>1 DEF SaveCounts, IInv, TypeOK
<1>4. TypeOK'
  <2>1. [req[r] EXCEPT !.pc = "store", !.otp = stored] \in ReqState
    BY <1>2 DEF IInv, TypeOK, ReqState
  <2> QED
    BY <1>3, <2>1 DEF IInv, TypeOK
<1>5. /\ \A s \in Req : s # r => req'[s] = req[s]
      /\ req'[r].pc = "store" /\ req'[r].otp = stored
  BY <1>3 DEF IInv, TypeOK, ReqState
<1>6. WindowsHold'
  BY <1>3 DEF IInv, WindowsHold, Window, Rows, OfAddress
<1>7. \A i \in Id : RowOK(i)'
  BY <1>3 DEF IInv, RowOK
<1>8. ASSUME NEW s \in Req, req'[s].pc = "store" PROVE SendOK(s)'
  <2>1. s = r
    BY <1>5, <1>8 DEF SaveCounts, LockRowFree
  <2>2. /\ WithinLimits(stored)'
        /\ stored.mailed => Cardinality(MailedToday(stored.made)') < PerProjectDay
    <3>1. WithinLimits(stored)
      BY <1>2 DEF SaveCounts, WithinLimits
    <3>2. stored.mailed => Cardinality(MailedToday(stored.made)) < PerProjectDay
      BY <1>1, <1>2, Zenon
    <3> QED
      BY <1>2, <1>3, <1>4, <3>1, <3>2, CountsKept DEF IInv, Rows, Same
  <2>4. \A q \in Req : req'[q].pc = "store" => q = r
    BY <1>5 DEF SaveCounts, LockRowFree
  <2>3. stored.here /\ ~stored.consumed /\ stored.attempts = 0 /\ stored.tries = 0 /\ stored.wins = 0
    BY <1>2, Zenon
  <2>5. sent' < MaxSends
    BY <1>3 DEF SaveCounts
  <2> QED
    BY <1>2, <1>5, <2>1, <2>2, <2>3, <2>4, <2>5 DEF SendOK
<1>9. ASSUME NEW s \in Req, req'[s].pc = "check" PROVE TryOK(s)'
  BY <1>3, <1>5, <1>9 DEF IInv, TryOK, Rows
<1> QED
  BY <1>4, <1>6, <1>7, <1>8, <1>9 DEF IInv

\* A row that is here is one that was stored.
LEMMA RowTyped ==
  ASSUME TypeOK
  PROVE  /\ \A i \in Id : otps[i] \in Otp \cup {NoOtp}
         /\ \A i \in Rows : i \in Id /\ otps[i] \in Otp /\ otps[i].here
         /\ ~NoOtp.here
<1>1. \A i \in Id : otps[i] \in Otp \cup {NoOtp}
  BY DEF TypeOK
<1>2. ~NoOtp.here
  BY DEF NoOtp
<1> QED
  BY <1>1, <1>2, Zenon DEF Rows

\* What superseding a row, or ending it with the sessions, leaves.
LEMMA Ended ==
  ASSUME NEW otp \in Otp, NEW ended, ended = [otp EXCEPT !.consumed = TRUE]
  PROVE  /\ ended \in Otp /\ ended.here = otp.here /\ ended.email = otp.email
         /\ ended.made = otp.made /\ ended.ip = otp.ip /\ ended.user = otp.user
         /\ ended.mailed = otp.mailed /\ ended.kind = otp.kind /\ ended.consumed
         /\ ended.tries = otp.tries /\ ended.wins = otp.wins
  BY DEF Otp

\* A send stores what it counted, and the rows it ends are held by no try.
LEMMA SaveStoresKeeps ==
  ASSUME IInv, NEW r \in Req, SaveStores(r) PROVE IInv'
<1>1. PICK otp \in Otp : otp = req[r].otp
  BY DEF IInv, SaveStores, SendOK
<1>2. PICK n \in Id : n = sent + 1
  BY EmailOtpsAssumption DEF IInv, TypeOK, SaveStores, SendOK, Id
<1>3. /\ otp.here /\ ~otp.consumed /\ otp.attempts = 0 /\ otp.tries = 0 /\ otp.wins = 0
      /\ WithinLimits(otp)
      /\ otp.mailed => Cardinality(MailedToday(otp.made)) < PerProjectDay
      /\ \A s \in Req : req[s].pc = "store" => s = r
  BY <1>1 DEF IInv, SaveStores, SendOK
<1>4. n \notin Rows
  BY <1>2 DEF IInv, RowOK, Rows, TypeOK
<1>5. /\ otps'[n] = otp
      /\ \A i \in Id : i # n =>
           otps'[i] = IF i \in Stale(otp) THEN NoOtp
                      ELSE IF i \in Superseded(otp) THEN [otps[i] EXCEPT !.consumed = TRUE]
                      ELSE otps[i]
  BY <1>1, <1>2 DEF SaveStores
<1>6. /\ sent' = sent + 1 /\ now' = now
      /\ \A s \in Req : req'[s] = IF s = r THEN Idle ELSE req[s]
  BY DEF SaveStores, Finish, IInv, TypeOK
<1>7. /\ \A i \in Id : otps[i] \in Otp \cup {NoOtp}
      /\ \A i \in Rows : i \in Id /\ otps[i] \in Otp /\ otps[i].here
      /\ ~NoOtp.here
  BY RowTyped DEF IInv
<1>9. \A i \in Id : i # n =>
        /\ otps'[i] = NoOtp \/ otps'[i] = otps[i]
           \/ (i \in Rows /\ otps'[i] = [otps[i] EXCEPT !.consumed = TRUE])
        /\ (~\A s \in Req : req[s].pc = "check" => req[s].id # i) => otps'[i] = otps[i]
  BY <1>1, <1>5 DEF Stale, Superseded, SaveStores, RowFree
<1>10. TypeOK'
  <2>1. \A i \in Id : otps'[i] \in Otp \cup {NoOtp}
    BY <1>5, <1>7, <1>9, Ended
  <2>2. otps' \in [Id -> Otp \cup {NoOtp}]
    <3>1. otps' = [i \in Id |-> otps'[i]]
      BY DEF SaveStores
    <3> QED
      BY <2>1, <3>1
  <2>3. sent' \in 0 .. MaxSends
    BY <1>1, <1>6, EmailOtpsAssumption DEF IInv, TypeOK, SaveStores, SendOK
  <2>4. req' \in [Req -> ReqState]
    BY IdleType DEF IInv, TypeOK, SaveStores, Finish
  <2> QED
    BY <1>6, <2>2, <2>3, <2>4 DEF IInv, TypeOK
<1>11. /\ Rows' \subseteq Rows \cup {n}
       /\ \A i \in Rows' \ {n} : Same(i)
  <2> SUFFICES ASSUME NEW i \in Id, i # n, otps'[i].here PROVE i \in Rows /\ Same(i)
    BY DEF Rows
  <2>1. otps'[i] # NoOtp
    BY <1>7
  <2>2. CASE otps'[i] = otps[i]
    BY <2>2 DEF Rows, Same
  <2>3. CASE i \in Rows /\ otps'[i] = [otps[i] EXCEPT !.consumed = TRUE]
    BY <1>7, <2>3, Ended DEF Same
  <2> QED
    BY <1>9, <2>1, <2>2, <2>3
<1>12. WindowsHold'
  BY <1>3, <1>4, <1>5, <1>10, <1>11, WindowsGrow DEF IInv
<1>13. ASSUME NEW i \in Id PROVE RowOK(i)'
  <2>1. CASE i = n
    BY <1>2, <1>3, <1>5, <1>6, <2>1, EmailOtpsAssumption DEF RowOK, Otp, IInv, TypeOK
  <2>2. CASE i # n /\ otps'[i] = NoOtp
    BY <2>2 DEF RowOK, NoOtp
  <2>3. CASE i # n /\ otps'[i] = otps[i]
    BY <1>6, <2>3 DEF IInv, RowOK, TypeOK, Id
  <2>4. CASE i # n /\ i \in Rows /\ otps'[i] = [otps[i] EXCEPT !.consumed = TRUE]
    <3>1. RowOK(i) /\ otps[i].here /\ otps[i] \in Otp
      BY <1>7, <2>4 DEF IInv
    <3>2. /\ otps'[i].consumed /\ otps'[i].wins = otps[i].wins /\ otps'[i].tries = otps[i].tries
          /\ otps'[i].kind = otps[i].kind
      BY <2>4, <3>1, Ended
    <3> QED
      BY <1>6, <3>1, <3>2 DEF RowOK, IInv, TypeOK, Id
  <2> QED
    BY <1>9, <2>1, <2>2, <2>3, <2>4
<1>14. ASSUME NEW s \in Req, req'[s].pc = "store" PROVE SendOK(s)'
  BY <1>3, <1>6, <1>14, IdleType
<1>15. ASSUME NEW s \in Req, req'[s].pc = "check" PROVE TryOK(s)'
  <2>1. req'[s] = req[s] /\ TryOK(s)
    BY <1>6, <1>15, IdleType DEF IInv
  <2>2. PICK i \in Rows : i = req[s].id
    BY <2>1 DEF TryOK
  <2>3. otps'[i] = otps[i]
    BY <1>4, <1>9, <1>15, <2>1, <2>2 DEF Rows
  <2>4. \A q \in Req : req'[q].pc = "check" /\ req'[q].id = i => q = s
    BY <1>6, <2>1, <2>2, IdleType DEF TryOK
  <2> QED
    BY <2>1, <2>2, <2>3, <2>4 DEF TryOK, Rows
<1> QED
  BY <1>10, <1>12, <1>13, <1>14, <1>15 DEF IInv

\* A try reads a live row that no other try holds.
LEMMA RedeemReadsKeeps ==
  ASSUME IInv, NEW r \in Req, NEW i \in Id, NEW b \in Browser, RedeemReads(r, i, b)
  PROVE  IInv'
<1>1. PICK x : x = [Idle EXCEPT !.pc = "check", !.id = i, !.seen = otps[i].attempts, !.browser = b]
  OBVIOUS
<1>2. i \in Rows /\ ~otps[i].consumed
  BY DEF RedeemReads, Offered, Live, Rows
<1>3. otps[i].attempts \in Nat
  BY <1>2, RowTyped, EmailOtpsAssumption DEF IInv, Otp
<1>4. /\ x \in ReqState /\ x.pc = "check" /\ x.id = i /\ x.seen = otps[i].attempts
  BY <1>1, <1>3, IdleType DEF Idle, ReqState
<1>5. /\ UNCHANGED <<now, sent, otps>>
      /\ req' = [req EXCEPT ![r] = x]
  BY <1>1 DEF RedeemReads
<1>6. \A s \in Req : req'[s] = IF s = r THEN x ELSE req[s]
  BY <1>5 DEF IInv, TypeOK
<1>7. TypeOK'
  BY <1>4, <1>5 DEF IInv, TypeOK
<1>8. WindowsHold'
  BY <1>5 DEF IInv, WindowsHold, Window, Rows, OfAddress
<1>9. \A j \in Id : RowOK(j)'
  BY <1>5 DEF IInv, RowOK
<1>10. ASSUME NEW s \in Req, req'[s].pc = "store" PROVE SendOK(s)'
  <2>1. req'[s] = req[s] /\ SendOK(s) /\ sent' = sent
    BY <1>4, <1>5, <1>6, <1>10 DEF IInv
  <2>2. PICK otp \in Otp : otp = req[s].otp
    BY <2>1 DEF SendOK
  <2>3. /\ WithinLimits(otp)'
        /\ otp.mailed => Cardinality(MailedToday(otp.made)') < PerProjectDay
    BY <1>5, <1>7, <2>1, <2>2, CountsKept DEF IInv, SendOK, Rows, Same
  <2>4. \A q \in Req : req'[q].pc = "store" => q = s
    BY <1>4, <1>6, <2>1 DEF SendOK
  <2> QED
    BY <2>1, <2>2, <2>3, <2>4 DEF SendOK
<1>11. ASSUME NEW s \in Req, req'[s].pc = "check" PROVE TryOK(s)'
  <2>1. RowFree(i)
    BY DEF RedeemReads
  <2>2. CASE s = r
    BY <1>2, <1>4, <1>5, <1>6, <2>1, <2>2 DEF TryOK, Rows, RowFree
  <2>3. CASE s # r
    BY <1>4, <1>5, <1>6, <1>11, <2>1, <2>3 DEF IInv, TryOK, Rows, RowFree
  <2> QED
    BY <2>2, <2>3
<1> QED
  BY <1>7, <1>8, <1>9, <1>10, <1>11 DEF IInv

\* A step that only ends or deletes rows, none of them held by a try.
LEMMA RowsEndStep ==
  ASSUME IInv, NEW gone \in SUBSET Rows, NEW ended \in SUBSET Rows,
         \A i \in gone \cup ended : RowFree(i),
         otps' = [i \in Id |-> IF i \in gone THEN NoOtp
                               ELSE IF i \in ended THEN [otps[i] EXCEPT !.consumed = TRUE]
                               ELSE otps[i]],
         UNCHANGED <<now, sent, req>>
  PROVE  IInv'
<1>1. /\ \A i \in Id : otps[i] \in Otp \cup {NoOtp}
      /\ \A i \in Rows : i \in Id /\ otps[i] \in Otp /\ otps[i].here
      /\ ~NoOtp.here
  BY RowTyped DEF IInv
<1>2. \A i \in Id :
        \/ otps'[i] = NoOtp /\ i \in gone
        \/ otps'[i] = otps[i]
        \/ i \in ended /\ otps'[i] = [otps[i] EXCEPT !.consumed = TRUE]
  OBVIOUS
<1>3. TypeOK'
  <2>1. \A i \in Id : otps'[i] \in Otp \cup {NoOtp}
    BY <1>1, <1>2, Ended
  <2>2. otps' = [i \in Id |-> otps'[i]]
    OBVIOUS
  <2> QED
    BY <2>1, <2>2 DEF IInv, TypeOK
<1>4. Rows' \subseteq Rows /\ \A i \in Rows' : Same(i)
  <2> SUFFICES ASSUME NEW i \in Id, otps'[i].here PROVE i \in Rows /\ Same(i)
    BY DEF Rows
  <2>1. otps'[i] # NoOtp
    BY <1>1
  <2>2. CASE otps'[i] = otps[i]
    BY <2>2 DEF Rows, Same
  <2>3. CASE i \in ended /\ otps'[i] = [otps[i] EXCEPT !.consumed = TRUE]
    BY <1>1, <2>3, Ended DEF Same
  <2> QED
    BY <1>2, <2>1, <2>2, <2>3
<1>5. WindowsHold'
  BY <1>3, <1>4, WindowsKept DEF IInv
<1>6. ASSUME NEW i \in Id PROVE RowOK(i)'
  <2>1. CASE otps'[i] = NoOtp
    BY <1>1, <2>1 DEF RowOK
  <2>2. CASE otps'[i] = otps[i]
    BY <2>2 DEF IInv, RowOK
  <2>3. CASE i \in ended /\ otps'[i] = [otps[i] EXCEPT !.consumed = TRUE]
    <3>1. RowOK(i) /\ otps[i].here /\ otps[i] \in Otp
      BY <1>1, <2>3 DEF IInv
    <3>2. /\ otps'[i].consumed /\ otps'[i].wins = otps[i].wins /\ otps'[i].tries = otps[i].tries
          /\ otps'[i].kind = otps[i].kind
      BY <2>3, <3>1, Ended
    <3> QED
      BY <3>1, <3>2 DEF RowOK
  <2> QED
    BY <1>2, <2>1, <2>2, <2>3
<1>7. ASSUME NEW s \in Req, req'[s].pc = "store" PROVE SendOK(s)'
  <2>1. req' = req /\ sent' = sent /\ SendOK(s)
    BY <1>7 DEF IInv
  <2>2. PICK otp \in Otp : otp = req[s].otp
    BY <2>1 DEF SendOK
  <2>3. /\ WithinLimits(otp)'
        /\ otp.mailed => Cardinality(MailedToday(otp.made)') < PerProjectDay
    BY <1>3, <1>4, <2>1, <2>2, CountsKept DEF IInv, SendOK
  <2> QED
    BY <2>1, <2>2, <2>3 DEF SendOK
<1>8. ASSUME NEW s \in Req, req'[s].pc = "check" PROVE TryOK(s)'
  <2>1. req' = req /\ TryOK(s) /\ req[s].pc = "check"
    BY <1>8 DEF IInv
  <2>2. PICK i \in Rows : i = req[s].id
    BY <2>1 DEF TryOK
  <2>3. otps'[i] = otps[i]
    BY <1>1, <2>1, <2>2 DEF RowFree
  <2> QED
    BY <1>1, <2>1, <2>2, <2>3 DEF TryOK, Rows
<1> QED
  BY <1>3, <1>5, <1>6, <1>7, <1>8 DEF IInv

LEMMA EndLinksKeeps ==
  ASSUME IInv, NEW u \in User, EndLinks(u) PROVE IInv'
<1>1. PICK ended \in SUBSET Rows : ended = {i \in Rows : otps[i].user = u /\ ~otps[i].consumed}
  OBVIOUS
<1>2. PICK gone \in SUBSET Rows : gone = {}
  OBVIOUS
<1>3. /\ \A i \in gone \cup ended : RowFree(i)
      /\ otps' = [i \in Id |-> IF i \in gone THEN NoOtp
                               ELSE IF i \in ended THEN [otps[i] EXCEPT !.consumed = TRUE]
                               ELSE otps[i]]
      /\ UNCHANGED <<now, sent, req>>
  BY <1>1, <1>2 DEF EndLinks
<1> QED
  BY <1>3, RowsEndStep

LEMMA DeleteUserKeeps ==
  ASSUME IInv, NEW u \in User, DeleteUser(u) PROVE IInv'
<1>1. PICK owned \in SUBSET Rows : owned = {i \in Rows : otps[i].user = u}
  OBVIOUS
<1>2. /\ \A i \in owned \cup {} : RowFree(i)
      /\ otps' = [i \in Id |-> IF i \in owned THEN NoOtp
                               ELSE IF i \in {} THEN [otps[i] EXCEPT !.consumed = TRUE]
                               ELSE otps[i]]
      /\ UNCHANGED <<now, sent, req>>
  BY <1>1 DEF DeleteUser
<1> QED
  BY <1>2, RowsEndStep

\* What the UPDATE of a try leaves of a row that was live.
LEMMA TriedRow ==
  ASSUME NEW otp \in Otp, NEW seen \in Nat, NEW accepted \in BOOLEAN, seen < PerCode,
         NEW tried, tried = Tried(otp, seen, accepted)
  PROVE  /\ tried \in Otp /\ tried.here = otp.here /\ tried.email = otp.email
         /\ tried.made = otp.made /\ tried.ip = otp.ip /\ tried.user = otp.user
         /\ tried.mailed = otp.mailed /\ tried.kind = otp.kind
         /\ tried.attempts = (IF accepted THEN seen ELSE seen + 1)
         /\ tried.consumed = Spent(otp.kind, seen, accepted)
         /\ tried.tries = otp.tries + 1
         /\ tried.wins = (IF accepted THEN otp.wins + 1 ELSE otp.wins)
<1>1. PICK consumed \in BOOLEAN : consumed = Spent(otp.kind, seen, accepted)
  BY DEF Spent
<1>2. PICK attempts \in 0 .. PerCode : attempts = IF accepted THEN seen ELSE seen + 1
  BY EmailOtpsAssumption
<1>3. PICK wins \in Nat : wins = IF accepted THEN otp.wins + 1 ELSE otp.wins
  BY DEF Otp
<1>4. PICK tries \in Nat : tries = otp.tries + 1
  BY DEF Otp
<1>5. tried = [otp EXCEPT !.attempts = attempts, !.consumed = consumed, !.tries = tries, !.wins = wins]
  BY <1>1, <1>2, <1>3, <1>4, Zenon DEF Tried
<1>6. /\ tried \in Otp /\ tried.here = otp.here /\ tried.email = otp.email
      /\ tried.made = otp.made /\ tried.ip = otp.ip /\ tried.user = otp.user
      /\ tried.mailed = otp.mailed /\ tried.kind = otp.kind
      /\ tried.attempts = attempts /\ tried.consumed = consumed
      /\ tried.tries = tries /\ tried.wins = wins
  BY <1>5 DEF Otp
<1> QED
  BY <1>1, <1>2, <1>3, <1>4, <1>6, Zenon

\* A try holds the row it counts on.
LEMMA RedeemCommitsKeeps ==
  ASSUME IInv, NEW r \in Req, NEW accepted \in BOOLEAN, RedeemCommits(r, accepted)
  PROVE  IInv'
<1>1. TryOK(r) /\ req[r].pc = "check"
  BY DEF IInv, RedeemCommits
<1>2. PICK i \in Rows : i = req[r].id
  BY <1>1 DEF TryOK
<1>3. /\ \A j \in Id : otps[j] \in Otp \cup {NoOtp}
      /\ \A j \in Rows : j \in Id /\ otps[j] \in Otp /\ otps[j].here
  BY RowTyped DEF IInv
<1>4. PICK seen \in Nat : seen = req[r].seen
  BY DEF IInv, TypeOK, ReqState
<1>5. /\ otps[i].attempts = seen /\ ~otps[i].consumed /\ otps[i].wins = 0
      /\ otps[i].tries = seen /\ seen < PerCode
      /\ otps[i].kind = "link" => otps[i].tries = 0
      /\ i <= sent
  BY <1>1, <1>2, <1>3, <1>4 DEF TryOK, IInv, RowOK
<1>6. PICK tried : tried = Tried(otps[i], seen, accepted)
  OBVIOUS
<1>7. /\ \A j \in Id : otps'[j] = IF j = i THEN tried ELSE otps[j]
      /\ otps' = [otps EXCEPT ![i] = tried]
  BY <1>2, <1>3, <1>4, <1>6 DEF RedeemCommits, IInv, TypeOK
<1>8. /\ tried \in Otp /\ tried.here = otps[i].here /\ tried.email = otps[i].email
      /\ tried.made = otps[i].made /\ tried.ip = otps[i].ip /\ tried.user = otps[i].user
      /\ tried.mailed = otps[i].mailed /\ tried.kind = otps[i].kind
      /\ tried.attempts = (IF accepted THEN seen ELSE seen + 1)
      /\ tried.consumed = Spent(otps[i].kind, seen, accepted)
      /\ tried.tries = otps[i].tries + 1
      /\ tried.wins = (IF accepted THEN otps[i].wins + 1 ELSE otps[i].wins)
  BY <1>3, <1>5, <1>6, TriedRow
<1>9. /\ UNCHANGED <<now, sent>>
      /\ \A s \in Req : req'[s] = IF s = r THEN Idle ELSE req[s]
      /\ req' \in [Req -> ReqState]
  BY IdleType DEF RedeemCommits, Finish, IInv, TypeOK
<1>10. TypeOK'
  BY <1>7, <1>8, <1>9 DEF IInv, TypeOK
<1>11. Rows' = Rows /\ \A j \in Rows' : Same(j)
  <2>1. ASSUME NEW j \in Id PROVE otps'[j].here = otps[j].here /\ Same(j)
    BY <1>7, <1>8 DEF Same
  <2> QED
    BY <2>1 DEF Rows
<1>12. WindowsHold'
  BY <1>10, <1>11, WindowsKept DEF IInv
<1>13. ASSUME NEW j \in Id PROVE RowOK(j)'
  <2>1. CASE j # i
    BY <1>7, <1>9, <2>1 DEF IInv, RowOK
  <2>2. CASE j = i
    <3>1. otps'[j] = tried /\ sent' = sent /\ otps[i].kind \in {"link", "code"}
      BY <1>3, <1>7, <1>9, <2>2 DEF Otp
    <3>2. ~tried.consumed => ~Spent(otps[i].kind, seen, accepted)
      BY <1>8, Zenon
    <3>3. ~Spent(otps[i].kind, seen, accepted) =>
            ~accepted /\ otps[i].kind = "code" /\ seen + 1 < PerCode
      BY <3>1, EmailOtpsAssumption DEF Spent
    <3>4. /\ tried.kind = otps[i].kind /\ tried.tries = seen + 1
          /\ accepted => tried.wins = otps[i].wins + 1
          /\ ~accepted => tried.wins = otps[i].wins /\ tried.attempts = seen + 1
      BY <1>5, <1>8, Zenon
    <3>5. /\ tried.wins <= 1
          /\ tried.tries <= IF tried.kind = "link" THEN 1 ELSE PerCode
          /\ ~accepted => tried.wins = 0
      BY <1>5, <3>4, EmailOtpsAssumption
    <3> QED
      BY <1>5, <2>2, <3>1, <3>2, <3>3, <3>4, <3>5 DEF RowOK
  <2> QED
    BY <2>1, <2>2
<1>14. ASSUME NEW s \in Req, req'[s].pc = "store" PROVE SendOK(s)'
  <2>1. req'[s] = req[s] /\ SendOK(s) /\ sent' = sent
    BY <1>9, <1>14, IdleType DEF IInv
  <2>2. PICK otp \in Otp : otp = req[s].otp
    BY <2>1 DEF SendOK
  <2>3. /\ WithinLimits(otp)'
        /\ otp.mailed => Cardinality(MailedToday(otp.made)') < PerProjectDay
    BY <1>10, <1>11, <2>1, <2>2, CountsKept DEF IInv, SendOK
  <2>4. \A q \in Req : req'[q].pc = "store" => q = s
    BY <1>9, <2>1, IdleType DEF SendOK
  <2> QED
    BY <2>1, <2>2, <2>3, <2>4 DEF SendOK
<1>15. ASSUME NEW s \in Req, req'[s].pc = "check" PROVE TryOK(s)'
  <2>1. s # r /\ req'[s] = req[s] /\ TryOK(s) /\ req[s].pc = "check"
    BY <1>9, <1>15, IdleType DEF IInv
  <2>2. PICK j \in Rows : j = req[s].id
    BY <2>1 DEF TryOK
  <2>3. j # i
    BY <1>1, <1>2, <2>1, <2>2 DEF TryOK
  <2>4. otps'[j] = otps[j]
    BY <1>3, <1>7, <2>2, <2>3
  <2>5. \A q \in Req : req'[q].pc = "check" /\ req'[q].id = j => q = s
    BY <1>9, <2>1, <2>2, IdleType DEF TryOK
  <2> QED
    BY <1>11, <2>1, <2>2, <2>4, <2>5 DEF TryOK
<1> QED
  BY <1>10, <1>12, <1>13, <1>14, <1>15 DEF IInv

LEMMA TickKeeps ==
  ASSUME IInv, now' \in 0 .. MaxTime, UNCHANGED <<sent, otps, req>> PROVE IInv'
<1>1. TypeOK'
  BY DEF IInv, TypeOK
<1>3. WindowsHold'
  BY DEF IInv, WindowsHold, Window, Rows, OfAddress
<1>4. \A i \in Id : RowOK(i)'
  BY DEF IInv, RowOK
<1>5. ASSUME NEW s \in Req, req'[s].pc = "store" PROVE SendOK(s)'
  <2>1. req' = req /\ sent' = sent /\ SendOK(s)
    BY <1>5 DEF IInv
  <2>2. PICK otp \in Otp : otp = req[s].otp
    BY <2>1 DEF SendOK
  <2>3. /\ WithinLimits(otp)'
        /\ otp.mailed => Cardinality(MailedToday(otp.made)') < PerProjectDay
    BY <1>1, <2>1, <2>2, CountsKept DEF IInv, SendOK, Rows, Same
  <2> QED
    BY <2>1, <2>2, <2>3 DEF SendOK
<1>6. ASSUME NEW s \in Req, req'[s].pc = "check" PROVE TryOK(s)'
  BY <1>6 DEF IInv, TryOK, Rows
<1> QED
  BY <1>1, <1>3, <1>4, <1>5, <1>6 DEF IInv

-----------------------------------------------------------------------------
(* The theorems.                                                           *)

LEMMA NewOtpType ==
  ASSUME NEW at \in 0 .. MaxTime, NEW a \in Address, NEW kind \in Kind, NEW b \in Browser,
         NEW c \in Client, NEW u \in User \cup {None}, NEW mailed \in BOOLEAN,
         NEW otp, otp = NewOtp(at, a, kind, b, c, u, mailed)
  PROVE  /\ otp \in Otp
         /\ otp.here /\ ~otp.consumed /\ otp.attempts = 0 /\ otp.tries = 0 /\ otp.wins = 0
<1>1. otp = [here |-> TRUE, email |-> a, kind |-> kind, challenge |-> b, mailed |-> mailed,
             ip |-> c, user |-> u, made |-> at, attempts |-> 0, consumed |-> FALSE,
             tries |-> 0, wins |-> 0]
  BY DEF NewOtp, NoOtp
<1>2. 0 \in 0 .. PerCode
  BY EmailOtpsAssumption
<1>3. otp \in Otp
  BY <1>1, <1>2 DEF Otp, Kind
<1> QED
  BY <1>1, <1>3

LEMMA NextIInv == IInv /\ [Next]_vars => IInv'
<1> SUFFICES ASSUME IInv, [Next]_vars PROVE IInv'
  OBVIOUS
<1>0. \A r \in Req : req[r].at \in 0 .. MaxTime
  BY DEF IInv, TypeOK, ReqState
<1>1. ASSUME NEW r \in Req, NEW a \in Address, NEW kind \in Kind, NEW b \in Browser,
             NEW c \in Client, NEW u \in User \cup {None}, NEW mailed \in BOOLEAN,
             NEW otp, otp = NewOtp(req[r].at, a, kind, b, c, u, mailed),
             SaveCounts(r, otp) \/ SaveRefused(r, otp)
      PROVE  IInv'
  <2>0. PICK at \in 0 .. MaxTime : at = req[r].at
    BY <1>0
  <2>1. /\ otp \in Otp
        /\ otp.here /\ ~otp.consumed /\ otp.attempts = 0 /\ otp.tries = 0 /\ otp.wins = 0
    BY <1>1, <2>0, NewOtpType
  <2>2. CASE SaveCounts(r, otp)
    BY <2>1, <2>2, SaveCountsKeeps
  <2>3. CASE SaveRefused(r, otp)
    BY <2>3, FinishKeeps DEF SaveRefused
  <2> QED
    BY <1>1, <2>2, <2>3
<1>2. ASSUME NEW r \in Req, NEW a \in Address, NEW kind \in Kind, NEW b \in Browser,
             NEW c \in Client, SendOTP(r, a, kind, b, c)
      PROVE  IInv'
  <2>1. PICK mailed \in BOOLEAN :
          LET otp == NewOtp(req[r].at, a, kind, b, c, None, mailed)
          IN  SaveCounts(r, otp) \/ SaveRefused(r, otp)
    BY <1>2 DEF SendOTP
  <2> QED
    BY <1>1, <2>1
<1>3. ASSUME NEW r \in Req, NEW a \in Address, NEW kind \in Kind, NEW b \in Browser,
             NEW c \in Client, NEW u \in User, StartAddressLink(r, a, kind, b, c, u)
      PROVE  IInv'
  BY <1>1, <1>3 DEF StartAddressLink
<1>4. ASSUME NEW r \in Req, SaveBegins(r) PROVE IInv'
  BY <1>4, SaveBeginsKeeps
<1>5. ASSUME NEW r \in Req, SaveStores(r) PROVE IInv'
  BY <1>5, SaveStoresKeeps
<1>6. ASSUME NEW r \in Req, Abort(r) PROVE IInv'
  BY <1>6, FinishKeeps DEF Abort
<1>7. ASSUME NEW r \in Req, NEW i \in Id, NEW b \in Browser, RedeemReads(r, i, b) PROVE IInv'
  BY <1>7, RedeemReadsKeeps
<1>8. ASSUME NEW r \in Req, NEW accepted \in BOOLEAN, RedeemCommits(r, accepted) PROVE IInv'
  BY <1>8, RedeemCommitsKeeps
<1>9. ASSUME NEW u \in User, EndLinks(u) PROVE IInv'
  BY <1>9, EndLinksKeeps
<1>10. ASSUME NEW u \in User, DeleteUser(u) PROVE IInv'
  BY <1>10, DeleteUserKeeps
<1>11. CASE Tick
  <2>1. now' \in 0 .. MaxTime
    BY <1>11, EmailOtpsAssumption DEF Tick, IInv, TypeOK
  <2> QED
    BY <1>11, <2>1, TickKeeps DEF Tick
<1>12. CASE UNCHANGED vars
  <2>1. now' \in 0 .. MaxTime
    BY <1>12 DEF vars, IInv, TypeOK
  <2> QED
    BY <1>12, <2>1, TickKeeps DEF vars
<1> QED
  BY <1>2, <1>3, <1>4, <1>5, <1>6, <1>7, <1>8, <1>9, <1>10, <1>11, <1>12 DEF Next

\* The rows, the requests and what each of them has read stay consistent.
THEOREM Invariance == Spec => []IInv
<1> QED
  BY InitIInv, NextIInv, PTL DEF Spec

LEMMA BudgetsOfWindows == IInv => SendBudgetsHold
<1> SUFFICES ASSUME IInv, NEW i \in Rows
             PROVE  /\ OfAddress(Before(i, MinInterval), otps[i].email) = {i}
                    /\ Cardinality(OfAddress(Before(i, Hour), otps[i].email)) <= PerAddressHour
                    /\ Cardinality({j \in Before(i, Day) : otps[j].ip = otps[i].ip}) <= PerIPDay
                    /\ Cardinality({j \in Before(i, Day) : otps[j].mailed}) <= PerProjectDay
                    /\ otps[i].user # None =>
                         Cardinality({j \in Before(i, Day) : otps[j].user = otps[i].user})
                           <= LinksPerAccountDay
  BY DEF SendBudgetsHold
<1>1. \A j \in Rows : otps[j] \in Otp
  BY RowTyped DEF IInv
<1>2. /\ otps[i].made \in 0 .. MaxTime /\ otps[i].email \in Address /\ otps[i].ip \in Client
      /\ otps[i].user # None => otps[i].user \in User
      /\ \A j \in Rows : otps[j].made \in Int
  BY <1>1, EmailOtpsAssumption DEF Otp
<1>3. OfAddress(Before(i, MinInterval), otps[i].email) = {i}
  BY <1>2, EmailOtpsAssumption DEF IInv, WindowsHold, OfAddress, Before, Window
<1> QED
  BY <1>2, <1>3 DEF IInv, WindowsHold, Before

\* For any budgets and however many requests send at once: the rows of email_otps
\* keep every budget of OTPLimits, over every stretch of time that ends with a row.
THEOREM BudgetsHold == Spec => []SendBudgetsHold
<1> QED
  BY Invariance, BudgetsOfWindows, PTL

\* For any number of tries at once: a link is compared once, a code OTPAttempts
\* times, and neither is accepted twice.
THEOREM TriesHold == Spec => []TriesAreCounted
<1>1. IInv => TriesAreCounted
  BY DEF IInv, RowOK, TriesAreCounted, Rows
<1> QED
  BY <1>1, Invariance, PTL

\* No step takes consumed_at back from a row: a try that writes NULL holds a row
\* that was live when it read it and that nobody could end meanwhile.
THEOREM ConsumedStays == Spec => ConsumedForGood
<1> DEFINE Kept(i) == ~otps'[i].here \/ otps'[i].consumed
<1>1. ASSUME IInv, [Next]_vars, NEW i \in Rows, otps[i].consumed PROVE Kept(i)
  <2>1. i \in Id /\ otps[i] \in Otp
    BY <1>1, RowTyped DEF IInv
  <2>2. ASSUME NEW r \in Req, SaveStores(r) PROVE Kept(i)
    <3>1. i # sent + 1
      BY <1>1, <2>1 DEF IInv, RowOK, Rows, TypeOK
    <3> QED
      BY <1>1, <2>1, <2>2, <3>1 DEF SaveStores, Stale, Superseded, NoOtp
  <2>3. ASSUME NEW r \in Req, NEW accepted \in BOOLEAN, RedeemCommits(r, accepted) PROVE Kept(i)
    <3>1. req[r].id # i
      BY <1>1, <2>3 DEF IInv, RedeemCommits, TryOK
    <3> QED
      BY <1>1, <2>1, <2>3, <3>1 DEF RedeemCommits, IInv, TypeOK
  <2>4. ASSUME NEW u \in User, EndLinks(u) PROVE Kept(i)
    BY <1>1, <2>1, <2>4 DEF EndLinks
  <2>5. ASSUME NEW u \in User, DeleteUser(u) PROVE Kept(i)
    BY <1>1, <2>1, <2>5 DEF DeleteUser, NoOtp
  <2>6. ASSUME otps' = otps PROVE Kept(i)
    BY <1>1, <2>6
  <2>7. CASE UNCHANGED vars
    BY <2>6, <2>7 DEF vars
  <2>8. CASE Next
    <3>1. ASSUME NEW r \in Req, NEW a \in Address, NEW kind \in Kind, NEW b \in Browser,
                 NEW c \in Client, SendOTP(r, a, kind, b, c)
          PROVE  otps' = otps
      BY <3>1 DEF SendOTP, SaveCounts, SaveRefused
    <3>2. ASSUME NEW r \in Req, NEW a \in Address, NEW kind \in Kind, NEW b \in Browser,
                 NEW c \in Client, NEW u \in User, StartAddressLink(r, a, kind, b, c, u)
          PROVE  otps' = otps
      BY <3>2 DEF StartAddressLink, SaveCounts, SaveRefused
    <3>3. ASSUME NEW r \in Req, SaveBegins(r) \/ Abort(r) PROVE otps' = otps
      BY <3>3 DEF SaveBegins, Abort
    <3>4. ASSUME NEW r \in Req, NEW j \in Id, NEW b \in Browser, RedeemReads(r, j, b)
          PROVE  otps' = otps
      BY <3>4 DEF RedeemReads
    <3>5. ASSUME Tick PROVE otps' = otps
      BY <3>5 DEF Tick
    <3> HIDE DEF Kept
    <3> QED
      BY <2>2, <2>3, <2>4, <2>5, <2>6, <2>8, <3>1, <3>2, <3>3, <3>4, <3>5 DEF Next
  <2> QED
    BY <1>1, <2>7, <2>8
<1>2. IInv /\ [Next]_vars =>
        [\A i \in Rows : otps[i].consumed => ~otps'[i].here \/ otps'[i].consumed]_vars
  BY <1>1
<1> QED
  BY <1>2, Invariance, PTL DEF Spec, ConsumedForGood

=============================================================================
