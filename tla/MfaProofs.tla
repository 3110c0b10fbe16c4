----------------------------- MODULE MfaProofs -----------------------------
(* Proofs of the safety properties of Mfa, for any sessions, factors, challenges, *)
(* requests, limits and times.                                             *)
EXTENDS Mfa, FiniteSetTheorems, TLAPS

-----------------------------------------------------------------------------
(* Counting wrong codes.                                                   *)

\* Fewer rows count no more.
LEMMA Fewer ==
  ASSUME NEW T, IsFiniteSet(T), NEW S \in SUBSET T
  PROVE  /\ IsFiniteSet(S) /\ Cardinality(S) \in Nat /\ Cardinality(T) \in Nat
         /\ Cardinality(S) <= Cardinality(T)
  BY FS_Subset, FS_CardinalityType

\* One row more than fewer than k are k at most.
LEMMA OneMore ==
  ASSUME NEW T, IsFiniteSet(T), NEW x, NEW S \in SUBSET (T \cup {x}), NEW k \in Nat,
         Cardinality(T) < k
  PROVE  Cardinality(S) <= k
<1>1. Cardinality(T) \in Nat
  BY FS_CardinalityType
<1>2. IsFiniteSet(T \cup {x}) /\ Cardinality(T \cup {x}) <= k
  BY <1>1, FS_AddElement
<1>3. /\ Cardinality(S) \in Nat /\ Cardinality(T \cup {x}) \in Nat
      /\ Cardinality(S) <= Cardinality(T \cup {x})
  BY <1>2, Fewer
<1> QED
  BY <1>2, <1>3

\* A step that records no wrong code keeps every budget, and every attempt that was
\* let through still would be.
LEMMA BudgetsKept ==
  ASSUME TypeOK, TypeOK', IsFiniteSet(failures), failures' \subseteq failures, now <= now'
  PROVE  /\ IsFiniteSet(failures')
         /\ BudgetsHold => BudgetsHold'
         /\ \A s \in Family, f \in Factor \cup {None}, level \in Level :
              FailureBudget(s, f, level) => FailureBudget(s, f, level)'
<1>0. /\ Day \in Nat /\ Window \in Nat /\ now \in Nat /\ now' \in Nat
      /\ MaxFailures \in Nat /\ MaxDailyFailures \in Nat /\ MaxAccountDailyFailures \in Nat
      /\ \A x \in failures : x.at \in Nat
  BY MfaAssumption DEF TypeOK, FailureRow
<1>1. IsFiniteSet(failures')
  BY Fewer
<1>2. ASSUME NEW s \in Family, NEW f \in Factor \cup {None}
      PROVE  /\ Cardinality(RecentFailures(s, f)') \in Nat /\ Cardinality(RecentFailures(s, f)) \in Nat
             /\ Cardinality(RecentFailures(s, f)') <= Cardinality(RecentFailures(s, f))
  <2>1. RecentFailures(s, f)' \in SUBSET RecentFailures(s, f) /\ RecentFailures(s, f) \in SUBSET failures
    BY <1>0 DEF RecentFailures, Recent
  <2>2. IsFiniteSet(RecentFailures(s, f))
    BY <2>1, Fewer
  <2> QED
    BY <2>1, <2>2, Fewer
<1>3. ASSUME NEW s \in Family
      PROVE  /\ Cardinality(DayFailures(s)') \in Nat /\ Cardinality(DayFailures(s)) \in Nat
             /\ Cardinality(DayFailures(s)') <= Cardinality(DayFailures(s))
  <2>1. DayFailures(s)' \in SUBSET DayFailures(s) /\ DayFailures(s) \in SUBSET failures
    BY <1>0 DEF DayFailures, OfToday
  <2>2. IsFiniteSet(DayFailures(s))
    BY <2>1, Fewer
  <2> QED
    BY <2>1, <2>2, Fewer
<1>4. AccountFailures' \in SUBSET AccountFailures /\ AccountFailures \in SUBSET failures
  BY <1>0 DEF AccountFailures, OfToday
<1>5. /\ Cardinality(AccountFailures') \in Nat /\ Cardinality(AccountFailures) \in Nat
      /\ Cardinality(AccountFailures') <= Cardinality(AccountFailures)
  <2>1. IsFiniteSet(AccountFailures)
    BY <1>4, Fewer
  <2> QED
    BY <1>4, <2>1, Fewer
<1> DEFINE Low == {x \in AccountFailures : x.level = 1}
<1>6. /\ Cardinality(Low') \in Nat /\ Cardinality(Low) \in Nat
      /\ Cardinality(Low') <= Cardinality(Low)
  <2>1. Low' \in SUBSET Low /\ Low \in SUBSET failures
    BY <1>4
  <2> HIDE DEF Low
  <2>2. IsFiniteSet(Low)
    BY <2>1, Fewer
  <2> QED
    BY <2>1, <2>2, Fewer
<1>7. ASSUME BudgetsHold PROVE BudgetsHold'
  <2>1. ASSUME NEW s \in Family, NEW f \in Factor \cup {None}
        PROVE  Cardinality(RecentFailures(s, f)') <= MaxFailures
    BY <1>0, <1>2, <1>7 DEF BudgetsHold
  <2>2. ASSUME NEW s \in Family PROVE Cardinality(DayFailures(s)') <= MaxDailyFailures
    BY <1>0, <1>3, <1>7 DEF BudgetsHold
  <2>3. Cardinality(Low) <= MaxAccountDailyFailures
    BY <1>7 DEF BudgetsHold
  <2>4. Cardinality(Low') <= MaxAccountDailyFailures
    <3> HIDE DEF Low
    <3> QED
      BY <1>0, <1>6, <2>3
  <2> QED
    BY <2>1, <2>2, <2>4 DEF BudgetsHold
<1>8. ASSUME NEW s \in Family, NEW f \in Factor \cup {None}, NEW level \in Level,
             FailureBudget(s, f, level)
      PROVE  FailureBudget(s, f, level)'
  BY <1>0, <1>2, <1>3, <1>5, <1>8 DEF FailureBudget
<1> QED
  BY <1>1, <1>7, <1>8

\* recordFailure finds an id, and stores one row beside those it keeps.
LEMMA RecordedType ==
  ASSUME TypeOK, IsFiniteSet(failures), NEW s \in Family, NEW f \in Factor \cup {None},
         NEW level \in Level
  PROVE  \E x \in FailureRow :
           /\ x.family = s /\ x.factor = f /\ x.level = level /\ x.at = now
           /\ Recorded(s, f, level) \subseteq failures \cup {x}
<1> DEFINE kept == {x \in failures : x.at >= now - Day}
           n == Cardinality(kept)
           ids == {x.id : x \in kept}
           free(i) == \A x \in kept : x.id # i
<1>1. kept \in SUBSET failures /\ kept \subseteq FailureRow
  BY DEF TypeOK
<1>2. IsFiniteSet(kept) /\ n \in Nat
  BY <1>1, Fewer, FS_CardinalityType
<1>3. \E i \in 0 .. n : free(i)
  <2> SUFFICES ASSUME \A i \in 0 .. n : ~free(i) PROVE FALSE
    OBVIOUS
  <2>1. 0 .. n \in SUBSET ids
    OBVIOUS
  <2> HIDE DEF n, kept
  <2>2. IsFiniteSet(ids) /\ Cardinality(ids) <= Cardinality(kept)
    <3>1. [x \in kept |-> x.id] \in Surjection(kept, ids)
      BY DEF Surjection
    <3> QED
      BY <1>2, <3>1, FS_Surjection
  <2>3. Cardinality(0 .. n) = n + 1
    BY <1>2, FS_Interval
  <2>4. Cardinality(0 .. n) <= Cardinality(ids) /\ Cardinality(ids) \in Nat
    BY <2>1, <2>2, Fewer
  <2> QED
    BY <1>2, <2>2, <2>3, <2>4 DEF n
<1>4. PICK id \in Nat : id = CHOOSE i \in 0 .. n : free(i)
  <2> HIDE DEF n, free
  <2>1. (CHOOSE i \in 0 .. n : free(i)) \in 0 .. n
    BY <1>3
  <2> QED
    BY <1>2, <2>1
<1>5. PICK x \in FailureRow : x = [id |-> id, family |-> s, factor |-> f, level |-> level, at |-> now]
  BY <1>4 DEF TypeOK, FailureRow
<1>6. Recorded(s, f, level) = kept \cup {x}
  BY <1>4, <1>5 DEF Recorded
<1> QED
  BY <1>1, <1>5, <1>6

\* A wrong code that the budget let through keeps every budget.
LEMMA BudgetsGrow ==
  ASSUME TypeOK, IsFiniteSet(failures), BudgetsHold,
         NEW s \in Family, NEW f \in Factor \cup {None}, NEW level \in Level,
         FailureBudget(s, f, level), failures' = Recorded(s, f, level), now' = now
  PROVE  IsFiniteSet(failures') /\ failures' \subseteq FailureRow /\ BudgetsHold'
<1>0. /\ MaxFailures \in Nat /\ MaxDailyFailures \in Nat /\ MaxAccountDailyFailures \in Nat
  BY MfaAssumption
<1>1. PICK x \in FailureRow :
        /\ x.family = s /\ x.factor = f /\ x.level = level /\ x.at = now
        /\ failures' \subseteq failures \cup {x}
  BY RecordedType
<1>2. IsFiniteSet(failures') /\ failures' \subseteq FailureRow
  <2>1. IsFiniteSet(failures \cup {x})
    BY FS_AddElement
  <2> QED
    BY <1>1, <2>1, Fewer DEF TypeOK
<1>3. ASSUME NEW t \in Family, NEW g \in Factor \cup {None}
      PROVE  Cardinality(RecentFailures(t, g)') <= MaxFailures
  <2>1. RecentFailures(t, g) \in SUBSET failures
    BY DEF RecentFailures
  <2>2. IsFiniteSet(RecentFailures(t, g))
    BY <2>1, Fewer
  <2>3. CASE t = s /\ g = f
    <3>1. RecentFailures(t, g)' \in SUBSET (RecentFailures(t, g) \cup {x})
      BY <1>1 DEF RecentFailures, Recent
    <3>2. Cardinality(RecentFailures(t, g)) < MaxFailures
      BY <2>3 DEF FailureBudget
    <3> QED
      BY <1>0, <2>2, <3>1, <3>2, OneMore
  <2>4. CASE ~(t = s /\ g = f)
    <3>1. RecentFailures(t, g)' \in SUBSET RecentFailures(t, g)
      BY <1>1, <2>4 DEF RecentFailures, Recent
    <3>2. Cardinality(RecentFailures(t, g)) <= MaxFailures
      BY DEF BudgetsHold
    <3> QED
      BY <1>0, <2>2, <3>1, <3>2, Fewer
  <2> QED
    BY <2>3, <2>4
<1>4. ASSUME NEW t \in Family PROVE Cardinality(DayFailures(t)') <= MaxDailyFailures
  <2>1. DayFailures(t) \in SUBSET failures
    BY DEF DayFailures
  <2>2. IsFiniteSet(DayFailures(t))
    BY <2>1, Fewer
  <2>3. CASE t = s
    <3>1. DayFailures(t)' \in SUBSET (DayFailures(t) \cup {x})
      BY <1>1 DEF DayFailures, OfToday
    <3>2. Cardinality(DayFailures(t)) < MaxDailyFailures
      BY <2>3 DEF FailureBudget
    <3> QED
      BY <1>0, <2>2, <3>1, <3>2, OneMore
  <2>4. CASE t # s
    <3>1. DayFailures(t)' \in SUBSET DayFailures(t)
      BY <1>1, <2>4 DEF DayFailures, OfToday
    <3>2. Cardinality(DayFailures(t)) <= MaxDailyFailures
      BY DEF BudgetsHold
    <3> QED
      BY <1>0, <2>2, <3>1, <3>2, Fewer
  <2> QED
    BY <2>3, <2>4
<1> DEFINE Low == {y \in AccountFailures : y.level = 1}
<1>5. Cardinality(Low') <= MaxAccountDailyFailures
  <2>1. AccountFailures \in SUBSET failures /\ Low \in SUBSET AccountFailures
    BY DEF AccountFailures
  <2>2. IsFiniteSet(AccountFailures)
    BY <2>1, Fewer
  <2>3. CASE f # None /\ level = 1
    <3>1. Low' \in SUBSET (AccountFailures \cup {x})
      BY <1>1 DEF AccountFailures, OfToday
    <3>2. Cardinality(AccountFailures) < MaxAccountDailyFailures
      BY <2>3 DEF FailureBudget
    <3> HIDE DEF Low
    <3> QED
      BY <1>0, <2>2, <3>1, <3>2, OneMore
  <2>4. CASE ~(f # None /\ level = 1)
    <3>1. Low' \in SUBSET Low
      BY <1>1, <2>4 DEF AccountFailures, OfToday
    <3>2. Cardinality(Low) <= MaxAccountDailyFailures
      BY DEF BudgetsHold
    <3> HIDE DEF Low
    <3>3. IsFiniteSet(Low)
      BY <2>1, <2>2, Fewer
    <3> QED
      BY <1>0, <3>1, <3>2, <3>3, Fewer
  <2> QED
    BY <2>3, <2>4
<1> QED
  BY <1>2, <1>3, <1>4, <1>5 DEF BudgetsHold

-----------------------------------------------------------------------------
(* Types.                                                                  *)

LEMMA IdleType == Idle \in ReqState /\ Idle.pc = "idle"
  BY DEF Idle, ReqState, PCs, Level

\* What deleting factors leaves.
LEMMA RemovedType ==
  ASSUME TypeOK, NEW S
  PROVE  /\ Removed(S) \in [Factor -> FactorRow]
         /\ \A f \in Factor :
              /\ f \in S => Removed(S)[f].status = "none"
              /\ f \notin S => Removed(S)[f] = factors[f]
         /\ ChallengesWithout(S) \subseteq challenges
         /\ FailuresWithout(S) \subseteq failures
<1>1. [status |-> "none", last |-> -1, made |-> 0] \in FactorRow
  BY DEF FactorRow
<1> QED
  BY <1>1 DEF TypeOK, Removed, ChallengesWithout, FailuresWithout

\* What ending sessions leaves.
LEMMA SpentType ==
  ASSUME TypeOK, NEW S
  PROVE  /\ Spent(S) \in [Req -> ReqState]
         /\ \A r \in Req :
              /\ req[r].family \in S =>
                   ~Spent(S)[r].holds /\ Spent(S)[r] = [req[r] EXCEPT !.holds = FALSE]
              /\ req[r].family \notin S => Spent(S)[r] = req[r]
         /\ Ended(S) \in [Family -> {"none", "aal1", "aal2"}]
         /\ Forgotten(S) \in [Family -> {"none", "code", "carried"}]
<1>1. \A r \in Req : req[r] \in ReqState
  BY DEF TypeOK
<1>2. \A r \in Req :
        /\ [req[r] EXCEPT !.holds = FALSE] \in ReqState
        /\ ~[req[r] EXCEPT !.holds = FALSE].holds
  BY <1>1 DEF ReqState
<1>3. \A r \in Req : Spent(S)[r] = IF req[r].family \in S THEN [req[r] EXCEPT !.holds = FALSE] ELSE req[r]
  BY DEF Spent
<1>4. Spent(S) \in [Req -> ReqState]
  BY <1>1, <1>2 DEF Spent
<1> QED
  BY <1>2, <1>3, <1>4 DEF TypeOK, Ended, Forgotten

-----------------------------------------------------------------------------
(* Steps, by what they leave alone.                                        *)

\* A request that at most loses its token.
Waits(q) == req'[q] \in {req[q], [req[q] EXCEPT !.holds = FALSE]}

\* The requests that do not act keep what they have read: the factor and the budget
\* because they hold the account's row, the proof because nobody takes it from a
\* session that can still be elevated.
LEMMA OthersKeep ==
  ASSUME IInv, TypeOK', now <= now', NEW q \in Req, Waits(q),
         q \in Holders => factors' = factors /\ failures' \subseteq failures,
         req'[q].holds => req[q].holds,
         req[q].family \in Family /\ req'[q].holds /\ proof[req[q].family] # "none"
           => proof'[req[q].family] # "none"
  PROVE  RequestOK(q)'
<1>1. PICK old \in ReqState : old = req[q]
  BY DEF IInv, TypeOK
<1>2. PICK new \in ReqState : new = req'[q]
  BY DEF TypeOK
<1>3. /\ new.pc = old.pc /\ new.level = old.level /\ new.family = old.family
      /\ new.factor = old.factor /\ new.step = old.step
  BY <1>1, <1>2 DEF Waits, ReqState
<1>4. RequestOK(q)
  BY DEF IInv
<1>5. new.pc = "accept" =>
        /\ new.factor \in Factor
        /\ new.step > factors'[new.factor].last
        /\ factors'[new.factor].status # "verified" /\ Verified' # {} => new.level = 2
  BY <1>1, <1>3, <1>4 DEF RequestOK, Holders, Verified
<1>6. ASSUME NEW f \in Factor \cup {None}, q \in Holders, old.family \in Family,
             FailureBudget(old.family, f, old.level)
      PROVE  FailureBudget(new.family, f, new.level)'
  <2>1. old.level \in Level
    BY DEF ReqState
  <2>2. FailureBudget(old.family, f, old.level)'
    BY <1>6, <2>1, BudgetsKept DEF IInv
  <2> QED
    BY <1>3, <2>2
<1>7. new.pc = "miss" => new.factor \in Factor /\ FailureBudget(new.family, new.factor, new.level)'
  BY <1>1, <1>3, <1>4, <1>6 DEF RequestOK, Holders
<1>8. new.pc = "redeem" => FailureBudget(new.family, None, new.level)'
  BY <1>1, <1>3, <1>4, <1>6 DEF RequestOK, Holders
<1>9. /\ new.pc \in {"verify", "accept", "miss", "recover", "redeem", "elevate"} => new.family \in Family
      /\ new.pc = "elevate" /\ new.holds => proof'[new.family] # "none"
  BY <1>1, <1>2, <1>3, <1>4 DEF RequestOK
<1> QED
  BY <1>2, <1>5, <1>7, <1>8, <1>9 DEF RequestOK

\* One request acts, and afterwards holds nothing.
LEMMA ActsUnlocked ==
  ASSUME IInv, TypeOK', NEW r \in Req, NEW x \in ReqState, req' = [req EXCEPT ![r] = x],
         x.pc \notin {"accept", "miss", "redeem"},
         x.pc \in {"verify", "recover", "elevate"} => x.family \in Family,
         x.pc = "elevate" /\ x.holds => proof'[x.family] # "none",
         now' = now, failures' \subseteq failures,
         factors' = factors \/ Holders \subseteq {r},
         ElevatedIsProved',
         \A q \in Req \ {r} : req[q].family \in Family /\ proof[req[q].family] # "none"
                               => proof'[req[q].family] # "none"
  PROVE  IInv'
<1>0. now <= now'
  BY DEF IInv, TypeOK
<1>1. \A q \in Req : req'[q] = IF q = r THEN x ELSE req[q]
  BY DEF IInv, TypeOK
<1>2. IsFiniteSet(failures') /\ BudgetsHold'
  BY <1>0, BudgetsKept DEF IInv
<1>3. OneHolder'
  BY <1>1 DEF IInv, OneHolder, Holders
<1>4. ASSUME NEW q \in Req PROVE RequestOK(q)'
  <2>1. CASE q = r
    BY <1>1, <2>1 DEF RequestOK
  <2>2. CASE q # r
    <3>1. Waits(q) /\ req'[q] = req[q]
      BY <1>1, <2>2 DEF Waits
    <3>2. q \in Holders => factors' = factors
      BY <2>2
    <3> QED
      BY <1>0, <2>2, <3>1, <3>2, OthersKeep
  <2> QED
    BY <2>1, <2>2
<1> QED
  BY <1>2, <1>3, <1>4 DEF IInv

\* Sessions, tokens or the clock move, and the requests at most lose their tokens.
LEMMA WorldMoves ==
  ASSUME IInv, TypeOK', now <= now', failures' \subseteq failures,
         factors' = factors \/ Holders = {}, ElevatedIsProved',
         \A q \in Req :
           /\ Waits(q)
           /\ req'[q].holds => req[q].holds
           /\ req[q].family \in Family /\ req'[q].holds /\ proof[req[q].family] # "none"
                => proof'[req[q].family] # "none"
  PROVE  IInv'
<1>1. IsFiniteSet(failures') /\ BudgetsHold'
  BY BudgetsKept DEF IInv
<1>2. \A q \in Req : req'[q].pc = req[q].pc
  BY DEF IInv, TypeOK, ReqState, Waits
<1>3. OneHolder'
  BY <1>2 DEF IInv, OneHolder, Holders
<1>4. \A q \in Req : RequestOK(q)'
  BY OthersKeep
<1> QED
  BY <1>1, <1>3, <1>4 DEF IInv

-----------------------------------------------------------------------------
(* The invariant holds at the start and every action keeps it.             *)

LEMMA InitIInv == Init => IInv
<1> SUFFICES ASSUME Init PROVE IInv
  OBVIOUS
<1>1. TypeOK
  BY IdleType, MfaAssumption DEF Init, TypeOK, FactorRow
<1>2. IsFiniteSet(failures) /\ Cardinality({}) = 0
  BY FS_EmptySet DEF Init
<1>3. BudgetsHold
  <2>1. /\ \A s \in Family :
             /\ \A f \in Factor \cup {None} : RecentFailures(s, f) = {}
             /\ DayFailures(s) = {}
        /\ {x \in AccountFailures : x.level = 1} = {}
    BY DEF Init, RecentFailures, DayFailures, AccountFailures
  <2>2. 0 <= MaxFailures /\ 0 <= MaxDailyFailures /\ 0 <= MaxAccountDailyFailures
    BY MfaAssumption
  <2> QED
    BY <1>2, <2>1, <2>2, Zenon DEF BudgetsHold
<1>4. ElevatedIsProved
  BY DEF Init, ElevatedIsProved
<1>5. \A r \in Req : req[r].pc = "idle"
  BY IdleType DEF Init
<1> QED
  BY <1>1, <1>2, <1>3, <1>4, <1>5 DEF IInv, OneHolder, Holders, RequestOK

\* A call that arrives: nothing but its own record changes.
LEMMA CallKeeps ==
  ASSUME IInv, NEW r \in Req, Call(r) PROVE IInv'
<1>1. ASSUME NEW x \in ReqState, x.pc \notin {"accept", "miss", "redeem", "elevate"},
             x.pc \in {"verify", "recover"} => x.family \in Family,
             req' = [req EXCEPT ![r] = x], calls' = calls + 1,
             UNCHANGED <<now, factors, challenges, codes, failures, sessions, jwt, proof>>
      PROVE  IInv'
  <2>1. TypeOK'
    BY <1>1 DEF IInv, TypeOK
  <2>2. ElevatedIsProved'
    BY <1>1 DEF IInv, ElevatedIsProved
  <2> QED
    BY <1>1, <2>1, <2>2, ActsUnlocked
<1>2. ASSUME NEW pc \in {"enroll", "unenroll", "change"}, NEW level \in Level, Begin(r, pc, level)
      PROVE  IInv'
  <2>0. [Idle EXCEPT !.pc = pc, !.level = level] \in ReqState
    BY IdleType DEF ReqState, PCs
  <2>1. PICK x \in ReqState : x = [Idle EXCEPT !.pc = pc, !.level = level]
    BY <2>0
  <2>2. x.pc = pc
    BY <2>1, IdleType DEF ReqState
  <2> QED
    BY <1>1, <1>2, <2>1, <2>2 DEF Begin, Called
<1>3. ASSUME NEW pc \in {"verify", "recover"}, NEW s \in Family, NEW level \in Level,
             StepUpSession(r, s, level, pc)
      PROVE  IInv'
  <2>0. [Idle EXCEPT !.pc = pc, !.level = level, !.family = s, !.holds = TRUE] \in ReqState
    BY IdleType DEF ReqState, PCs
  <2>1. PICK x \in ReqState :
          x = [Idle EXCEPT !.pc = pc, !.level = level, !.family = s, !.holds = TRUE]
    BY <2>0
  <2>2. x.pc = pc /\ x.family = s
    BY <2>1, IdleType DEF ReqState
  <2> QED
    BY <1>1, <1>3, <2>1, <2>2 DEF StepUpSession, Called
<1>4. ASSUME RegenerateRecoveryCodes(r) PROVE IInv'
  <2>0. [Idle EXCEPT !.pc = "regenerate", !.level = 2] \in ReqState
    BY IdleType DEF ReqState, PCs, Level
  <2>1. PICK x \in ReqState : x = [Idle EXCEPT !.pc = "regenerate", !.level = 2]
    BY <2>0
  <2>2. x.pc = "regenerate"
    BY <2>1, IdleType DEF ReqState
  <2> QED
    BY <1>1, <1>4, <2>1, <2>2 DEF RegenerateRecoveryCodes, Called
<1>5. 1 \in Level
  BY DEF Level
<1> QED
  BY <1>2, <1>3, <1>4, <1>5
  DEF Call, EnrollFactor, UnenrollFactor, ChangePasswordAsked, VerifyFactor, RecoverWithCode

\* A request that ends without touching factors or sessions.
LEMMA FinishKeeps ==
  ASSUME IInv, NEW r \in Req, Finish(r), codes' \in 0 .. CodeCount, jwt' \subseteq Level,
         UNCHANGED <<now, factors, challenges, failures, sessions, calls, proof>>
  PROVE  IInv'
<1>1. TypeOK'
  BY IdleType DEF IInv, TypeOK, Finish
<1>2. ElevatedIsProved'
  BY DEF IInv, ElevatedIsProved
<1> QED
  BY <1>1, <1>2, IdleType, ActsUnlocked DEF Finish

LEMMA CreateFactorKeeps ==
  ASSUME IInv, NEW r \in Req, NEW f \in Factor, CreateFactor(r, f) PROVE IInv'
<1>1. PICK stale : stale = {g \in Factor : Stale(g)}
  OBVIOUS
<1>2. /\ Removed(stale) \in [Factor -> FactorRow]
      /\ ChallengesWithout(stale) \subseteq challenges /\ FailuresWithout(stale) \subseteq failures
  BY RemovedType DEF IInv
<1>3. [status |-> "unverified", last |-> -1, made |-> now] \in FactorRow
  BY DEF IInv, TypeOK, FactorRow
<1>4. /\ factors' \in [Factor -> FactorRow]
      /\ challenges' \subseteq challenges /\ failures' \subseteq failures
  BY <1>1, <1>2, <1>3 DEF CreateFactor
<1>5. TypeOK'
  BY <1>4, IdleType DEF IInv, TypeOK, CreateFactor, Finish
<1>6. ElevatedIsProved'
  BY DEF IInv, ElevatedIsProved, CreateFactor
<1> QED
  BY <1>4, <1>5, <1>6, IdleType, ActsUnlocked DEF CreateFactor, Finish, AccountFree

LEMMA DeleteFactorKeeps ==
  ASSUME IInv, NEW r \in Req, NEW f \in Factor, DeleteFactor(r, f) PROVE IInv'
<1>1. /\ factors' \in [Factor -> FactorRow]
      /\ challenges' \subseteq challenges /\ failures' \subseteq failures
  BY RemovedType DEF IInv, DeleteFactor
<1>2. codes' \in 0 .. CodeCount
  BY MfaAssumption DEF IInv, TypeOK, DeleteFactor, CodesWithout
<1>3. TypeOK'
  BY <1>1, <1>2, IdleType DEF IInv, TypeOK, DeleteFactor, Finish
<1>4. ElevatedIsProved'
  BY DEF IInv, ElevatedIsProved, DeleteFactor
<1> QED
  BY <1>1, <1>3, <1>4, IdleType, ActsUnlocked DEF DeleteFactor, Finish, AccountFree

\* A request takes the account's row.
LEMMA TakesRow ==
  ASSUME IInv, NEW r \in Req, NEW x \in ReqState, AccountFree, req' = [req EXCEPT ![r] = x],
         UNCHANGED <<now, factors, challenges, codes, failures, sessions, jwt, calls, proof>>,
         x.pc \in {"accept", "miss", "redeem"}, x.family \in Family,
         x.pc = "accept" =>
           /\ x.factor \in Factor
           /\ x.step > factors[x.factor].last
           /\ factors[x.factor].status # "verified" /\ Verified # {} => x.level = 2,
         x.pc = "miss" => x.factor \in Factor /\ FailureBudget(x.family, x.factor, x.level),
         x.pc = "redeem" => FailureBudget(x.family, None, x.level)
  PROVE  IInv'
<1>0. now <= now'
  BY DEF IInv, TypeOK
<1>1. \A q \in Req : req'[q] = IF q = r THEN x ELSE req[q]
  BY DEF IInv, TypeOK
<1>2. TypeOK'
  BY DEF IInv, TypeOK
<1>3. /\ IsFiniteSet(failures') /\ BudgetsHold'
      /\ \A s \in Family, f \in Factor \cup {None}, level \in Level :
           FailureBudget(s, f, level) => FailureBudget(s, f, level)'
  BY <1>0, <1>2, BudgetsKept DEF IInv
<1>4. ElevatedIsProved'
  BY DEF IInv, ElevatedIsProved
<1>5. OneHolder'
  BY <1>1 DEF OneHolder, Holders, AccountFree
<1>6. RequestOK(r)'
  <2>1. x.level \in Level
    BY DEF ReqState
  <2>2. x.pc = "miss" => x.factor \in Factor /\ FailureBudget(x.family, x.factor, x.level)'
    BY <1>3, <2>1
  <2>3. x.pc = "redeem" => FailureBudget(x.family, None, x.level)'
    BY <1>3, <2>1
  <2>4. factors' = factors /\ Verified' = Verified
    BY DEF Verified
  <2> QED
    BY <1>1, <2>2, <2>3, <2>4 DEF RequestOK
<1>7. ASSUME NEW q \in Req, q # r PROVE RequestOK(q)'
  <2>1. req'[q] = req[q] /\ Waits(q)
    BY <1>1, <1>7 DEF Waits
  <2> QED
    BY <1>0, <1>2, <2>1, OthersKeep
<1> QED
  BY <1>2, <1>3, <1>4, <1>5, <1>6, <1>7 DEF IInv

\* Store.VerifyFactor up to the check of the code.
LEMMA CheckFactorKeeps ==
  ASSUME IInv, NEW r \in Req, NEW f \in Factor, NEW k \in Challenge,
         NEW step \in -1 .. MaxTime + 1, CheckFactor(r, f, k, step)
  PROVE  IInv'
<1>1. PICK q \in ReqState : q = req[r]
  BY DEF IInv, TypeOK
<1>2. q.family \in Family /\ q.pc = "verify"
  BY <1>1 DEF CheckFactor, IInv, RequestOK
<1>3. /\ AccountFree /\ FailureBudget(q.family, f, q.level)
      /\ factors[f].status # "verified" /\ Verified # {} => q.level = 2
      /\ UNCHANGED <<now, factors, challenges, codes, failures, sessions, jwt, calls, proof>>
  BY <1>1 DEF CheckFactor, Usable, Present, Unverified
<1>4. step \in Int
  BY MfaAssumption
<1>5. CASE Matches(f, step)
  <2>0. [q EXCEPT !.pc = "accept", !.factor = f, !.challenge = k, !.step = step] \in ReqState
    BY <1>4 DEF ReqState, PCs
  <2>1. PICK x \in ReqState :
          x = [q EXCEPT !.pc = "accept", !.factor = f, !.challenge = k, !.step = step]
    BY <2>0
  <2>2. req' = [req EXCEPT ![r] = x]
    BY <1>1, <1>5, <2>1 DEF CheckFactor
  <2>3. step > factors[f].last
    BY <1>5 DEF Matches
  <2>4. /\ x.pc = "accept" /\ x.factor = f /\ x.step = step /\ x.family = q.family
        /\ x.level = q.level
    BY <2>1 DEF ReqState
  <2> QED
    BY <1>2, <1>3, <2>2, <2>3, <2>4, TakesRow
<1>6. CASE ~Matches(f, step)
  <2>0. [q EXCEPT !.pc = "miss", !.factor = f] \in ReqState
    BY DEF ReqState, PCs
  <2>1. PICK x \in ReqState : x = [q EXCEPT !.pc = "miss", !.factor = f]
    BY <2>0
  <2>2. req' = [req EXCEPT ![r] = x]
    BY <1>1, <1>6, <2>1 DEF CheckFactor
  <2>3. x.pc = "miss" /\ x.factor = f /\ x.family = q.family /\ x.level = q.level
    BY <2>1 DEF ReqState
  <2> QED
    BY <1>2, <1>3, <2>2, <2>3, TakesRow
<1> QED
  BY <1>5, <1>6

LEMMA CheckBudgetKeeps ==
  ASSUME IInv, NEW r \in Req, CheckBudget(r) PROVE IInv'
<1>1. PICK q \in ReqState : q = req[r]
  BY DEF IInv, TypeOK
<1>2. q.family \in Family
  BY <1>1 DEF CheckBudget, IInv, RequestOK
<1>0. [q EXCEPT !.pc = "redeem"] \in ReqState
  BY DEF ReqState, PCs
<1>3. PICK x \in ReqState : x = [q EXCEPT !.pc = "redeem"]
  BY <1>0
<1>4. req' = [req EXCEPT ![r] = x]
  BY <1>1, <1>3 DEF CheckBudget, Goto
<1>5. x.pc = "redeem" /\ x.family = q.family /\ x.level = q.level
  BY <1>3 DEF ReqState
<1> QED
  BY <1>1, <1>2, <1>4, <1>5, TakesRow DEF CheckBudget

\* recordFailure, by the request that was let through.
LEMMA RecordedKeeps ==
  ASSUME IInv, NEW r \in Holders, NEW s \in Family, NEW f \in Factor \cup {None},
         NEW level \in Level, FailureBudget(s, f, level),
         failures' = Recorded(s, f, level), Finish(r),
         UNCHANGED <<now, factors, challenges, codes, sessions, jwt, calls, proof>>
  PROVE  IInv'
<1>0. now <= now' /\ r \in Req
  BY DEF IInv, TypeOK, Holders
<1>1. \A q \in Req : req'[q] = IF q = r THEN Idle ELSE req[q]
  BY DEF IInv, TypeOK, Finish
<1>2. IsFiniteSet(failures') /\ failures' \subseteq FailureRow /\ BudgetsHold'
  BY BudgetsGrow DEF IInv
<1>3. TypeOK'
  BY <1>2, IdleType DEF IInv, TypeOK, Finish
<1>4. ElevatedIsProved'
  BY DEF IInv, ElevatedIsProved
<1>5. OneHolder'
  BY <1>1, IdleType DEF IInv, OneHolder, Holders
<1>6. ASSUME NEW q \in Req PROVE RequestOK(q)'
  <2>1. CASE q = r
    BY <1>1, <2>1, IdleType DEF RequestOK
  <2>2. CASE q # r
    <3>1. req'[q] = req[q] /\ Waits(q)
      BY <1>1, <2>2 DEF Waits
    <3>2. q \notin Holders
      BY <2>2 DEF IInv, OneHolder
    <3> QED
      BY <1>0, <1>3, <3>1, <3>2, OthersKeep
  <2> QED
    BY <2>1, <2>2
<1> QED
  BY <1>2, <1>3, <1>4, <1>5, <1>6 DEF IInv

LEMMA RecordFailureKeeps ==
  ASSUME IInv, NEW r \in Req, RecordFailure(r) PROVE IInv'
<1>1. PICK q \in ReqState : q = req[r]
  BY DEF IInv, TypeOK
<1>2. /\ q.family \in Family /\ q.factor \in Factor /\ q.level \in Level
      /\ FailureBudget(q.family, q.factor, q.level) /\ r \in Holders
  BY <1>1 DEF RecordFailure, IInv, RequestOK, ReqState, Holders
<1> QED
  BY <1>1, <1>2, RecordedKeeps DEF RecordFailure

LEMMA RedeemNothingKeeps ==
  ASSUME IInv, NEW r \in Req, RedeemNothing(r) PROVE IInv'
<1>1. PICK q \in ReqState : q = req[r]
  BY DEF IInv, TypeOK
<1>2. /\ q.family \in Family /\ q.level \in Level
      /\ FailureBudget(q.family, None, q.level) /\ r \in Holders
  BY <1>1 DEF RedeemNothing, IInv, RequestOK, ReqState, Holders
<1> QED
  BY <1>1, <1>2, RecordedKeeps DEF RedeemNothing

\* A code was accepted: what is left of the request is the presented token.
LEMMA ToElevateKeeps ==
  ASSUME IInv, NEW r \in Holders, TypeOK', ToElevate(r), now' = now, failures' \subseteq failures,
         proof' = [proof EXCEPT ![req[r].family] = "code"], sessions' = sessions
  PROVE  IInv'
<1>1. PICK q \in ReqState : q = req[r] /\ r \in Req
  BY DEF IInv, TypeOK, Holders
<1>2. q.family \in Family
  BY <1>1 DEF IInv, RequestOK, Holders
<1>0. [Idle EXCEPT !.pc = "elevate", !.family = q.family, !.holds = q.holds] \in ReqState
  <2>1. q.holds \in BOOLEAN
    BY DEF ReqState
  <2> QED
    BY <1>2, <2>1, IdleType DEF ReqState, PCs
<1>3. PICK x \in ReqState :
        x = [Idle EXCEPT !.pc = "elevate", !.family = q.family, !.holds = q.holds]
  BY <1>0
<1>8. x.pc = "elevate" /\ x.family = q.family
  BY <1>3, IdleType DEF ReqState
<1>4. req' = [req EXCEPT ![r] = x]
  BY <1>1, <1>3 DEF ToElevate
<1>5. \A s \in Family : proof'[s] = IF s = q.family THEN "code" ELSE proof[s]
  BY <1>1 DEF IInv, TypeOK
<1>6. ElevatedIsProved'
  BY <1>5 DEF IInv, ElevatedIsProved
<1>7. Holders \subseteq {r}
  BY DEF IInv, OneHolder
<1>9. /\ x.pc \notin {"accept", "miss", "redeem"}
      /\ x.pc \in {"verify", "recover", "elevate"} => x.family \in Family
      /\ proof'[x.family] # "none"
  BY <1>2, <1>5, <1>8
<1>10. \A p \in Req \ {r} : req[p].family \in Family /\ proof[req[p].family] # "none"
                              => proof'[req[p].family] # "none"
  BY <1>5
<1>11. x.pc = "elevate" /\ x.holds => proof'[x.family] # "none"
  BY <1>9, Zenon
<1> QED
  BY <1>1, <1>4, <1>6, <1>7, <1>9, <1>10, <1>11, ActsUnlocked, Zenon

LEMMA ToElevateType ==
  ASSUME IInv, NEW r \in Holders, ToElevate(r)
  PROVE  req' \in [Req -> ReqState]
<1>1. req[r].family \in Family /\ req[r] \in ReqState /\ req \in [Req -> ReqState]
  BY DEF IInv, TypeOK, RequestOK, Holders
<1>2. req[r].holds \in BOOLEAN
  BY <1>1 DEF ReqState
<1>3. [Idle EXCEPT !.pc = "elevate", !.family = req[r].family, !.holds = req[r].holds] \in ReqState
  BY <1>1, <1>2, IdleType DEF ReqState, PCs
<1> QED
  BY <1>1, <1>3 DEF ToElevate

LEMMA AcceptFactorKeeps ==
  ASSUME IInv, NEW r \in Req, AcceptFactor(r) PROVE IInv'
<1>1. PICK q \in ReqState : q = req[r]
  BY DEF IInv, TypeOK
<1>2. q.factor \in Factor /\ q.step \in Int /\ r \in Holders /\ q.family \in Family
  BY <1>1 DEF AcceptFactor, IInv, RequestOK, ReqState, Holders
<1>3. PICK ended : ended = EndedByFirst(q.factor)
  OBVIOUS
<1>4. Removed(ended) \in [Factor -> FactorRow] /\ FailuresWithout(ended) \subseteq failures
  BY RemovedType DEF IInv
<1>5. [status |-> "verified", last |-> q.step, made |-> 0] \in FactorRow
  BY <1>2 DEF FactorRow
<1>6. factors' \in [Factor -> FactorRow]
  BY <1>1, <1>3, <1>4, <1>5 DEF AcceptFactor
<1>7. challenges' \subseteq challenges /\ failures' \subseteq failures
  BY <1>1, <1>3, <1>4 DEF AcceptFactor
<1>8. proof' \in [Family -> {"none", "code", "carried"}]
  BY <1>1, <1>2 DEF AcceptFactor, IInv, TypeOK
<1>9. req' \in [Req -> ReqState]
  BY <1>2, ToElevateType DEF AcceptFactor
<1>10. TypeOK'
  BY <1>6, <1>7, <1>8, <1>9 DEF AcceptFactor, IInv, TypeOK
<1> QED
  BY <1>2, <1>7, <1>10, ToElevateKeeps DEF AcceptFactor

LEMMA RedeemRecoveryCodeKeeps ==
  ASSUME IInv, NEW r \in Req, RedeemRecoveryCode(r) PROVE IInv'
<1>1. req[r].family \in Family /\ r \in Holders
  BY DEF RedeemRecoveryCode, IInv, RequestOK, Holders
<1>2. codes' \in 0 .. CodeCount
  BY MfaAssumption DEF RedeemRecoveryCode, Redeemable, IInv, TypeOK
<1>3. proof' \in [Family -> {"none", "code", "carried"}]
  BY <1>1 DEF RedeemRecoveryCode, IInv, TypeOK
<1>4. req' \in [Req -> ReqState]
  BY <1>1, ToElevateType DEF RedeemRecoveryCode
<1>5. TypeOK'
  BY <1>2, <1>3, <1>4 DEF RedeemRecoveryCode, IInv, TypeOK
<1> QED
  BY <1>1, <1>5, ToElevateKeeps DEF RedeemRecoveryCode

\* A request that is not in a transaction acts, and others may lose their tokens.
LEMMA ActsOnSessions ==
  ASSUME IInv, NEW r \in Req, TypeOK', UNCHANGED <<now, factors, failures>>, ElevatedIsProved',
         req'[r].pc \in {"codes", "carry"}, OneHolder',
         \A q \in Req \ {r} :
           /\ Waits(q)
           /\ req'[q].holds => req[q].holds
           /\ req[q].family \in Family /\ req'[q].holds /\ proof[req[q].family] # "none"
                => proof'[req[q].family] # "none"
  PROVE  IInv'
<1>0. now <= now'
  BY DEF IInv, TypeOK
<1>1. IsFiniteSet(failures') /\ BudgetsHold'
  BY <1>0, BudgetsKept DEF IInv
<1>2. RequestOK(r)'
  BY DEF RequestOK
<1>3. ASSUME NEW q \in Req, q # r PROVE RequestOK(q)'
  BY <1>0, <1>3, OthersKeep
<1> QED
  BY <1>1, <1>2, <1>3 DEF IInv

\* ElevateRefreshToken: the session's proof is there, and nobody else has its token.
LEMMA ElevateKeeps ==
  ASSUME IInv, NEW r \in Req, Elevate(r) PROVE IInv'
<1>1. PICK s \in Family : s = req[r].family /\ proof[s] # "none"
  BY DEF IInv, RequestOK, Elevate, Elevatable
<1>0. [Idle EXCEPT !.pc = "codes"] \in ReqState /\ [Idle EXCEPT !.pc = "codes"].pc = "codes"
  BY IdleType DEF ReqState, PCs
<1>2. PICK x \in ReqState : x = [Idle EXCEPT !.pc = "codes"] /\ x.pc = "codes"
  BY <1>0
<1>3. PICK spent : spent = Spent({s})
  OBVIOUS
<1>4. /\ spent \in [Req -> ReqState]
      /\ \A q \in Req :
           /\ req[q].family \in {s} => ~spent[q].holds /\ spent[q] = [req[q] EXCEPT !.holds = FALSE]
           /\ req[q].family \notin {s} => spent[q] = req[q]
  BY <1>3, SpentType DEF IInv
<1>5. req' = [spent EXCEPT ![r] = x]
  BY <1>1, <1>2, <1>3 DEF Elevate
<1>6. /\ req' \in [Req -> ReqState] /\ req'[r] = x
      /\ \A q \in Req \ {r} : req'[q] = spent[q]
  BY <1>4, <1>5
<1>7. TypeOK'
  BY <1>1, <1>6 DEF Elevate, IInv, TypeOK
<1>8. ElevatedIsProved'
  BY <1>1 DEF Elevate, IInv, TypeOK, ElevatedIsProved
<1>9. ASSUME NEW q \in Req, q # r
      PROVE  Waits(q) /\ (req'[q].holds => req[q].holds) /\ req'[q].pc = req[q].pc
  BY <1>4, <1>6, <1>9 DEF Waits, IInv, TypeOK, ReqState
<1>10. OneHolder'
  BY <1>2, <1>6, <1>9 DEF IInv, OneHolder, Holders
<1> QED
  BY <1>2, <1>6, <1>7, <1>8, <1>9, <1>10, ActsOnSessions DEF Elevate

\* Store.ChangePassword: every token of the account is dead.
LEMMA ChangePasswordKeeps ==
  ASSUME IInv, NEW r \in Req, ChangePassword(r) PROVE IInv'
<1>1. PICK spent : spent = Spent(Family)
  OBVIOUS
<1>2. /\ spent \in [Req -> ReqState]
      /\ \A q \in Req :
           /\ req[q].family \in Family => ~spent[q].holds /\ spent[q] = [req[q] EXCEPT !.holds = FALSE]
           /\ req[q].family \notin Family => spent[q] = req[q]
      /\ Ended(Family) \in [Family -> {"none", "aal1", "aal2"}]
      /\ Forgotten(Family) \in [Family -> {"none", "code", "carried"}]
  BY <1>1, SpentType DEF IInv
<1>0. [spent[r] EXCEPT !.pc = "carry"] \in ReqState /\ [spent[r] EXCEPT !.pc = "carry"].pc = "carry"
  <2>1. spent[r] \in ReqState
    BY <1>2
  <2> QED
    BY <2>1 DEF ReqState, PCs
<1>3. PICK x \in ReqState : x = [spent[r] EXCEPT !.pc = "carry"] /\ x.pc = "carry"
  BY <1>0
<1>4. req' = [spent EXCEPT ![r] = x]
  BY <1>1, <1>2, <1>3 DEF ChangePassword
<1>5. /\ req' \in [Req -> ReqState] /\ req'[r] = x
      /\ \A q \in Req \ {r} : req'[q] = spent[q]
  BY <1>2, <1>4
<1>6. TypeOK'
  BY <1>2, <1>5 DEF ChangePassword, IInv, TypeOK
<1>7. ElevatedIsProved'
  BY DEF ChangePassword, Ended, ElevatedIsProved
<1>8. ASSUME NEW q \in Req, q # r
      PROVE  /\ Waits(q) /\ (req'[q].holds => req[q].holds) /\ req'[q].pc = req[q].pc
             /\ req[q].family \in Family => ~req'[q].holds
  BY <1>2, <1>5, <1>8 DEF Waits, IInv, TypeOK, ReqState
<1>9. OneHolder'
  BY <1>3, <1>5, <1>8 DEF IInv, OneHolder, Holders
<1> QED
  BY <1>3, <1>5, <1>6, <1>7, <1>8, <1>9, ActsOnSessions DEF ChangePassword

\* carriedSession: a new session, which no request knows.
LEMMA CarrySessionKeeps ==
  ASSUME IInv, NEW r \in Req, NEW s \in Family, CarrySession(r, s) PROVE IInv'
<1>1. req[r].level \in Level
  BY DEF IInv, TypeOK, ReqState
<1>2. TypeOK'
  BY <1>1, IdleType DEF CarrySession, Carried, IInv, TypeOK, Finish
<1>3. ElevatedIsProved'
  BY DEF CarrySession, Carried, IInv, TypeOK, ElevatedIsProved
<1>4. \A q \in Req : req[q].family # s
  BY DEF CarrySession, NewFamily
<1>5. \A t \in Family : t # s => proof'[t] = proof[t]
  BY DEF CarrySession, IInv, TypeOK
<1>6. UNCHANGED <<now, factors, failures>> /\ Finish(r)
  BY DEF CarrySession
<1> QED
  BY <1>2, <1>3, <1>4, <1>5, <1>6, IdleType, ActsUnlocked DEF Finish

LEMMA StepKeeps ==
  ASSUME IInv, NEW r \in Req, Step(r) \/ Abort(r) PROVE IInv'
<1>0. codes \in 0 .. CodeCount /\ jwt \subseteq Level /\ 2 \in Level /\ CodeCount \in 0 .. CodeCount
  BY MfaAssumption DEF IInv, TypeOK, Level
<1>1. ASSUME Refused(r) \/ ElevateRefused(r) \/ AddRecoveryCodes(r) \/ NoRecoveryCodes(r)
             \/ ReplaceRecoveryCodes(r) \/ Abort(r)
      PROVE  IInv'
  BY <1>0, <1>1, FinishKeeps
  DEF Refused, ElevateRefused, AddRecoveryCodes, NoRecoveryCodes, ReplaceRecoveryCodes, Abort
<1> QED
  BY <1>1, CreateFactorKeeps, DeleteFactorKeeps, CheckFactorKeeps, RecordFailureKeeps,
     AcceptFactorKeeps, CheckBudgetKeeps, RedeemRecoveryCodeKeeps, RedeemNothingKeeps,
     ElevateKeeps, ChangePasswordKeeps, CarrySessionKeeps
  DEF Step

\* Signing in, refreshing, signing out, a challenge, a reset, the clock.
LEMMA WorldKeeps ==
  ASSUME IInv, World \/ UNCHANGED vars PROVE IInv'
<1>0. /\ now \in Nat /\ req \in [Req -> ReqState]
  BY DEF IInv, TypeOK, Waits
<1>1. ASSUME NEW s \in Family, SignIn(s) PROVE IInv'
  <2>1. TypeOK'
    BY <1>1 DEF SignIn, IInv, TypeOK, Level
  <2>2. ElevatedIsProved'
    BY <1>1 DEF SignIn, IInv, TypeOK, ElevatedIsProved
  <2>3. \A q \in Req : Waits(q) /\ req'[q] = req[q] /\ req[q].family # s
    BY <1>1 DEF SignIn, NewFamily, Waits
  <2>4. \A t \in Family : t # s => proof'[t] = proof[t]
    BY <1>1 DEF SignIn, IInv, TypeOK
  <2> QED
    BY <1>0, <1>1, <2>1, <2>2, <2>3, <2>4, WorldMoves DEF SignIn
<1>2. ASSUME NEW s \in Family, Refresh(s) PROVE IInv'
  <2>1. TypeOK'
    BY <1>2, SpentType DEF Refresh, IInv, TypeOK, Level
  <2>2. ElevatedIsProved'
    BY <1>2 DEF Refresh, IInv, ElevatedIsProved
  <2>3. \A q \in Req : Waits(q) /\ (req'[q].holds => req[q].holds)
    BY <1>2, SpentType DEF Refresh, Waits, IInv
  <2>4. \A q \in Req :
          /\ Waits(q)
          /\ req'[q].holds => req[q].holds
          /\ req[q].family \in Family /\ req'[q].holds /\ proof[req[q].family] # "none"
               => proof'[req[q].family] # "none"
    BY <1>2, <2>3, Zenon DEF Refresh
  <2>5. now <= now' /\ failures' \subseteq failures /\ factors' = factors
    BY <1>0, <1>2 DEF Refresh
  <2> QED
    BY <2>1, <2>2, <2>4, <2>5, WorldMoves, Zenon
<1>3. ASSUME NEW s \in Family, EndSession(s) PROVE IInv'
  <2>1. TypeOK'
    BY <1>3, SpentType DEF EndSession, IInv, TypeOK
  <2>2. ElevatedIsProved'
    BY <1>3 DEF EndSession, Ended, Forgotten, IInv, ElevatedIsProved
  <2>3. \A q \in Req :
          /\ Waits(q) /\ (req'[q].holds => req[q].holds)
          /\ req'[q].holds => req[q].family # s
    BY <1>3, SpentType DEF EndSession, Waits, IInv
  <2>4. \A t \in Family : t # s => proof'[t] = proof[t]
    BY <1>3 DEF EndSession, Forgotten
  <2>5. \A q \in Req :
          /\ Waits(q)
          /\ req'[q].holds => req[q].holds
          /\ req[q].family \in Family /\ req'[q].holds /\ proof[req[q].family] # "none"
               => proof'[req[q].family] # "none"
    BY <2>3, <2>4, Zenon
  <2>6. now <= now' /\ failures' \subseteq failures /\ factors' = factors
    BY <1>0, <1>3 DEF EndSession
  <2> QED
    BY <2>1, <2>2, <2>5, <2>6, WorldMoves, Zenon
<1>4. ASSUME NEW f \in Factor, NEW k \in Challenge, CreateChallenge(f, k) PROVE IInv'
  <2>1. [id |-> k, factor |-> f, until |-> now + Window] \in ChallengeRow
    BY <1>0, MfaAssumption DEF ChallengeRow
  <2>2. TypeOK'
    BY <1>4, <2>1 DEF CreateChallenge, IInv, TypeOK
  <2>3. ElevatedIsProved'
    BY <1>4 DEF CreateChallenge, IInv, ElevatedIsProved
  <2> QED
    BY <1>0, <1>4, <2>2, <2>3, WorldMoves DEF CreateChallenge, Waits
<1>5. ASSUME ResetMFA PROVE IInv'
  <2>1. TypeOK'
    <3>1. factors' \in [Factor -> FactorRow]
      BY <1>5, RemovedType DEF ResetMFA, IInv
    <3>2. codes' \in 0 .. CodeCount
      BY <1>5, MfaAssumption DEF ResetMFA, CodesWithout
    <3> QED
      BY <1>5, <3>1, <3>2, SpentType DEF ResetMFA, IInv, TypeOK
  <2>2. ElevatedIsProved'
    BY <1>5 DEF ResetMFA, Ended, ElevatedIsProved
  <2>3. \A q \in Req :
          /\ Waits(q) /\ (req'[q].holds => req[q].holds)
          /\ req'[q].holds => req[q].family \notin Family
    BY <1>5, SpentType DEF ResetMFA, Waits, IInv
  <2>4. Holders = {} /\ failures' \subseteq failures /\ now <= now'
    BY <1>0, <1>5 DEF ResetMFA, AccountFree
  <2> QED
    BY <2>1, <2>2, <2>3, <2>4, WorldMoves
<1>6. ASSUME now' \in Nat, now <= now',
             UNCHANGED <<factors, challenges, codes, failures, sessions, jwt, req, calls, proof>>
      PROVE  IInv'
  <2>1. TypeOK'
    BY <1>6 DEF IInv, TypeOK
  <2>2. ElevatedIsProved'
    BY <1>6 DEF IInv, ElevatedIsProved
  <2> QED
    BY <1>6, <2>1, <2>2, WorldMoves DEF Waits
<1>7. ASSUME Tick \/ UNCHANGED vars PROVE IInv'
  BY <1>0, <1>6, <1>7 DEF Tick, vars
<1> QED
  BY <1>1, <1>2, <1>3, <1>4, <1>5, <1>7 DEF World

LEMMA NextIInv == IInv /\ [Next]_vars => IInv'
  BY CallKeeps, StepKeeps, WorldKeeps DEF Next

-----------------------------------------------------------------------------
(* The theorems.                                                           *)

\* Under the account's lock, and only there, what a request has read stays true.
THEOREM Invariance == Spec => []IInv
<1> QED
  BY InitIInv, NextIInv, PTL DEF Spec

\* For any sessions, factors and requests at once: the wrong codes of a session, and of
\* the account's aal1 callers, never outnumber MFALimits.
THEOREM GuessesAreBounded == Spec => []CountsHold
<1>1. IInv => CountsHold
  BY DEF IInv, CountsHold
<1> QED
  BY <1>1, Invariance, PTL

\* A session at aal2 answered a code since the last reset, or replaced one that had.
THEOREM LevelIsProved == Spec => []ElevatedIsProved
<1>1. IInv => ElevatedIsProved
  BY DEF IInv
<1> QED
  BY <1>1, Invariance, PTL

\* Only acceptFactor verifies a factor or moves its step; what else a step does to the
\* factors is remove them or add an unverified one.
LEMMA OnlyAcceptVerifies ==
  ASSUME IInv, [Next]_vars, NEW f \in Factor, factors'[f].status = "verified"
  PROVE  \/ factors'[f] = factors[f]
         \/ \E r \in Req : AcceptFactor(r) /\ req[r].factor = f
<1>1. ASSUME NEW r \in Req, Call(r) PROVE factors'[f] = factors[f]
  BY <1>1 DEF Call, EnrollFactor, UnenrollFactor, ChangePasswordAsked, Begin, VerifyFactor,
              RecoverWithCode, StepUpSession, RegenerateRecoveryCodes
<1>2. ASSUME NEW r \in Req, NEW g \in Factor, CreateFactor(r, g) PROVE factors'[f] = factors[f]
  BY <1>2, RemovedType DEF CreateFactor, IInv
<1>3. ASSUME NEW r \in Req, NEW g \in Factor, DeleteFactor(r, g) PROVE factors'[f] = factors[f]
  BY <1>3, RemovedType DEF DeleteFactor, IInv
<1>4. ASSUME NEW r \in Req, AcceptFactor(r), req[r].factor # f PROVE factors'[f] = factors[f]
  BY <1>4, RemovedType DEF AcceptFactor, IInv
<1>5. ASSUME NEW r \in Req, Step(r) \/ Abort(r)
      PROVE  factors'[f] = factors[f] \/ (AcceptFactor(r) /\ req[r].factor = f)
  BY <1>2, <1>3, <1>4, <1>5
  DEF Step, CheckFactor, RecordFailure, CheckBudget, RedeemRecoveryCode, RedeemNothing, Refused,
      Elevate, ElevateRefused, AddRecoveryCodes, NoRecoveryCodes, ReplaceRecoveryCodes,
      ChangePassword, CarrySession, Abort
<1>6. ASSUME World \/ UNCHANGED vars PROVE factors'[f] = factors[f]
  <2>1. ASSUME ResetMFA PROVE factors'[f] = factors[f]
    BY <2>1, RemovedType DEF ResetMFA, IInv
  <2> QED
    BY <1>6, <2>1 DEF World, SignIn, Refresh, EndSession, CreateChallenge, Tick, vars
<1> QED
  BY <1>1, <1>5, <1>6 DEF Next

\* For any number of requests that answer challenges at once, a factor's newest step
\* only moves forward: the check and the write are under one lock.
THEOREM StepsAdvance == Spec => StepsOnlyAdvance
<1>1. ASSUME IInv, [Next]_vars, NEW f \in Factor, factors'[f].status = "verified",
             factors'[f].last # factors[f].last
      PROVE  factors'[f].last > factors[f].last
  <2>1. PICK r \in Req : AcceptFactor(r) /\ req[r].factor = f
    BY <1>1, OnlyAcceptVerifies
  <2>2. req[r].step > factors[f].last
    BY <1>1, <2>1 DEF IInv, RequestOK, AcceptFactor
  <2>3. Removed(EndedByFirst(f)) \in [Factor -> FactorRow]
    BY <1>1, RemovedType DEF IInv
  <2>4. factors'[f].last = req[r].step
    BY <2>1, <2>3 DEF AcceptFactor
  <2> QED
    BY <2>2, <2>4
<1>2. IInv /\ [Next]_vars =>
        [\A f \in Factor :
           /\ factors'[f].status = "verified"
           /\ factors'[f].last # factors[f].last
           => factors'[f].last > factors[f].last]_vars
  BY <1>1
<1> QED
  BY <1>2, Invariance, PTL DEF Spec, StepsOnlyAdvance

\* For any number of factors and requests under way, an enrolled account's next factor
\* is verified by a caller at aal2 only.
THEOREM PlantedStaysLow == Spec => PlantedNeverLifts
<1>1. ASSUME IInv, [Next]_vars, NEW f \in Factor, factors[f].status # "verified",
             factors'[f].status = "verified", Verified # {}
      PROVE  \E r \in Req : req[r].pc = "accept" /\ req[r].factor = f /\ req[r].level = 2
  <2>1. PICK r \in Req : AcceptFactor(r) /\ req[r].factor = f
    BY <1>1, OnlyAcceptVerifies
  <2> QED
    BY <1>1, <2>1 DEF IInv, RequestOK, AcceptFactor
<1>2. IInv /\ [Next]_vars =>
        [\A f \in Factor :
           /\ factors[f].status # "verified"
           /\ factors'[f].status = "verified"
           /\ Verified # {}
           => \E r \in Req : req[r].pc = "accept" /\ req[r].factor = f /\ req[r].level = 2]_vars
  BY <1>1
<1> QED
  BY <1>2, Invariance, PTL DEF Spec, PlantedNeverLifts

\* For any number of requests: a set of codes is left without a factor by the two
\* statements of RegenerateRecoveryCodes only.
THEOREM SetsEndWithFactors == Spec => NoSetOutlivesFactor
<1> DEFINE Renews == \E r \in Req : req[r].pc = "regenerate" /\ req'[r].pc = "idle"
           Kept == codes' > 0 /\ Verified' = {} => (codes > 0 /\ Verified = {}) \/ Renews
<1>1. ASSUME IInv, [Next]_vars PROVE Kept
  <2>0. TypeOK /\ factors \in [Factor -> FactorRow] /\ req \in [Req -> ReqState]
    BY <1>1 DEF IInv, TypeOK
  <2>1. ASSUME NEW r \in Req, NEW f \in Factor, CreateFactor(r, f) PROVE Kept
    <3>1. ASSUME NEW g \in Verified PROVE g \in Verified'
      BY <2>0, <2>1, <3>1, RemovedType DEF CreateFactor, Stale, Verified
    <3> QED
      BY <2>1, <3>1 DEF CreateFactor
  <2>2. ASSUME NEW r \in Req, NEW f \in Factor, DeleteFactor(r, f) PROVE Kept
    <3>1. ASSUME NEW g \in Verified \ {f} PROVE g \in Verified'
      BY <2>0, <2>2, <3>1, RemovedType DEF DeleteFactor, Verified
    <3> QED
      BY <2>2, <3>1 DEF DeleteFactor, CodesWithout
  <2>3. ASSUME NEW r \in Req, AcceptFactor(r) PROVE Kept
    <3>1. req[r].factor \in Factor
      BY <1>1, <2>3 DEF IInv, RequestOK, AcceptFactor
    <3>2. Removed(EndedByFirst(req[r].factor)) \in [Factor -> FactorRow]
      BY <2>0, RemovedType
    <3> QED
      BY <2>3, <3>1, <3>2 DEF AcceptFactor, Verified
  <2>4. ASSUME NEW r \in Req, ReplaceRecoveryCodes(r) PROVE Kept
    BY <2>0, <2>4, IdleType DEF ReplaceRecoveryCodes, Finish
  <2>5. ASSUME NEW r \in Req, RedeemRecoveryCode(r) PROVE Kept
    BY <2>5 DEF RedeemRecoveryCode, Redeemable, Verified
  <2>6. ASSUME NEW r \in Req, AddRecoveryCodes(r) PROVE Kept
    BY <2>6 DEF AddRecoveryCodes, CodesDue, Verified
  <2>7. ASSUME ResetMFA PROVE Kept
    BY <2>7 DEF ResetMFA, CodesWithout
  <2>8. ASSUME UNCHANGED <<factors, codes>> PROVE Kept
    BY <2>8 DEF Verified
  <2>9. ASSUME NEW r \in Req, Call(r) \/ Step(r) \/ Abort(r) PROVE Kept
    BY <2>1, <2>2, <2>3, <2>4, <2>5, <2>6, <2>8, <2>9
    DEF Call, EnrollFactor, UnenrollFactor, ChangePasswordAsked, Begin, VerifyFactor,
        RecoverWithCode, StepUpSession, RegenerateRecoveryCodes, Step, CheckFactor, RecordFailure,
        CheckBudget, RedeemNothing, Refused, Elevate, ElevateRefused, NoRecoveryCodes,
        ChangePassword, CarrySession, Abort
  <2> QED
    BY <1>1, <2>7, <2>8, <2>9
    DEF Next, World, SignIn, Refresh, EndSession, CreateChallenge, Tick, vars
<1>2. IInv /\ [Next]_vars =>
        [codes' > 0 /\ Verified' = {} =>
           \/ codes > 0 /\ Verified = {}
           \/ \E r \in Req : req[r].pc = "regenerate" /\ req'[r].pc = "idle"]_vars
  BY <1>1
<1> QED
  BY <1>2, Invariance, PTL DEF Spec, NoSetOutlivesFactor

=============================================================================
