-------------------------------- MODULE Mfa --------------------------------
(***************************************************************************)
(* The second factor of one account: TOTP factors, challenges, recovery    *)
(* codes, the budgets of wrong codes, and the level of the account's       *)
(* sessions.                                                               *)
(*                                                                         *)
(* A request that steps a session up reads the presented refresh token,    *)
(* checks a code in a transaction that locks the account's row, spends the *)
(* token into an aal2 successor and then hands out recovery codes: four    *)
(* separate commits, with every other request of the account in between.   *)
(* Enrolling, removing, renewing codes and changing the password first ask *)
(* (enrolledNeedsAAL2) and then act in another transaction.                *)
(*                                                                         *)
(* The transaction that checks a code is two actions, what it reads and    *)
(* what it writes, because the code is checked in between; the account's   *)
(* row is locked from the first to the last.  A transaction that only      *)
(* writes is one action, taken while nobody holds the row.  A session is   *)
(* its level: Sessions models its tokens, and shows that a revocation      *)
(* under the account's lock leaves none live.                              *)
(***************************************************************************)
EXTENDS Integers, FiniteSets

CONSTANTS
  Family,      \* sessions (refresh-token families)
  Factor,      \* ids of factors
  Challenge,   \* ids of challenges
  Req,         \* requests the server handles at the same time
  None,        \* no family, factor or challenge
  CodeCount,   \* mfa.RecoveryCodeCount
  MaxFactors,  \* MFALimits
  MaxFailures,
  MaxDailyFailures,
  MaxAccountDailyFailures,
  Window,      \* MFALimits.FailureWindow and mfaChallengeTTL, both five minutes
  Day,         \* a day, and MFALimits.StaleUnverified, which is one
  MaxTime,     \* bound: the clock stops here
  MaxCalls     \* bound: requests clients make

ASSUME MfaAssumption ==
  /\ None \notin Family \cup Factor \cup Challenge
  /\ CodeCount \in Nat \ {0}
  /\ MaxFactors \in Nat
  /\ MaxFailures \in Nat
  /\ MaxDailyFailures \in Nat
  /\ MaxAccountDailyFailures \in Nat
  /\ Window \in Nat
  /\ Day \in Nat
  /\ Window <= Day
  /\ MaxTime \in Nat
  /\ MaxCalls \in Nat

VARIABLES
  now,         \* the clock, in steps of the TOTP algorithm
  factors,     \* factors[f]: the row of mfa_factors
  challenges,  \* the rows of mfa_challenges
  codes,       \* how many unspent rows mfa_recovery_codes has
  failures,    \* the rows of mfa_failures
  sessions,    \* sessions[s]: the level of the session's live token
  jwt,         \* levels an access token was issued at (expiry only takes calls away)
  req,         \* req[r]: the handler state of request r
  calls,       \* how many requests clients have made, for the bound
  proof        \* history.  proof[s]: what a live session s may hold aal2 for

vars == <<now, factors, challenges, codes, failures, sessions, jwt, req, calls, proof>>

-----------------------------------------------------------------------------
(* Rows and request records.                                               *)

Level == {1, 2}

\* last is last_used_step, -1 before a code of the factor was accepted; made is
\* created_at, which nothing reads once the factor is verified.
FactorRow == [status: {"none", "unverified", "verified"},
              last: Int, made: Nat]

ChallengeRow == [id: Challenge, factor: Factor, until: Int]

\* factor is None for a recovery code.  level is history: the caller's.
FailureRow == [id: Nat, family: Family, factor: Factor \cup {None},
               level: Level, at: Nat]

PCs == {"idle", "verify", "accept", "miss", "recover", "redeem", "elevate",
        "codes", "enroll", "unenroll", "regenerate", "change", "carry"}

ReqState == [pc: PCs,
             level: Level,                 \* aal of the caller's access token
             family: Family \cup {None},   \* the session of the presented token
             holds: BOOLEAN,               \* that token is still the session's live one
             factor: Factor \cup {None},
             challenge: Challenge \cup {None},
             step: Int]                    \* the step the code matched

Idle == [pc |-> "idle", level |-> 1, family |-> None, holds |-> FALSE,
         factor |-> None, challenge |-> None, step |-> -1]

Present(f) == factors[f].status \in {"unverified", "verified"}
Verified == {f \in Factor : factors[f].status = "verified"}
Unverified == {f \in Factor : factors[f].status = "unverified"}

Live(s) == sessions[s] \in {"aal1", "aal2"}

\* The id of a new session: no row and no request knows it.
NewFamily(s) ==
  /\ ~Live(s)
  /\ \A x \in failures : x.family # s
  /\ \A r \in Req : req[r].family # s

\* The requests whose transaction holds the account's row FOR UPDATE.
Holders == {r \in Req : req[r].pc \in {"accept", "miss", "redeem"}}

\* Variant: the account is not locked.
NobodyWaits == TRUE

\* lockAccount, which waits for the transaction that holds the row.
AccountFree == Holders = {}

Finish(r) == req' = [req EXCEPT ![r] = Idle]
Goto(r, pc) == req' = [req EXCEPT ![r].pc = pc]

\* Rows of factors that are deleted go with them (ON DELETE CASCADE).
Removed(S) ==
  [f \in Factor |-> IF f \in S THEN [status |-> "none", last |-> -1, made |-> 0]
                               ELSE factors[f]]
ChallengesWithout(S) == {x \in challenges : x.factor \notin S}
FailuresWithout(S) == {x \in failures : x.factor \notin S}

\* A factor nobody verified in a day.
Stale(f) == factors[f].status = "unverified" /\ factors[f].made < now - Day

-----------------------------------------------------------------------------
(* The budgets of wrong codes.                                             *)

OfToday(x) == x.at > now - Day
Recent(x) == x.at > now - Window

\* count(*) FILTER of failureBudget: of the session and target in the window,
\* of the session in the day, and of every TOTP code of the account in the day.
RecentFailures(s, f) ==
  {x \in failures : x.family = s /\ x.factor = f /\ Recent(x)}
DayFailures(s) == {x \in failures : x.family = s /\ OfToday(x)}
AccountFailures == {x \in failures : x.factor # None /\ OfToday(x)}

\* Variant: one wrong code too many is let through.
BudgetOffByOne(s, f, level) ==
  /\ Cardinality(RecentFailures(s, f)) <= MaxFailures
  /\ Cardinality(DayFailures(s)) < MaxDailyFailures

\* failureBudget lets the attempt through.
FailureBudget(s, f, level) ==
  /\ Cardinality(RecentFailures(s, f)) < MaxFailures
  /\ Cardinality(DayFailures(s)) < MaxDailyFailures
  /\ f # None /\ level = 1 => Cardinality(AccountFailures) < MaxAccountDailyFailures

\* recordFailure drops the rows older than a day and stores a new one.
Recorded(s, f, level) ==
  LET kept == {x \in failures : x.at >= now - Day}
      id == CHOOSE i \in 0 .. Cardinality(kept) : \A x \in kept : x.id # i
  IN  kept \cup {[id |-> id, family |-> s, factor |-> f, level |-> level, at |-> now]}

-----------------------------------------------------------------------------
(* Sessions, as far as the level goes.                                     *)

\* A first token is stored (startSession): level aal1.
SignIn(s) ==
  /\ NewFamily(s)
  /\ sessions' = [sessions EXCEPT ![s] = "aal1"]
  /\ proof' = [proof EXCEPT ![s] = "none"]
  /\ jwt' = jwt \cup {1}
  /\ UNCHANGED <<now, factors, challenges, codes, failures, req, calls>>

\* The requests that presented a token of these sessions hold a dead one now.
Spent(S) ==
  [r \in Req |-> IF req[r].family \in S THEN [req[r] EXCEPT !.holds = FALSE] ELSE req[r]]

\* The sessions S have no live token any more, nor a level to account for.
Ended(S) == [s \in Family |-> IF s \in S THEN "none" ELSE sessions[s]]
Forgotten(S) == [s \in Family |-> IF s \in S THEN "none" ELSE proof[s]]

\* A refresh rotates the token and keeps the level.
Refresh(s) ==
  /\ Live(s)
  /\ req' = Spent({s})
  /\ jwt' = jwt \cup {IF sessions[s] = "aal2" THEN 2 ELSE 1}
  /\ UNCHANGED <<now, factors, challenges, codes, failures, sessions, calls, proof>>

\* The session ends: a sign-out, its expiry, or a spent token presented again.
EndSession(s) ==
  /\ Live(s)
  /\ sessions' = Ended({s})
  /\ proof' = Forgotten({s})
  /\ req' = Spent({s})
  /\ UNCHANGED <<now, factors, challenges, codes, failures, jwt, calls>>

-----------------------------------------------------------------------------
(* Enrolling, challenging and removing a factor.                           *)

\* enrolledNeedsAAL2: an aal1 caller is refused once a factor is verified.
MayChange(level) == level = 2 \/ Verified = {}

\* A request arrives.
Called(r) ==
  /\ req[r].pc = "idle"
  /\ calls < MaxCalls
  /\ calls' = calls + 1

Begin(r, pc, level) ==
  /\ Called(r)
  /\ level \in jwt
  /\ MayChange(level)
  /\ req' = [req EXCEPT ![r] = [Idle EXCEPT !.pc = pc, !.level = level]]
  /\ UNCHANGED <<now, factors, challenges, codes, failures, sessions, jwt, proof>>

\* EnrollFactor, UnenrollFactor and a password change read whether they may.
EnrollFactor(r, level) == Begin(r, "enroll", level)
UnenrollFactor(r, level) == Begin(r, "unenroll", level)
ChangePasswordAsked(r, level) == Begin(r, "change", level)

\* CreateFactor: the stale factors are dropped, the others counted.
CreateFactor(r, f) ==
  LET stale == {g \in Factor : Stale(g)}
  IN  /\ req[r].pc = "enroll"
      /\ AccountFree
      /\ Cardinality((Verified \cup Unverified) \ stale) < MaxFactors
      /\ factors[f].status = "none"
      /\ factors' = [Removed(stale) EXCEPT
           ![f] = [status |-> "unverified", last |-> -1, made |-> now]]
      /\ challenges' = ChallengesWithout(stale)
      /\ failures' = FailuresWithout(stale)
      /\ Finish(r)
      /\ UNCHANGED <<now, codes, sessions, jwt, calls, proof>>

\* CreateChallenge, without the account's lock: the factor's expired challenges
\* go, the new one is stored while the factor is there.
CreateChallenge(f, k) ==
  LET kept == {x \in challenges : x.factor # f \/ x.until >= now}
  IN  /\ jwt # {}
      /\ \A x \in challenges : x.id # k
      /\ Present(f)
      /\ challenges' = kept \cup {[id |-> k, factor |-> f, until |-> now + Window]}
      /\ UNCHANGED <<now, factors, codes, failures, sessions, jwt, req, calls, proof>>

\* The codes once `left` are the verified factors.
CodesWithout(left) == IF left = {} THEN 0 ELSE codes

\* DeleteFactor, by id, whatever its status is by now.
DeleteFactor(r, f) ==
  /\ req[r].pc = "unenroll"
  /\ AccountFree
  /\ Present(f)
  /\ factors' = Removed({f})
  /\ challenges' = ChallengesWithout({f})
  /\ failures' = FailuresWithout({f})
  /\ codes' = CodesWithout(Verified \ {f})
  /\ Finish(r)
  /\ UNCHANGED <<now, sessions, jwt, calls, proof>>

-----------------------------------------------------------------------------
(* Stepping a session up.                                                  *)

\* stepUpSession: the presented token is live and the caller's.  The level of the
\* access token shown with it does not depend on the session.
StepUpSession(r, s, level, pc) ==
  /\ Called(r)
  /\ jwt # {}
  /\ Live(s)
  /\ req' = [req EXCEPT ![r] =
       [Idle EXCEPT !.pc = pc, !.level = level, !.family = s, !.holds = TRUE]]
  /\ UNCHANGED <<now, factors, challenges, codes, failures, sessions, jwt, proof>>

VerifyFactor(r, s, level) == level \in jwt /\ StepUpSession(r, s, level, "verify")

\* RedeemRecoveryCode does not look at the level.
RecoverWithCode(r, s) == StepUpSession(r, s, 1, "recover")

\* Variant: any factor of the caller may be verified.
UsablePlanted(f, level) == Present(f) /\ ~Stale(f)

\* lockFactor accepts the factor for a caller of this level.
Usable(f, level) ==
  /\ Present(f)
  /\ ~Stale(f)
  /\ f \in Unverified /\ Verified # {} => level = 2

\* liveChallenge.
LiveChallenge(f, k) == \E x \in challenges : x.id = k /\ x.factor = f /\ x.until > now

\* mfa.Match: within one step of now, and newer than the last one spent.
Matches(f, step) == step \in now - 1 .. now + 1 /\ step > factors[f].last

\* The reads of Store.VerifyFactor, under the lock, and the check of the code;
\* step -1 is a code of no step.
CheckFactor(r, f, k, step) ==
  /\ req[r].pc = "verify"
  /\ AccountFree
  /\ Usable(f, req[r].level)
  /\ LiveChallenge(f, k)
  /\ FailureBudget(req[r].family, f, req[r].level)
  /\ req' = [req EXCEPT ![r] =
       IF Matches(f, step)
         THEN [@ EXCEPT !.pc = "accept", !.factor = f, !.challenge = k, !.step = step]
         ELSE [@ EXCEPT !.pc = "miss", !.factor = f]]
  /\ UNCHANGED <<now, factors, challenges, codes, failures, sessions, jwt, calls, proof>>

\* recordFailure and COMMIT.
RecordFailure(r) ==
  /\ req[r].pc = "miss"
  /\ failures' = Recorded(req[r].family, req[r].factor, req[r].level)
  /\ Finish(r)
  /\ UNCHANGED <<now, factors, challenges, codes, sessions, jwt, calls, proof>>

\* The code is spent; what is left is the presented token.
ToElevate(r) ==
  req' = [req EXCEPT ![r] = [Idle EXCEPT !.pc = "elevate", !.family = req[r].family,
                                         !.holds = req[r].holds]]

\* The account's first verified factor ends its other unverified ones.
EndedByFirst(f) ==
  IF f \in Unverified /\ Verified = {} THEN Unverified \ {f} ELSE {}

\* acceptFactor and COMMIT: the step and the challenge are spent.
AcceptFactor(r) ==
  LET f == req[r].factor
      ended == EndedByFirst(f)
      left == {x \in challenges : x.factor # f \/ (x.id # req[r].challenge /\ x.until >= now)}
  IN  /\ req[r].pc = "accept"
      /\ factors' = [Removed(ended) EXCEPT
           ![f] = [status |-> "verified", last |-> req[r].step, made |-> 0]]
      /\ challenges' = {x \in left : x.factor \notin ended}
      /\ failures' = FailuresWithout(ended)
      /\ proof' = [proof EXCEPT ![req[r].family] = "code"]
      /\ ToElevate(r)
      /\ UNCHANGED <<now, codes, sessions, jwt, calls>>

\* RedeemRecoveryCode: the lock and the budget.
CheckBudget(r) ==
  /\ req[r].pc = "recover"
  /\ AccountFree
  /\ FailureBudget(req[r].family, None, req[r].level)
  /\ Goto(r, "redeem")
  /\ UNCHANGED <<now, factors, challenges, codes, failures, sessions, jwt, calls, proof>>

\* Variant: the code need not be unspent.
RedeemableSpent == Verified # {}

\* The WHERE clause of the spending UPDATE, for a code of the account.
Redeemable == codes > 0 /\ Verified # {}

\* The spending UPDATE and COMMIT.
RedeemRecoveryCode(r) ==
  /\ req[r].pc = "redeem"
  /\ Redeemable
  /\ codes' = codes - 1
  /\ proof' = [proof EXCEPT ![req[r].family] = "code"]
  /\ ToElevate(r)
  /\ UNCHANGED <<now, factors, challenges, failures, sessions, jwt, calls>>

\* No row matched what was typed.
RedeemNothing(r) ==
  /\ req[r].pc = "redeem"
  /\ failures' = Recorded(req[r].family, None, req[r].level)
  /\ Finish(r)
  /\ UNCHANGED <<now, factors, challenges, codes, sessions, jwt, calls, proof>>

\* The transaction is left without a write: no such factor, its name is taken, too
\* many, no level, no challenge, or no budget.
Refused(r) ==
  /\ req[r].pc \in {"verify", "recover", "enroll", "unenroll"}
  /\ req[r].pc = "recover" => ~FailureBudget(req[r].family, None, req[r].level)
  /\ AccountFree
  /\ Finish(r)
  /\ UNCHANGED <<now, factors, challenges, codes, failures, sessions, jwt, calls, proof>>

\* Variant: a token spent or revoked since it was read is elevated too.
ElevatableAnyway(r) == TRUE

\* rotate finds the presented token live.
Elevatable(r) == req[r].holds

\* ElevateRefreshToken.
Elevate(r) ==
  /\ req[r].pc = "elevate"
  /\ Elevatable(r)
  /\ sessions' = [sessions EXCEPT ![req[r].family] = "aal2"]
  /\ req' = [Spent({req[r].family}) EXCEPT ![r] = [Idle EXCEPT !.pc = "codes"]]
  /\ UNCHANGED <<now, factors, challenges, codes, failures, jwt, calls, proof>>

\* writeElevateFailure: the code is spent and the session stays as it is.
ElevateRefused(r) ==
  /\ req[r].pc = "elevate"
  /\ ~Elevatable(r)
  /\ Finish(r)
  /\ UNCHANGED <<now, factors, challenges, codes, failures, sessions, jwt, calls, proof>>

\* Variant: the account need not be enrolled any more.
CodesDueToAnyone == codes = 0

\* AddRecoveryCodesIfNone stores a set.
CodesDue == codes = 0 /\ Verified # {}

\* stepUpRecoveryCodes, and the answer with the aal2 token.
AddRecoveryCodes(r) ==
  /\ req[r].pc = "codes"
  /\ AccountFree
  /\ CodesDue
  /\ codes' = CodeCount
  /\ jwt' = jwt \cup {2}
  /\ Finish(r)
  /\ UNCHANGED <<now, factors, challenges, failures, sessions, calls, proof>>

\* There are unspent codes, or no factor, or the set cannot be stored
\* (recoveryCodesMissing); the answer carries the aal2 token all the same.
NoRecoveryCodes(r) ==
  /\ req[r].pc = "codes"
  /\ AccountFree
  /\ jwt' = jwt \cup {2}
  /\ Finish(r)
  /\ UNCHANGED <<now, factors, challenges, codes, failures, sessions, calls, proof>>

-----------------------------------------------------------------------------
(* Renewing codes, changing the password, resetting.                       *)

\* RegenerateRecoveryCodes asks for aal2 and a verified factor ...
RegenerateRecoveryCodes(r) ==
  /\ Called(r)
  /\ 2 \in jwt
  /\ Verified # {}
  /\ req' = [req EXCEPT ![r] = [Idle EXCEPT !.pc = "regenerate", !.level = 2]]
  /\ UNCHANGED <<now, factors, challenges, codes, failures, sessions, jwt, proof>>

\* ... and ReplaceRecoveryCodes stores the set in a transaction of its own.
ReplaceRecoveryCodes(r) ==
  /\ req[r].pc = "regenerate"
  /\ AccountFree
  /\ codes' = CodeCount
  /\ Finish(r)
  /\ UNCHANGED <<now, factors, challenges, failures, sessions, jwt, calls, proof>>

\* Store.ChangePassword ends every session of the account.
ChangePassword(r) ==
  /\ req[r].pc = "change"
  /\ AccountFree
  /\ sessions' = Ended(Family)
  /\ proof' = Forgotten(Family)
  /\ req' = [Spent(Family) EXCEPT ![r].pc = "carry"]
  /\ UNCHANGED <<now, factors, challenges, codes, failures, jwt, calls>>

\* carriedSession: the level of the caller's access token.
Carried(level) == IF level = 2 THEN "aal2" ELSE "aal1"

\* The session that replaces the caller's.
CarrySession(r, s) ==
  /\ req[r].pc = "carry"
  /\ NewFamily(s)
  /\ sessions' = [sessions EXCEPT ![s] = Carried(req[r].level)]
  /\ proof' = [proof EXCEPT ![s] = IF req[r].level = 2 THEN "carried" ELSE "none"]
  /\ jwt' = jwt \cup {req[r].level}
  /\ Finish(r)
  /\ UNCHANGED <<now, factors, challenges, codes, failures, calls>>

\* ResetMFA: factors, codes, failures and sessions of the account go.
ResetMFA ==
  /\ AccountFree
  /\ factors' = Removed(Verified \cup Unverified)
  /\ challenges' = {}
  /\ codes' = CodesWithout({})
  /\ failures' = {}
  /\ sessions' = Ended(Family)
  /\ proof' = Forgotten(Family)
  /\ req' = Spent(Family)
  /\ UNCHANGED <<now, jwt, calls>>

\* The server stops, the client goes away, the vault or a hook cannot be reached,
\* or a statement fails: an open transaction is rolled back.
Abort(r) ==
  /\ req[r].pc # "idle"
  /\ Finish(r)
  /\ UNCHANGED <<now, factors, challenges, codes, failures, sessions, jwt, calls, proof>>

Tick ==
  /\ now < MaxTime
  /\ now' = now + 1
  /\ UNCHANGED <<factors, challenges, codes, failures, sessions, jwt, req, calls, proof>>

-----------------------------------------------------------------------------
(* The specification.                                                      *)

Init ==
  /\ now = 0
  /\ factors = [f \in Factor |-> [status |-> "none", last |-> -1, made |-> 0]]
  /\ challenges = {}
  /\ codes = 0
  /\ failures = {}
  /\ sessions = [s \in Family |-> "none"]
  /\ jwt = {}
  /\ req = [r \in Req |-> Idle]
  /\ calls = 0
  /\ proof = [s \in Family |-> "none"]

\* What clients call.
Call(r) ==
  \/ \E level \in Level : EnrollFactor(r, level)
  \/ \E level \in Level : UnenrollFactor(r, level)
  \/ \E level \in Level : ChangePasswordAsked(r, level)
  \/ \E s \in Family, level \in Level : VerifyFactor(r, s, level)
  \/ \E s \in Family : RecoverWithCode(r, s)
  \/ RegenerateRecoveryCodes(r)

\* The steps of a handler that has been called.
Step(r) ==
  \/ \E f \in Factor : CreateFactor(r, f)
  \/ \E f \in Factor : DeleteFactor(r, f)
  \/ \E f \in Factor, k \in Challenge, step \in -1 .. MaxTime + 1 : CheckFactor(r, f, k, step)
  \/ RecordFailure(r)
  \/ AcceptFactor(r)
  \/ CheckBudget(r)
  \/ RedeemRecoveryCode(r)
  \/ RedeemNothing(r)
  \/ Refused(r)
  \/ Elevate(r)
  \/ ElevateRefused(r)
  \/ AddRecoveryCodes(r)
  \/ NoRecoveryCodes(r)
  \/ ReplaceRecoveryCodes(r)
  \/ ChangePassword(r)
  \/ \E s \in Family : CarrySession(r, s)

World ==
  \/ \E s \in Family : SignIn(s)
  \/ \E s \in Family : Refresh(s)
  \/ \E s \in Family : EndSession(s)
  \/ \E f \in Factor, k \in Challenge : CreateChallenge(f, k)
  \/ ResetMFA
  \/ Tick

Next == (\E r \in Req : Call(r) \/ Step(r) \/ Abort(r)) \/ World

Spec == Init /\ [][Next]_vars

-----------------------------------------------------------------------------
(* Properties.                                                             *)

\* The rows, the request records and the history keep their types.
TypeOK ==
  /\ now \in Nat
  /\ factors \in [Factor -> FactorRow]
  /\ challenges \subseteq ChallengeRow
  /\ codes \in 0 .. CodeCount
  /\ failures \subseteq FailureRow
  /\ sessions \in [Family -> {"none", "aal1", "aal2"}]
  /\ jwt \subseteq Level
  /\ req \in [Req -> ReqState]
  /\ calls \in Nat
  /\ proof \in [Family -> {"none", "code", "carried"}]

\* "A step is never accepted twice" (last_used_step): whatever requests answer
\* challenges of a factor at once, the newest step spent only moves forward.
StepsOnlyAdvance ==
  [][\A f \in Factor :
       /\ factors'[f].status = "verified"
       /\ factors'[f].last # factors[f].last
       => factors'[f].last > factors[f].last]_vars

\* Once a factor is verified, another one is verified only by a caller at aal2:
\* a factor enrolled before, or by a request that was already under way, cannot
\* lift a password to aal2 (lockFactor).
PlantedNeverLifts ==
  [][\A f \in Factor :
       /\ factors[f].status # "verified"
       /\ factors'[f].status = "verified"
       /\ Verified # {}
       => \E r \in Req : req[r].pc = "accept" /\ req[r].factor = f /\ req[r].level = 2]_vars

\* However many requests of however many sessions guess at once, no session has
\* more wrong codes than its window and its day allow, and callers at aal1
\* together no more than the account's day allows (failureBudget).
BudgetsHold ==
  /\ \A s \in Family :
       /\ \A f \in Factor \cup {None} : Cardinality(RecentFailures(s, f)) <= MaxFailures
       /\ Cardinality(DayFailures(s)) <= MaxDailyFailures
  /\ Cardinality({x \in AccountFailures : x.level = 1}) <= MaxAccountDailyFailures

\* With it, recovery codes are spent only while there are any, and every row and
\* request keeps its type.
CountsHold == TypeOK /\ BudgetsHold

\* A session at aal2 answered a code since the last reset of the account's MFA, or
\* replaced one at aal2 when its password was changed: the reset also reaches a
\* step-up whose code was accepted before it and whose token was not yet spent.
ElevatedIsProved ==
  \A s \in Family : sessions[s] = "aal2" => proof[s] # "none"

\* "A reset or removal racing the step-up leaves no factor; no set may outlive it"
\* (AddRecoveryCodesIfNone): an account comes to have unspent codes and no verified
\* factor only when the two statements of RegenerateRecoveryCodes let a reset or a
\* removal in between.
NoSetOutlivesFactor ==
  [][codes' > 0 /\ Verified' = {} =>
       \/ codes > 0 /\ Verified = {}
       \/ \E r \in Req : req[r].pc = "regenerate" /\ req'[r].pc = "idle"]_vars

-----------------------------------------------------------------------------
(* The inductive invariant.                                                *)

\* Whoever holds the account's row holds it alone.
OneHolder == \A q, r \in Holders : q = r

\* What a request has read still holds where it matters: under the lock the factor
\* and the budget it was let through for, and without it that a session which can
\* still be elevated was not reset since its code was accepted.
RequestOK(r) ==
  LET q == req[r]
  IN  /\ q.pc \in {"verify", "accept", "miss", "recover", "redeem", "elevate"} => q.family \in Family
      /\ q.pc = "accept" =>
           /\ q.factor \in Factor
           /\ q.step > factors[q.factor].last
           /\ factors[q.factor].status # "verified" /\ Verified # {} => q.level = 2
      /\ q.pc = "miss" => q.factor \in Factor /\ FailureBudget(q.family, q.factor, q.level)
      /\ q.pc = "redeem" => FailureBudget(q.family, None, q.level)
      /\ q.pc = "elevate" /\ q.holds => proof[q.family] # "none"

IInv ==
  /\ TypeOK
  /\ IsFiniteSet(failures)
  /\ BudgetsHold
  /\ ElevatedIsProved
  /\ OneHolder
  /\ \A r \in Req : RequestOK(r)

=============================================================================
