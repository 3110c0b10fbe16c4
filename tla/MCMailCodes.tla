---------------------------- MODULE MCMailCodes -----------------------------
(* What is mailed to sign in, to link an address and to change one, for TLC: links and
   codes (EmailOtps), and guests with their sweep and the changes of addresses (Guests).
   They share no state here, so a behaviour is one of the first or of the second.     *)
EXTENDS EmailOtps, TLC

CONSTANTS
  GuestClient, PerClientHour, GuestsPerDay, PerAccountDay, PerGuestClientDay,
  GuestPerProjectDay, ChangeTTL, GuestHour, Every, InactiveAfter,
  MaxGuests, MaxChanges, MaxCalls, GuestTime

VARIABLES
  part,   \* which of the two runs
  day, made, users, signUps, asked, changes, cleaned, handled, calls

G == INSTANCE Guests WITH
  Client <- GuestClient, TTL <- ChangeTTL, Hour <- GuestHour, MaxTime <- GuestTime,
  now <- day, req <- handled

guests == <<day, made, users, signUps, asked, changes, cleaned, handled, calls>>

MCInit == part \in {"otps", "guests"} /\ Init /\ G!Init

MCNext ==
  \/ part = "otps" /\ Next /\ UNCHANGED <<part, guests>>
  \/ part = "guests" /\ G!Next /\ UNCHANGED <<part, vars>>

MCSpec == MCInit /\ [][MCNext]_<<part, vars, guests>>

\* Requests, addresses, browsers and clients are interchangeable.
Symmetry ==
  Permutations(Req) \cup Permutations(Browser) \cup Permutations(Client) \cup Permutations(Address)

\* Every budget on what is mailed holds (OTPLimits, OTPAttempts, GuestLimits,
\* EmailChangeLimits), whichever requests overlap; rows and requests keep their types.
MailBudgetsHold ==
  /\ TypeOK /\ SendBudgetsHold /\ TriesAreCounted
  /\ G!TypeOK /\ G!GuestBudgetsHold /\ G!ChangeBudgetsHold

\* An ended change moves no account (Guests).
EndedNeverMoves == G!EndedNeverMoves

\* A sweep deletes guests only (Guests).
SweptWereGuests == G!SweptWereGuests

=============================================================================
