------------------------------- MODULE Hooks -------------------------------
(* When a project's auth hooks are asked (handler/auth_hooks.go): the settings are read no
   older than signInMaxAge (GetProjectInfoWithin, no lock held while it asks), a hook that
   is on is called before the token is signed, the account created or the mail sent, and
   whatever goes wrong on the way refuses. What a hook may answer is module Tokens'.
   One project.                                                                         *)
EXTENDS Naturals, FiniteSets

CONSTANTS
  Req, None,
  Hook,          \* hooks a project may switch on
  SignInMaxAge,  \* AuthHandler.signInMaxAge
  MaxFlight,     \* bound: a request is over this soon
  Horizon        \* bound: the clock stops there

VARIABLES
  clock,
  on,        \* AuthHooks at the control plane: hooks that are on, None while its flag is off
  since,     \* history: hook -> when it was last switched on, None while it is off
  up,        \* whether provisioning answers
  info,      \* the replica's last copy and when it was stored, or None
  act        \* request -> what it is doing

hookVars == <<clock, on, since, up, info, act>>

\* What is done unless its hook objects; a guest's upgrade is a new user too.
Deed == Hook \cup {"guest_upgrade"}
HookOf(deed) == IF deed = "guest_upgrade" THEN "before_user_created" ELSE deed

Rest == [pc |-> "rest", deed |-> None, began |-> None, got |-> None, asked |-> FALSE,
         unread |-> FALSE, copied |-> None]

Set(r, q) == act' = [act EXCEPT ![r] = q]

IsOn(settings, deed) == settings # None /\ HookOf(deed) \in settings

\* The settings are known: the hook is called, or the deed is done.
Known(r, q, settings) ==
  Set(r, IF ~IsOn(settings, q.deed) THEN [q EXCEPT !.pc = "does", !.got = None]
         ELSE [q EXCEPT !.pc = IF q.deed = "guest_upgrade" THEN "upgrades" ELSE "asks", !.got = None])

\* withAccessHook, allowNewUser, sendMail or guestUpgradeAllowed is entered.
Begin(r, deed) ==
  /\ act[r].pc = "rest"
  /\ Set(r, [Rest EXCEPT !.pc = "begins", !.deed = deed, !.began = clock])
  /\ UNCHANGED <<clock, on, since, up, info>>

\* Variant: the copy that display names are read from will do.
AnyCopy == info # None

\* A copy younger than maxAge.
FreshCopy == info # None /\ clock - info.at < SignInMaxAge

\* hookSettings from a fresh copy.
ReadCopy(r) ==
  /\ act[r].pc = "begins" /\ FreshCopy
  /\ Known(r, act[r], info.hooks)
  /\ UNCHANGED <<clock, on, since, up, info>>

\* There is none: GetProjectInfoWithin asks provisioning.
AskPlane(r) ==
  /\ act[r].pc = "begins" /\ ~FreshCopy
  /\ Set(r, [act[r] EXCEPT !.pc = "asking"])
  /\ UNCHANGED <<clock, on, since, up, info>>

\* Provisioning answers.
ReadPlane(r) ==
  /\ act[r].pc = "asking" /\ up
  /\ Set(r, [act[r] EXCEPT !.pc = "told", !.got = on])
  /\ UNCHANGED <<clock, on, since, up, info>>

\* The answer is stored over whatever copy is there by now.
StoreInfo(r) ==
  /\ act[r].pc = "told"
  /\ info' = [hooks |-> act[r].got, at |-> clock]
  /\ Known(r, act[r], act[r].got)
  /\ UNCHANGED <<clock, on, since, up>>

\* Variant: unreadable settings are no settings.
NeverClosed == FALSE

\* "fail closed when the last copy had hooks"
FailsClosed == info # None /\ info.hooks # None

\* The ask fails, and the settings are unreadable: the copy there is by now decides.
Unread(r) ==
  /\ act[r].pc \in {"asking", "told"}
  /\ IF FailsClosed THEN Set(r, Rest)
     ELSE Known(r, [act[r] EXCEPT !.unread = TRUE, !.got = None,
                                !.copied = IF info = None THEN None ELSE info.at], None)
  /\ UNCHANGED <<clock, on, since, up, info>>

\* callHook: the vault gives the secret and the hook allows; a mail is then the hook's.
Allowed(r) ==
  /\ act[r].pc = "asks" /\ up
  /\ Set(r, [act[r] EXCEPT !.pc = "does", !.asked = TRUE])
  /\ UNCHANGED <<clock, on, since, up, info>>

\* callHook: no secret, no answer in time, not a 2xx, not the JSON expected; or it denies.
Refused(r) ==
  /\ act[r].pc = "asks"
  /\ Set(r, Rest)
  /\ UNCHANGED <<clock, on, since, up, info>>

\* guestUpgradeAllowed reads the account: one that is no guest is no new user either, for
\* a guest allowNewUser reads the settings again.
ReadGuest(r, guest) ==
  /\ act[r].pc = "upgrades"
  /\ Set(r, IF guest THEN [act[r] EXCEPT !.pc = "begins", !.deed = "before_user_created"] ELSE Rest)
  /\ UNCHANGED <<clock, on, since, up, info>>

\* The token is signed, the account created, the mail handed to the relay or the hook.
Does(r) ==
  /\ act[r].pc = "does"
  /\ Set(r, Rest)
  /\ UNCHANGED <<clock, on, since, up, info>>

\* The project switches hooks, or the control plane its flag.
Switch(hooks) ==
  /\ hooks # on
  /\ on' = hooks
  /\ since' = [h \in Hook |-> IF ~IsOn(hooks, h) THEN None ELSE IF IsOn(on, h) THEN since[h] ELSE clock]
  /\ UNCHANGED <<clock, up, info, act>>

\* Provisioning goes or comes back.
Flip ==
  /\ up' = ~up
  /\ UNCHANGED <<clock, on, since, info, act>>

Pass ==
  /\ clock < Horizon
  /\ \A r \in Req : act[r].began # None => clock - act[r].began < MaxFlight
  /\ clock' = clock + 1
  /\ UNCHANGED <<on, since, up, info, act>>

HooksInit ==
  /\ clock = 0 /\ on = None /\ since = [h \in Hook |-> None] /\ up = TRUE /\ info = None
  /\ act = [r \in Req |-> Rest]

HooksNext ==
  \/ \E r \in Req, deed \in Deed : Begin(r, deed)
  \/ \E r \in Req : \/ ReadCopy(r) \/ AskPlane(r) \/ ReadPlane(r) \/ StoreInfo(r) \/ Unread(r)
                    \/ Allowed(r) \/ Refused(r) \/ Does(r)
  \/ \E r \in Req, guest \in BOOLEAN : ReadGuest(r, guest)
  \/ \E hooks \in (SUBSET Hook) \cup {None} : Switch(hooks)
  \/ Flip \/ Pass

HooksSpec == HooksInit /\ [][HooksNext]_hookVars

-----------------------------------------------------------------------------
(* Properties.                                                             *)

\* Nothing is done behind the back of a hook that is on: with readable settings not later
\* than signInMaxAge and one flight after it was switched on, although a slow answer may
\* replace a newer copy; with unreadable settings never once the replica stored a copy
\* that was asked for after that (with no copy at all it goes on, see hookSettings).
HooksAreAsked ==
  \A r \in Req :
    LET q == act[r]
        h == HookOf(q.deed)
    IN
    q.pc = "does" /\ ~q.asked =>
      \/ since[h] = None
      \/ IF q.unread THEN q.copied = None \/ q.copied <= since[h] + MaxFlight
         ELSE q.began < since[h] + SignInMaxAge + MaxFlight

=============================================================================
