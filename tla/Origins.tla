------------------------------ MODULE Origins ------------------------------
(* The browser origins a project allows, as a replica knows them: Resolve (cors/provider.go)
   keeps a copy for a while, asks provisioning with no lock held, and serves the last copy
   when the ask fails; ProjectCORS (middleware/project_cors.go) grants from the answer.
   One project.                                                                          *)
EXTENDS Naturals

CONSTANTS
  Req, None,
  Platform,    \* origins of the platform itself
  Origin,      \* other origins
  OriginTTL,   \* ProvisioningProvider.ttl
  Horizon      \* bound: the clock stops there

VARIABLES
  clock,
  listed,    \* origins the project allows, "*" among them for any
  delisted,  \* history: origin -> when it was last allowed
  copy,      \* the cached list and fetchedAt, or None
  call       \* request -> what it is doing

originVars == <<clock, listed, delisted, copy, call>>

Rest == [pc |-> "rest", origin |-> None, began |-> 0, had |-> None, got |-> {}, stale |-> FALSE]

\* projectGrant: a lone "*" or an exact match.
Grants(list, o) == list = {"*"} \/ o \in list

\* When origin o was last allowed by the project itself.
LastAllowed(o) == IF Grants(listed, o) THEN clock ELSE delisted[o]

Answered(r, q, list) ==
  call' = [call EXCEPT ![r] = IF Grants(list, q.origin) THEN [q EXCEPT !.pc = "granted", !.had = None]
                              ELSE Rest]

\* ProjectCORS with an Origin that is not the platform's, and Resolve up to the fetch.
Ask(r, o) ==
  LET q == [Rest EXCEPT !.origin = o, !.began = clock] IN
  /\ call[r].pc = "rest" /\ o \notin Platform
  /\ IF copy # None /\ clock - copy.at < OriginTTL
     THEN Answered(r, q, copy.list)
     ELSE call' = [call EXCEPT ![r] = [q EXCEPT !.pc = "asking", !.had = copy]]
  /\ UNCHANGED <<clock, listed, delisted, copy>>

\* Provisioning answers the request.
Reply(r) ==
  /\ call[r].pc = "asking"
  /\ call' = [call EXCEPT ![r].pc = "replied", ![r].got = listed]
  /\ UNCHANGED <<clock, listed, delisted, copy>>

\* Variant: the copy counts from when it arrived.
KeptFromArrival(r) == [list |-> call[r].got, at |-> clock]

\* The copy counts from when it was asked for.
Kept(r) == [list |-> call[r].got, at |-> call[r].began]

\* The answer arrives: it replaces whatever copy is there by now.
Keep(r) ==
  /\ call[r].pc = "replied"
  /\ copy' = Kept(r)
  /\ Answered(r, call[r], call[r].got)
  /\ UNCHANGED <<clock, listed, delisted>>

\* The fetch fails: the copy read at the start serves, and without one nothing is granted.
Miss(r) ==
  /\ call[r].pc \in {"asking", "replied"}
  /\ IF call[r].had = None THEN call' = [call EXCEPT ![r] = Rest]
     ELSE Answered(r, [call[r] EXCEPT !.stale = TRUE, !.got = {}], call[r].had.list)
  /\ UNCHANGED <<clock, listed, delisted, copy>>

\* The grant is written to the response.
Done(r) ==
  /\ call[r].pc = "granted"
  /\ call' = [call EXCEPT ![r] = Rest]
  /\ UNCHANGED <<clock, listed, delisted, copy>>

\* The project changes its list.
Relist(list) ==
  /\ list # listed
  /\ delisted' = [o \in Origin |-> LastAllowed(o)]
  /\ listed' = list
  /\ UNCHANGED <<clock, copy, call>>

\* Time passes; a grant is written before it does.
Pass ==
  /\ clock < Horizon /\ \A r \in Req : call[r].pc # "granted"
  /\ clock' = clock + 1
  /\ UNCHANGED <<listed, delisted, copy, call>>

OriginsInit ==
  /\ clock = 0 /\ listed = {} /\ copy = None
  /\ delisted = [o \in Origin |-> None]
  /\ call = [r \in Req |-> Rest]

OriginsNext ==
  \/ \E r \in Req, o \in Origin : Ask(r, o)
  \/ \E r \in Req : Reply(r) \/ Keep(r) \/ Miss(r) \/ Done(r)
  \/ \E list \in (SUBSET Origin) \cup {{"*"}} : Relist(list)
  \/ Pass

OriginsSpec == OriginsInit /\ [][OriginsNext]_originVars

-----------------------------------------------------------------------------
(* Properties.                                                             *)

\* An origin is granted only if the project allowed it within the copy's lifetime before
\* the request began, although a slow answer may overwrite a newer copy; only a request
\* whose own ask of provisioning failed may grant from an older one ("last known").
OriginsAreRecent ==
  \A r \in Req :
    call[r].pc = "granted" /\ ~call[r].stale =>
      /\ LastAllowed(call[r].origin) # None
      /\ call[r].began < LastAllowed(call[r].origin) + OriginTTL

=============================================================================
