------------------------------- MODULE Dialer -------------------------------
(* How a hook's host is reached (publicaddr/dialer.go, classify.go): the name is looked up,
   every answer is checked, then the checked addresses are dialled one after the other and
   the socket's peer is checked again. Names change their answers meanwhile.             *)
EXTENDS FiniteSets

CONSTANTS
  Req, None,
  Address,    \* addresses names resolve to
  Unmap,      \* address -> itself, or the IPv4 address it maps
  Embeds,     \* address -> the IPv4 address NAT64 or 6to4 carries in it, or None
  Internal,   \* loopback, private, link-local and blocked ranges
  Deny        \* Dialer.deny: the install's own ranges

VARIABLES
  names,   \* what the resolver answers
  dial     \* request -> what it is doing

dialVars == <<names, dial>>

Rest == [pc |-> "rest", left |-> {}, found |-> {}, peer |-> None]

Set(r, q) == dial' = [dial EXCEPT ![r] = q]

\* ClassifyAddr: an address that carries another one is judged by it as well.
IsInternal(a) ==
  Unmap[a] \in Internal \/ (Embeds[Unmap[a]] # None /\ Embeds[Unmap[a]] \in Internal)

\* Variant: the install's ranges are compared with the address as it is.
AsWritten(a) == ~IsInternal(a) /\ a \notin Deny

\* Check
Check(a) == ~IsInternal(a) /\ {Unmap[a], Embeds[Unmap[a]]} \cap Deny = {}

\* DialContext with an address for a host.
DialLiteral(r, a) ==
  /\ dial[r].pc = "rest" /\ Check(a)
  /\ Set(r, [Rest EXCEPT !.pc = "dials", !.left = {a}, !.found = {a}])
  /\ UNCHANGED names

\* Variant: answers that are refused are left out.
SomePass(found) == {a \in found : Check(a)} # {}

\* resolve: no answer may be refused.
AllPass(found) == found # {} /\ \A a \in found : Check(a)

\* DialContext with a name, up to the first connect.
Resolve(r) ==
  /\ dial[r].pc = "rest" /\ AllPass(names)
  /\ Set(r, [Rest EXCEPT !.pc = "dials", !.left = names, !.found = names])
  /\ UNCHANGED names

\* dialAddress and control: the peer is checked as the socket connects.
Connect(r, a) ==
  /\ dial[r].pc = "dials" /\ a \in dial[r].left /\ Check(a)
  /\ Set(r, [dial[r] EXCEPT !.pc = "connected", !.left = {}, !.peer = a])
  /\ UNCHANGED names

\* The address does not answer, or control refuses it: the next one, or the last error.
Miss(r, a) ==
  /\ dial[r].pc = "dials" /\ a \in dial[r].left
  /\ Set(r, IF dial[r].left = {a} THEN Rest ELSE [dial[r] EXCEPT !.left = @ \ {a}])
  /\ UNCHANGED names

Close(r) ==
  /\ dial[r].pc = "connected"
  /\ Set(r, Rest)
  /\ UNCHANGED names

\* The name's owner changes its answers.
Rebind(answers) ==
  /\ answers # names
  /\ names' = answers
  /\ UNCHANGED dial

DialerInit == names = {} /\ dial = [r \in Req |-> Rest]

DialerNext ==
  \/ \E r \in Req : Resolve(r) \/ Close(r)
  \/ \E r \in Req, a \in Address : DialLiteral(r, a) \/ Connect(r, a) \/ Miss(r, a)
  \/ \E answers \in SUBSET Address : Rebind(answers)

DialerSpec == DialerInit /\ [][DialerNext]_dialVars

-----------------------------------------------------------------------------
(* Properties.                                                             *)

\* Where a packet to address a ends up.
Destination(a) == IF Embeds[Unmap[a]] # None THEN Embeds[Unmap[a]] ELSE Unmap[a]

\* "a name that rebinds between check and connect gains nothing": a connection is to an
\* address of the one lookup that was checked, no answer of that lookup leads inside, and
\* neither does the peer, whatever address carries it.
DialsWhatWasChecked ==
  \A r \in Req : dial[r].pc = "connected" =>
    /\ dial[r].peer \in dial[r].found
    /\ \A a \in dial[r].found : Destination(a) \notin Internal \cup Deny

=============================================================================
