----------------------------- MODULE Deadlines -----------------------------
(* A connection to a project's database (deadlineConn, pool/io_deadline.go): every write and
   read arms a deadline under the connection's lock, while the driver may cancel the call
   by setting a deadline of its own at any moment. One connection, one call at a time.

   Deadlines are ticks left: 0 has passed, None is none.                               *)
EXTENDS Naturals

CONSTANTS None, IOTimeout

VARIABLES
  limit,     \* readLimit and writeLimit: what the driver set
  deadline,  \* what the socket has
  mutex,     \* who holds the connection's lock: "call", "cancel" or None
  armed,     \* the deadline that arm computed
  phase,     \* "idle", or what the call does: it arms and waits, in a direction
  server     \* "up", or "dead": it stopped answering

ioVars == <<limit, deadline, mutex, armed, phase, server>>

Dir == {"write", "read"}

Idle == [does |-> "idle", dir |-> None]

\* Variant: only the driver's own deadline.
OnlyLimit(d) == limit[d]

\* arm: the sooner one.
Sooner(d) == IF limit[d] # None /\ limit[d] < IOTimeout THEN limit[d] ELSE IOTimeout

\* A statement is sent.
Call ==
  /\ phase = Idle
  /\ phase' = [does |-> "arms", dir |-> "write"]
  /\ UNCHANGED <<limit, deadline, mutex, armed, server>>

\* Variant: the lock is not taken.
ArmUnlocked ==
  /\ phase.does = "arms"
  /\ mutex' = mutex
  /\ armed' = Sooner(phase.dir)
  /\ phase' = [phase EXCEPT !.does = "sets"]
  /\ UNCHANGED <<limit, deadline, server>>

\* arm: the lock, and the deadline from the limit there is.
Arm ==
  /\ phase.does = "arms" /\ mutex = None
  /\ mutex' = "call"
  /\ armed' = Sooner(phase.dir)
  /\ phase' = [phase EXCEPT !.does = "sets"]
  /\ UNCHANGED <<limit, deadline, server>>

\* arm: the socket's deadline, and the lock is let go; the call waits on the socket.
SetArmed ==
  /\ phase.does = "sets"
  /\ deadline' = [deadline EXCEPT ![phase.dir] = armed]
  /\ mutex' = IF mutex = "call" THEN None ELSE mutex
  /\ armed' = None
  /\ phase' = [phase EXCEPT !.does = "waits"]
  /\ UNCHANGED <<limit, server>>

\* The bytes went out, or came in: after a write the answer is read, and there may be
\* more of it.
Transfer(more) ==
  /\ phase.does = "waits" /\ server = "up"
  /\ phase' = IF phase.dir = "write" \/ more THEN [does |-> "arms", dir |-> "read"] ELSE Idle
  /\ UNCHANGED <<limit, deadline, mutex, armed, server>>

\* The socket's deadline passed: the call fails and the driver closes the connection. The
\* pool opens another one.
TimeOut ==
  /\ phase.does = "waits" /\ deadline[phase.dir] = 0 /\ mutex = None
  /\ limit' = [d \in Dir |-> None] /\ deadline' = [d \in Dir |-> None]
  /\ phase' = Idle
  /\ server' = "up"
  /\ UNCHANGED <<mutex, armed>>

\* The driver cancels the call (its context ended): SetDeadline with a time long past.
CancelLimit ==
  /\ phase # Idle /\ mutex = None /\ limit["read"] = None
  /\ mutex' = "cancel"
  /\ limit' = [d \in Dir |-> 0]
  /\ UNCHANGED <<deadline, armed, phase, server>>

CancelSet ==
  /\ mutex = "cancel"
  /\ deadline' = [d \in Dir |-> 0]
  /\ mutex' = None
  /\ UNCHANGED <<limit, armed, phase, server>>

\* The call had ended before it was cancelled: the driver takes its deadline back.
Uncancel ==
  /\ phase = Idle /\ mutex = None /\ limit["read"] # None
  /\ limit' = [d \in Dir |-> None] /\ deadline' = [d \in Dir |-> None]
  /\ UNCHANGED <<mutex, armed, phase, server>>

\* The server's pod is replaced: nothing is answered on this connection any more.
Die ==
  /\ server = "up"
  /\ server' = "dead"
  /\ UNCHANGED <<limit, deadline, mutex, armed, phase>>

Later(t) == IF t = None \/ t = 0 THEN t ELSE t - 1

Pass ==
  /\ \E d \in Dir : Later(deadline[d]) # deadline[d]
  /\ deadline' = [d \in Dir |-> Later(deadline[d])]
  /\ limit' = [d \in Dir |-> Later(limit[d])]
  /\ armed' = Later(armed)
  /\ UNCHANGED <<mutex, phase, server>>

DeadlinesInit ==
  /\ limit = [d \in Dir |-> None] /\ deadline = [d \in Dir |-> None]
  /\ mutex = None /\ armed = None /\ phase = Idle /\ server = "up"

DeadlinesNext ==
  \/ Call \/ Arm \/ SetArmed \/ TimeOut
  \/ \E more \in BOOLEAN : Transfer(more)
  \/ CancelLimit \/ CancelSet \/ Uncancel \/ Die \/ Pass

\* A thread that holds a lock goes on, time passes, and a socket's timer fires.
DeadlinesFairness ==
  /\ WF_ioVars(Arm) /\ WF_ioVars(SetArmed) /\ WF_ioVars(CancelSet)
  /\ WF_ioVars(TimeOut) /\ WF_ioVars(Pass)

DeadlinesSpec == DeadlinesInit /\ [][DeadlinesNext]_ioVars /\ DeadlinesFairness

-----------------------------------------------------------------------------
(* Properties.                                                             *)

\* "a concurrent cancel either is seen here or overrides what is set": once the cancel is
\* done, a call that waits on the socket waits no longer.
CancelHolds ==
  mutex = None /\ limit["read"] # None /\ phase.does = "waits"
    => deadline[phase.dir] # None /\ deadline[phase.dir] <= limit[phase.dir]

\* "a server that stops answering ... fails the call instead of holding it": a call on a
\* dead server ends, whatever it was doing and whether or not it is cancelled as well.
CallsEnd == server = "dead" /\ phase # Idle ~> phase = Idle

\* A cancelled call waits no longer, and a call on a dead server ends.
CallsAreBounded == []CancelHolds /\ CallsEnd

=============================================================================
