-------------------------- MODULE MCSessionsMySQL --------------------------
(* Sessions on MySQL for TLC, and what lets its requests end: the connections they use do
   not wait for good (Deadlines), and a replica comes to serve them (Startup). The three
   share no state, so a behaviour is one of the first, the second or the third.       *)
EXTENDS Sessions

CONSTANTS IOTimeout, RetryFirst, RetryMax

VARIABLES
  part,   \* which of the three runs
  limit, deadline, mutex, armed, phase, server,
  vault, config, step, delay

IO == INSTANCE Deadlines
Boot == INSTANCE Startup

io == <<limit, deadline, mutex, armed, phase, server>>
boot == <<vault, config, step, delay>>

MCInit ==
  /\ part \in {"sessions", "io", "boot"}
  /\ Init /\ IO!DeadlinesInit /\ Boot!StartupInit
  /\ part # "boot" => vault = "open" /\ config

MCNext ==
  \/ part = "sessions" /\ Next /\ UNCHANGED <<part, io, boot>>
  \/ part = "io" /\ IO!DeadlinesNext /\ UNCHANGED <<part, vars, boot>>
  \/ part = "boot" /\ Boot!StartupNext /\ UNCHANGED <<part, vars, io>>

\* The fairness of each, where its steps are allowed at all.
MCSpec ==
  /\ MCInit /\ [][MCNext]_<<part, vars, io, boot>>
  /\ \A r \in Req : SF_vars(Step(r))
  /\ WF_vars(BreakDeadlock)
  /\ IO!DeadlinesFairness
  /\ WF_boot(part = "boot" /\ Boot!Main)

\* A call on a dead server ends and a cancelled one waits no longer (pool/io_deadline.go);
\* a replica waits for a sealed vault, and listens once it is unsealed (signing_key.go).
WaitsEnd == IO!CallsAreBounded /\ (part = "boot" => Boot!StartsOnceUnsealed)

=============================================================================
