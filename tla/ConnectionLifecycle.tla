------------------------ MODULE ConnectionLifecycle ------------------------
(***************************************************************************)
(* What the server promises of one accepted connection, with the threads,  *)
(* queues, polling and eviction left out: it is handed to one worker, for  *)
(* good; that worker opens its connections in the order in which they were *)
(* accepted, each once; and a connection that is closed stays closed.      *)
(***************************************************************************)
EXTENDS Naturals

CONSTANTS
  Conn,     \* numbers
  Workers,
  NoWorker

VARIABLES
  phase,  \* "absent", "queued", "open" or "gone"
  worker  \* the worker a connection was handed to

vars == <<phase, worker>>

Init ==
  /\ phase = [c \in Conn |-> "absent"]
  /\ worker = [c \in Conn |-> NoWorker]

\* Connections are numbered as they are accepted.
Assign(c, w) ==
  /\ \A d \in Conn : d >= c => phase[d] = "absent"
  /\ phase' = [phase EXCEPT ![c] = "queued"]
  /\ worker' = [worker EXCEPT ![c] = w]

Open(c) ==
  /\ phase[c] = "queued"
  /\ \A d \in Conn : d < c /\ worker[d] = worker[c] => phase[d] # "queued"
  /\ phase' = [phase EXCEPT ![c] = "open"]
  /\ UNCHANGED worker

\* One pass of a worker may close several of its connections.
Close(S) ==
  /\ \A c \in S : phase[c] = "open"
  /\ \A c, d \in S : worker[c] = worker[d]
  /\ phase' = [c \in Conn |-> IF c \in S THEN "gone" ELSE phase[c]]
  /\ UNCHANGED worker

Next ==
  \/ \E c \in Conn, w \in Workers : Assign(c, w)
  \/ \E c \in Conn : Open(c)
  \/ \E S \in SUBSET Conn : Close(S)

\* What is queued is opened in the end; nothing need be closed.
Spec == Init /\ [][Next]_vars /\ WF_vars(\E c \in Conn : Open(c))
=============================================================================
