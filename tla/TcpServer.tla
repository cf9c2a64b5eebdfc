----------------------------- MODULE TcpServer -----------------------------
(***************************************************************************)
(* The whole server: one master thread accepting and running the cron, the *)
(* worker threads, and the peers.  It conjoins each accept with the hand   *)
(* over of the new connection to a worker (TcpServer::newConnection) and   *)
(* the cron with the refresh of the memory flag the workers read.          *)
(***************************************************************************)
EXTENDS Acceptor, Worker

CONSTANTS
  MemoryMayExceed,  \* TRUE: the process may outgrow max-vm-memory or max-rss
  NoWorker

ASSUME TcpServerAssumption ==
  /\ MemoryMayExceed \in BOOLEAN
  /\ NoWorker \notin Workers

\* The configurations and user callbacks under which no worker thread can die:
\* all callbacks are set, the rule "random" is not combined with memory limits
\* that can be exceeded, and callbacks that close their connection themselves
\* are not combined with a rule that looks for idle connections.
SafeConfiguration ==
  /\ Callbacks = {"connection", "message", "disconnection"}
  /\ EvictionRule = "random" => ~MemoryMayExceed
  /\ HandlerMayClose => InactiveRule = "none" /\ EvictionRule # "inactive"

VARIABLE
  worker  \* _worker of each connection, NoWorker until it is constructed

vars == <<kernelVars, acceptorVars, workerVars, worker>>

Init ==
  /\ KernelInit
  /\ AcceptorInit
  /\ WorkerInit
  /\ worker = [c \in Conn |-> NoWorker]

-----------------------------------------------------------------------------
(* The master thread. *)

\* newConnection: whatever the load-balance rule, _loadBalance returns some
\* worker of the pool, and the connection is built for it and queued with it.
NewConnection ==
  \E w \in Workers :
    /\ Accept
    /\ RegisterNewConnection(w, dequeued')
    /\ worker' = [worker EXCEPT ![dequeued'] = w]

\* serverCron, then back to waiting: checkMaxMemory samples the process's size.
ServerCron ==
  /\ CronDone
  /\ exceedMem' \in IF MemoryMayExceed THEN BOOLEAN ELSE {FALSE}
  /\ UNCHANGED <<incoming, temp, pool, batch, wpc, objectVars, gone, worker>>

MasterStep ==
  \/ NewConnection
  \/ ServerCron
  \/ /\ \/ WaitForListener
        \/ AcceptDrained
        \/ AcceptTransientError
        \/ AcceptOutOfDescriptors
     /\ UNCHANGED <<workerVars, worker>>

WorkersStep(w) == WorkerStep(w) /\ UNCHANGED <<acceptorVars, worker>>

PeersStep == Environment /\ UNCHANGED <<acceptorVars, workerVars, worker>>

Next ==
  /\ process = "running"
  /\ \/ MasterStep
     \/ \E w \in Workers : WorkersStep(w)
     \/ PeersStep

Spec == Init /\ [][Next]_vars

\* Each thread keeps running: the operating system schedules all of them, and
\* neither loop ever blocks for good (the workers poll, the master waits 10 ms).
Fairness ==
  /\ WF_vars(process = "running" /\ MasterStep)
  /\ \A w \in Workers : WF_vars(process = "running" /\ WorkersStep(w))

FairSpec == Spec /\ Fairness

-----------------------------------------------------------------------------
(* Where a connection is. *)

InQueue(w, c) == c \in Range(temp[w]) \cup Range(incoming[w])

Phase ==
  [c \in Conn |-> CASE c \in gone                        -> "gone"
                    [] \E w \in Workers : c \in pool[w]   -> "open"
                    [] \E w \in Workers : InQueue(w, c)   -> "queued"
                    [] OTHER                             -> "absent"]

Lifecycle == INSTANCE ConnectionLifecycle WITH phase <- Phase
-----------------------------------------------------------------------------
(* Invariants. *)

Accepted == 1..dequeued \ aborted

\* The type of every variable.
TypeOK ==
  /\ opened \in 0..MaxConns /\ dequeued \in 0..opened
  /\ aborted \subseteq 1..dequeued /\ fds \in 0..dequeued
  /\ mpc \in {"wait", "accept", "cron"} /\ listenReady \in BOOLEAN
  /\ unread \subseteq Conn /\ fin \subseteq Conn /\ rst \subseteq Conn
  /\ interest \in [Workers -> SUBSET Conn] /\ ready \subseteq Conn /\ late \subseteq ready
  /\ now \in 0..MaxTime /\ process \in {"running", "crashed", "aborted"}
  /\ incoming \in [Workers -> Seq(Conn)] /\ temp \in [Workers -> Seq(Conn)]
  /\ pool \in [Workers -> SUBSET Conn] /\ batch \in [Workers -> SUBSET Event]
  /\ wpc \in [Workers -> {"poll", "event", "register", "evict"}]
  /\ closed \subseteq Conn /\ gone \subseteq Conn
  /\ lastActive \in [Conn -> 0..MaxTime] /\ exceedMem \in BOOLEAN
  /\ disconnects \in [Conn -> Nat]
  /\ worker \in [Conn -> Workers \cup {NoWorker}]

\* In a safe configuration no worker thread dereferences a null connection or
\* entry, and none calls a callback that was not set: every event epoll returns finds its connection in
\* the pool (workFunction looks it up with operator[], which inserts a null one
\* when it is missing), and eviction never draws from an empty pool.
NoCrash == SafeConfiguration => process # "crashed"

\* From newConnection on, a connection is with the one worker it was built for,
\* in exactly one place: queued there once, in that worker's pool, or removed.
\* None is lost or doubled between accept, the swap of the queue and the pool.
InOnePlace ==
  /\ \A c \in Conn : worker[c] # NoWorker <=> c \in Accepted
  /\ \A c \in Conn, w \in Workers :
       InQueue(w, c) \/ c \in pool[w] => worker[c] = w /\ c \notin gone
  /\ \A c \in Accepted :
       LET w == worker[c] IN
       c \notin gone => (InQueue(w, c) <=> c \notin pool[w])
  /\ \A w \in Workers : Range(temp[w]) \cap Range(incoming[w]) = {}

\* With callbacks that do not close connections themselves, the disconnection
\* callback runs at most once for a connection, only when its peer did close or
\* reset it (an EPOLLIN that finds nothing to read would report a disconnection
\* that did not happen), and the connection is then out of the pool.
DisconnectionsAreReal ==
  ~HandlerMayClose =>
    \A c \in Conn : /\ disconnects[c] \in 0..1
                    /\ disconnects[c] = 1 => c \in fin \cup rst /\ c \in closed \cap gone

\* The acceptor gives up for want of descriptors only while that many accepted
\* connections are still served (acceptor.h: "once start, the acceptor will not
\* stop").
AcceptorStopsOnlyWhenFull ==
  process = "aborted" => Cardinality(Accepted \ gone) >= FdLimit

-----------------------------------------------------------------------------
(* Action properties. *)

\* A worker drops a connection for a reason: it is closed, its peer reset it, it
\* has been idle longer than inactive-tcp-timeout under the rule "close", or the
\* worker is over one of its limits under a rule other than "none".
RemovalIsJustified ==
  [][\A c \in gone' \ gone :
       \/ c \in closed' \cup rst
       \/ InactiveRule = "close" /\ Idle(c) > InactiveTimeout
       \/ EvictionRule # "none" /\ OverLimit(worker[c])]_vars

\* The server implements the connection life cycle, step by step.
LifecycleSteps == Lifecycle!Init /\ [][Lifecycle!Next]_(Lifecycle!vars)

-----------------------------------------------------------------------------
(* Liveness, under FairSpec. *)

\* A peer that has connected is taken out of the listen queue in the end: the
\* edge-triggered loop of Acceptor::start leaves nobody behind.
PeersAreAccepted == \A c \in Conn : c <= opened ~> c <= dequeued

\* The server implements the life cycle with its liveness: every connection that
\* was queued with a worker is opened by it.
ImplementsLifecycle == Lifecycle!Spec

\* What a peer sent on an accepted connection is read, or the connection dropped.
UnreadIsRead == \A c \in Conn : c \in Accepted /\ c \in unread ~> c \notin unread \/ c \in gone

\* A connection reset by its peer leaves the pool in the end.
ResetIsReaped == \A c \in Conn : c \in Accepted /\ c \in rst ~> c \in gone

\* A connection closed by its peer leaves the pool in the end, by a call of the
\* disconnection callback or otherwise (README.md: setDisconnectionCallback).
CloseIsReaped == \A c \in Conn : c \in Accepted /\ c \in fin ~> c \in gone

\* Under the rule "random" a pool that outgrew max-tcp-per-worker shrinks again.
OverloadIsShed ==
  \A w \in Workers :
    Cardinality(pool[w]) > MaxPerWorker ~> Cardinality(pool[w]) <= MaxPerWorker
=============================================================================
