-------------------------- MODULE TcpServer_proofs --------------------------
(***************************************************************************)
(* Proofs about TcpServer, for any number of workers and connections.      *)
(***************************************************************************)
EXTENDS TcpServer, TLAPS, SequenceTheorems, FiniteSetTheorems

USE KernelAssumption, AcceptorAssumption, WorkerAssumption, TcpServerAssumption

\* What the last two steps of a worker's loop do to the pool and the epoll set.
Drops(w) ==
  \/ \E S \in SUBSET pool[w] : RemoveConnections(w, S)
  \/ Crash

\* The eviction pass either removes connections of the pool or crashes.
LEMMA EvictRandomNDrops ==
  ASSUME NEW w \in Workers, NEW n, NEW force \in BOOLEAN, EvictRandomN(w, n, force)
  PROVE  Drops(w)
<1>1. CASE n = 0 \/ pool[w] = {}
  BY <1>1 DEF EvictRandomN, Drops
<1>2. CASE ~(n = 0 \/ pool[w] = {})
  <2>1. PICK drawn \in SUBSET pool[w] \ {{}} :
          LET shut == drawn \cap closed IN
          \/ Crash
          \/ RemoveConnections(w, shut)
          \/ \E victim \in drawn : RemoveConnections(w, shut \cup {victim})
    BY <1>2, Zenon DEF EvictRandomN
  <2> DEFINE shut == drawn \cap closed
  <2>2. shut \in SUBSET pool[w] /\ \A c \in drawn : shut \cup {c} \in SUBSET pool[w]
    OBVIOUS
  <2>3. \/ RemoveConnections(w, shut)
        \/ Crash
        \/ \E c \in drawn : RemoveConnections(w, shut \cup {c})
    BY <2>1
  <2> QED BY <2>2, <2>3 DEF Drops
<1> QED BY <1>1, <1>2

LEMMA ManageInactiveDrops ==
  ASSUME NEW w \in Workers, ManageInactive(w)
  PROVE  Drops(w)
<1>1. RemoveConnections(w, {}) => Drops(w)
  BY DEF Drops
<1>2. EvictRandomN(w, EvictionPoolSize, FALSE) => Drops(w)
  BY EvictRandomNDrops
<1> QED BY <1>1, <1>2 DEF ManageInactive

LEMMA CheckLimitsDrops ==
  ASSUME NEW w \in Workers, CheckLimits(w)
  PROVE  Drops(w)
<1>1. RemoveConnections(w, {}) => Drops(w)
  BY DEF Drops
<1>2. EvictRandomN(w, ForcedDraws(w), TRUE) => Drops(w)
  BY EvictRandomNDrops
<1>3. ASSUME NEW c \in pool[w], RemoveConnections(w, {c}) PROVE Drops(w)
  BY <1>3 DEF Drops
<1>4. Crash => Drops(w)
  BY DEF Drops
<1>5. Eviction(w) => Drops(w)
  BY <1>1, <1>2, <1>3, <1>4 DEF Eviction
<1> QED BY <1>1, <1>5 DEF CheckLimits

-----------------------------------------------------------------------------
(* Type correctness. *)

LEMMA InitTypeOK == Init => TypeOK
<1> SUFFICES ASSUME Init PROVE TypeOK
  OBVIOUS
<1> USE DEF Init, KernelInit, AcceptorInit, WorkerInit
<1>1. <<>> \in Seq(Conn)
  OBVIOUS
<1>2. incoming \in [Workers -> Seq(Conn)] /\ temp \in [Workers -> Seq(Conn)]
  BY <1>1
<1>3. lastActive \in [Conn -> 0..MaxTime] /\ disconnects \in [Conn -> Nat]
  OBVIOUS
<1>4. worker \in [Conn -> Workers \cup {NoWorker}]
  OBVIOUS
<1>5. /\ interest \in [Workers -> SUBSET Conn] /\ pool \in [Workers -> SUBSET Conn]
      /\ batch \in [Workers -> SUBSET Event]
      /\ wpc \in [Workers -> {"poll", "event", "register", "evict"}]
  OBVIOUS
<1>6. /\ opened \in 0..MaxConns /\ dequeued \in 0..opened /\ now \in 0..MaxTime
      /\ aborted \subseteq 1..dequeued /\ fds \in 0..dequeued
  OBVIOUS
<1>7. /\ unread \subseteq Conn /\ fin \subseteq Conn /\ rst \subseteq Conn
      /\ ready \subseteq Conn /\ late \subseteq ready
      /\ closed \subseteq Conn /\ gone \subseteq Conn
      /\ listenReady \in BOOLEAN /\ exceedMem \in BOOLEAN
      /\ mpc = "wait" /\ process = "running"
  OBVIOUS
<1> QED BY <1>2, <1>3, <1>4, <1>5, <1>6, <1>7 DEF TypeOK

LEMMA AcceptorTypeOK ==
  ASSUME TypeOK, MasterStep
  PROVE  TypeOK'
<1>1. CASE NewConnection
  <2>1. PICK w \in Workers : Accept /\ RegisterNewConnection(w, dequeued')
                             /\ worker' = [worker EXCEPT ![dequeued'] = w]
    BY <1>1 DEF NewConnection
  <2>2. dequeued' \in Conn /\ dequeued' \in 0..opened /\ dequeued' = dequeued + 1
    BY <2>1 DEF Accept, Pending, TypeOK, Conn
  <2>3. incoming' \in [Workers -> Seq(Conn)]
    BY <2>1, <2>2 DEF RegisterNewConnection, TypeOK
  <2>4. lastActive' \in [Conn -> 0..MaxTime] /\ worker' \in [Conn -> Workers \cup {NoWorker}]
    BY <2>1, <2>2 DEF RegisterNewConnection, TypeOK
  <2>5. aborted' \subseteq 1..dequeued' /\ fds' \in 0..dequeued'
    BY <2>1, <2>2 DEF Accept, TypeOK
  <2> QED BY <2>1, <2>2, <2>3, <2>4, <2>5
          DEF Accept, RegisterNewConnection, kernelVars, peerVars, epollVars, TypeOK
<1>2. CASE ServerCron
  BY <1>2 DEF ServerCron, CronDone, objectVars, kernelVars, peerVars, epollVars, TypeOK
<1>3. ASSUME WaitForListener \/ AcceptDrained \/ AcceptOutOfDescriptors,
             UNCHANGED <<workerVars, worker>>
      PROVE  TypeOK'
  BY <1>3 DEF WaitForListener, AcceptDrained, AcceptOutOfDescriptors, acceptorVars,
              workerVars, objectVars, kernelVars, peerVars, epollVars, TypeOK
<1>4. ASSUME AcceptTransientError, UNCHANGED <<workerVars, worker>>
      PROVE  TypeOK'
  BY <1>4 DEF AcceptTransientError, Pending, workerVars, objectVars, kernelVars,
              peerVars, epollVars, TypeOK
<1> QED BY <1>1, <1>2, <1>3, <1>4 DEF MasterStep

LEMMA EnvironmentTypeOK ==
  ASSUME TypeOK, PeersStep
  PROVE  TypeOK'
<1> USE DEF acceptorVars, workerVars, objectVars, peerVars, epollVars, TypeOK
<1>1. CASE Connect
  BY <1>1 DEF Connect, PeersStep
<1>2. ASSUME NEW c \in Conn, Send(c) \/ Finish(c) \/ Reset(c)
      PROVE  TypeOK'
  BY <1>2 DEF Send, Finish, Reset, Wake, PeersStep
<1>3. CASE Tick
  BY <1>3 DEF Tick, PeersStep
<1> QED BY <1>1, <1>2, <1>3 DEF PeersStep, Environment

\* The variables that removals and crashes write.
DroppingTypeOK ==
  /\ interest \in [Workers -> SUBSET Conn]
  /\ ready \subseteq Conn /\ late \subseteq ready
  /\ pool \in [Workers -> SUBSET Conn] /\ gone \subseteq Conn
  /\ process \in {"running", "crashed", "aborted"}

LEMMA RemoveTypeOK ==
  ASSUME TypeOK, NEW w \in Workers, NEW S, RemoveConnections(w, S)
  PROVE  DroppingTypeOK'
<1>1. interest[w] \ S \in SUBSET Conn /\ pool[w] \ S \in SUBSET Conn
  BY DEF TypeOK
<1>2. interest' \in [Workers -> SUBSET Conn] /\ pool' \in [Workers -> SUBSET Conn]
  BY <1>1 DEF TypeOK, RemoveConnections, EpollDel
<1>3. ready' \subseteq Conn /\ late' \subseteq ready'
  BY DEF TypeOK, RemoveConnections, EpollDel
<1>4. gone' \subseteq Conn /\ process' = process
  BY DEF TypeOK, RemoveConnections
<1> QED BY <1>2, <1>3, <1>4 DEF TypeOK, DroppingTypeOK

LEMMA CrashTypeOK ==
  ASSUME TypeOK, Crash
  PROVE  DroppingTypeOK'
BY DEF TypeOK, DroppingTypeOK, Crash, epollVars

LEMMA DropsTypeOK ==
  ASSUME TypeOK, NEW w \in Workers, Drops(w)
  PROVE  DroppingTypeOK'
BY RemoveTypeOK, CrashTypeOK DEF Drops

LEMMA OnDisconnectionTypeOK ==
  ASSUME TypeOK, NEW c \in Conn, NEW happens, OnDisconnection(c, happens)
  PROVE  closed' \subseteq Conn /\ disconnects' \in [Conn -> Nat]
<1>1. disconnects[c] + 1 \in Nat
  BY DEF TypeOK
<1>2. [disconnects EXCEPT ![c] = @ + 1] \in [Conn -> Nat]
  BY <1>1 DEF TypeOK
<1> QED BY <1>2 DEF TypeOK, OnDisconnection

LEMMA EventOfType ==
  ASSUME NEW c \in Conn
  PROVE  EventOf(c) \in Event
<1>1. (c \in unread \cup fin \cup rst) \in BOOLEAN /\ (c \in rst) \in BOOLEAN
  OBVIOUS
<1>2. \A i, e \in BOOLEAN : [conn |-> c, in |-> i, err |-> e] \in Event
  BY DEF Event
<1> QED BY <1>1, <1>2, Zenon DEF EventOf

LEMMA WorkerTypeOK ==
  ASSUME TypeOK, NEW w \in Workers, WorkersStep(w)
  PROVE  TypeOK'
<1> USE DEF acceptorVars, WorkersStep
<1>1. CASE Poll(w)
  <2>1. PICK S \in SUBSET interest[w] :
          EpollWait(w, MaxEvents, S) /\ batch' = [batch EXCEPT ![w] = {EventOf(c) : c \in S}]
    BY <1>1 DEF Poll
  <2>2. {EventOf(c) : c \in S} \in SUBSET Event
    BY <2>1, EventOfType DEF TypeOK
  <2>4. batch' \in [Workers -> SUBSET Event]
    BY <2>1, <2>2 DEF TypeOK
  <2>3. interest' = interest /\ ready' \subseteq Conn /\ late' \subseteq ready'
    BY <2>1 DEF EpollWait, TypeOK
  <2> QED BY <1>1, <2>3, <2>4 DEF Poll, At, objectVars, peerVars, TypeOK
<1>2. CASE HandleEvent(w)
  <2>1. PICK e \in batch[w], handlerCloses \in HandlerCloses :
          /\ batch' = [batch EXCEPT ![w] = @ \ {e}]
          /\ \/ Crash /\ UNCHANGED <<unread, objectVars>>
             \/ \E happens \in BOOLEAN :
                /\ unread' \subseteq unread
                /\ lastActive' = [lastActive EXCEPT ![e.conn] = now]
                /\ OnDisconnection(e.conn, happens)
                /\ RemoveConnections(w, Dropped(e, closed'))
    BY <1>2, Zenon DEF HandleEvent
  <2>2. e.conn \in Conn
    BY <2>1 DEF TypeOK, Event
  <2>3. /\ closed' \subseteq Conn /\ disconnects' \in [Conn -> Nat]
        /\ unread' \subseteq Conn /\ lastActive' \in [Conn -> 0..MaxTime]
    <3>1. CASE Crash /\ UNCHANGED <<unread, objectVars>>
      BY <3>1 DEF objectVars, TypeOK
    <3>2. ASSUME NEW happens \in BOOLEAN, unread' \subseteq unread,
                 lastActive' = [lastActive EXCEPT ![e.conn] = now],
                 OnDisconnection(e.conn, happens)
          PROVE  /\ closed' \subseteq Conn /\ disconnects' \in [Conn -> Nat]
                 /\ unread' \subseteq Conn /\ lastActive' \in [Conn -> 0..MaxTime]
      BY <3>2, <2>2, OnDisconnectionTypeOK DEF TypeOK
    <3> QED BY <2>1, <3>1, <3>2
  <2>4. DroppingTypeOK'
    BY <2>1, RemoveTypeOK, CrashTypeOK
  <2>5. batch' \in [Workers -> SUBSET Event]
    BY <2>1 DEF TypeOK
  <2> QED BY <1>2, <2>3, <2>4, <2>5 DEF HandleEvent, At, DroppingTypeOK, TypeOK
<1>3. CASE SwapIncoming(w)
  BY <1>3 DEF SwapIncoming, At, objectVars, kernelVars, peerVars, epollVars, TypeOK
<1>4. CASE RegisterOne(w)
  <2>1. Head(temp[w]) \in Conn /\ Tail(temp[w]) \in Seq(Conn)
    BY <1>4 DEF RegisterOne, TypeOK
  <2>2. closed' \subseteq Conn /\ disconnects' \in [Conn -> Nat] /\ DroppingTypeOK'
    <3>1. CASE Crash /\ UNCHANGED <<closed, disconnects>>
      BY <3>1, CrashTypeOK DEF TypeOK
    <3>2. ASSUME NEW happens, OnDisconnection(Head(temp[w]), happens),
                 EpollAdd(w, Head(temp[w])),
                 pool' = [pool EXCEPT ![w] = @ \cup {Head(temp[w])}],
                 UNCHANGED <<gone, process>>
          PROVE  closed' \subseteq Conn /\ disconnects' \in [Conn -> Nat] /\ DroppingTypeOK'
      <4>1. DroppingTypeOK'
        BY <3>2, <2>1 DEF EpollAdd, TypeOK, DroppingTypeOK
      <4> QED BY <3>2, <4>1, <2>1, OnDisconnectionTypeOK
    <3> QED BY <1>4, <3>1, <3>2 DEF RegisterOne
  <2>3. temp' \in [Workers -> Seq(Conn)]
    <3>1. temp' = temp \/ temp' = [temp EXCEPT ![w] = Tail(@)]
      BY <1>4 DEF RegisterOne
    <3> QED BY <3>1, <2>1 DEF TypeOK
  <2> QED BY <1>4, <2>2, <2>3 DEF RegisterOne, At, DroppingTypeOK, peerVars, TypeOK
<1>5. CASE ManageInactive(w)
  <2>1. Drops(w)
    BY <1>5, ManageInactiveDrops
  <2> QED BY <1>5, <2>1, DropsTypeOK
          DEF ManageInactive, At, DroppingTypeOK, objectVars, peerVars, TypeOK
<1>6. CASE CheckLimits(w)
  <2>1. Drops(w)
    BY <1>6, CheckLimitsDrops
  <2> QED BY <1>6, <2>1, DropsTypeOK
          DEF CheckLimits, At, DroppingTypeOK, objectVars, peerVars, TypeOK
<1> QED BY <1>1, <1>2, <1>3, <1>4, <1>5, <1>6 DEF WorkerStep

LEMMA StutterTypeOK == TypeOK /\ UNCHANGED vars => TypeOK'
BY DEF TypeOK, vars, kernelVars, peerVars, epollVars, acceptorVars, workerVars, objectVars

\* Every variable of the server keeps its type, for any number of workers and
\* connections, any limits, rules and callbacks.
THEOREM TypeCorrect == Spec => []TypeOK
<1>1. TypeOK /\ [Next]_vars => TypeOK'
  BY AcceptorTypeOK, EnvironmentTypeOK, WorkerTypeOK, StutterTypeOK DEF Next
<1> QED BY InitTypeOK, <1>1, PTL DEF Spec
=============================================================================
