------------------------------- MODULE Worker -------------------------------
(***************************************************************************)
(* The worker threads (Worker::workFunction).  One iteration of a worker's *)
(* loop is: fetch a batch of epoll events, handle each, take over what the *)
(* master queued, close idle connections, evict when over the limits.      *)
(*                                                                         *)
(* A connection object, the pool and the epoll instance belong to one      *)
(* worker; the incoming queue (under the mutex), the peers and the memory  *)
(* flag are shared, so the steps below are cut where those are touched.    *)
(***************************************************************************)
EXTENDS Kernel, Sequences, Functions

CONSTANTS
  MaxPerWorker,      \* max-tcp-per-worker
  MaxEvents,         \* _maxConnection, the size of the epoll_wait batch
  EvictionRule,      \* max-tcp-eviction-rule
  InactiveRule,      \* inactive-tcp-eviction-rule
  EvictionPoolSize,  \* eviction-pool-size
  InactiveTimeout,   \* inactive-tcp-timeout, in seconds
  Callbacks,         \* which of the three user callbacks have been set
  HandlerMayClose    \* TRUE: a user callback may call conn->onDisconnection()

ASSUME WorkerAssumption ==
  /\ MaxPerWorker \in Nat
  /\ MaxEvents \in Nat \ {0}
  /\ EvictionRule \in {"none", "random", "inactive"}
  /\ InactiveRule \in {"none", "close"}
  /\ EvictionPoolSize \in Nat
  /\ InactiveTimeout \in Nat
  /\ Callbacks \subseteq {"connection", "message", "disconnection"}
  /\ HandlerMayClose \in BOOLEAN

VARIABLES
  incoming,     \* _incomingConnection, filled by the master under _mutex
  temp,         \* the local queue the worker swapped it into
  pool,         \* _connectionPool, as the set of its keys
  batch,        \* the fetched events not yet handled
  wpc,          \* where the worker is in its loop
  closed,       \* connections whose _close is set
  lastActive,   \* _lastActiveTime
  exceedMem,    \* _master->_exceedMaxMemory
  disconnects,  \* history: calls of the disconnection callback
  gone          \* history: connections removed from their pool

objectVars == <<closed, lastActive, disconnects>>
workerVars == <<incoming, temp, pool, batch, wpc, objectVars, exceedMem, gone>>

WorkerInit ==
  /\ incoming = [w \in Workers |-> <<>>]
  /\ temp = [w \in Workers |-> <<>>]
  /\ pool = [w \in Workers |-> {}]
  /\ batch = [w \in Workers |-> {}]
  /\ wpc = [w \in Workers |-> "poll"]
  /\ closed = {}
  /\ lastActive = [c \in Conn |-> 0]
  /\ exceedMem = FALSE
  /\ disconnects = [c \in Conn |-> 0]
  /\ gone = {}

At(w, here, next) ==
  /\ wpc[w] = here
  /\ wpc' = [wpc EXCEPT ![w] = next]

\* A null TcpConnectionPtr or a null hash table entry is dereferenced, or an
\* empty std::function called: the exception leaves the thread's function.
Crash ==
  /\ process' = "crashed"
  /\ UNCHANGED <<pool, gone, epollVars>>

\* Mutant: removeConnection without EPOLL_CTL_DEL.
EraseConnections(w, S) ==
  /\ pool' = [pool EXCEPT ![w] = @ \ S]
  /\ gone' = gone \cup (S \cap pool[w])
  /\ UNCHANGED <<epollVars, process>>

\* removeConnection, for each connection in S.  Nothing closes the descriptor.
RemoveConnections(w, S) ==
  /\ EpollDel(w, S)
  /\ pool' = [pool EXCEPT ![w] = @ \ S]
  /\ gone' = gone \cup (S \cap pool[w])
  /\ UNCHANGED process

\* onDisconnection: run the callback, then set _close.
OnDisconnection(c, happens) ==
  /\ disconnects' = IF happens THEN [disconnects EXCEPT ![c] = @ + 1] ELSE disconnects
  /\ closed' = IF happens THEN closed \cup {c} ELSE closed

\* Whether the user callback that is being run closes its connection.
HandlerCloses == IF HandlerMayClose THEN BOOLEAN ELSE {FALSE}

-----------------------------------------------------------------------------
(* Called by the master thread. *)

\* Mutant: the newest connection is served first.
RegisterAtFront(w, c) ==
  /\ incoming' = [incoming EXCEPT ![w] = <<c>> \o @]
  /\ lastActive' = [lastActive EXCEPT ![c] = now]
  /\ UNCHANGED <<temp, pool, batch, wpc, closed, exceedMem, disconnects, gone>>

\* registerNewConnection(conn): push under the mutex.  The connection was just
\* constructed, which stamps it with the current time.
RegisterNewConnection(w, c) ==
  /\ incoming' = [incoming EXCEPT ![w] = Append(@, c)]
  /\ lastActive' = [lastActive EXCEPT ![c] = now]
  /\ UNCHANGED <<temp, pool, batch, wpc, closed, exceedMem, disconnects, gone>>

-----------------------------------------------------------------------------
(* The worker's loop. *)

\* epoll_wait with timeout 0: as many ready connections as fit in the batch.
Poll(w) ==
  /\ At(w, "poll", "event")
  /\ \E S \in SUBSET interest[w] :
       /\ EpollWait(w, MaxEvents, S)
       /\ batch' = [batch EXCEPT ![w] = {EventOf(c) : c \in S}]
  /\ UNCHANGED <<incoming, temp, pool, objectVars, exceedMem, gone,
                 opened, listenReady, peerVars, now, process>>

\* Mutant: every event is taken for EPOLLIN.
ReadableAlways(e) == TRUE

\* events & EPOLLIN
Readable(e) == e.in

\* Mutant: EPOLLERR and EPOLLHUP are not looked at.
DroppedWhenClosed(e, shut) == {c \in {e.conn} : c \in shut}

\* Mutant: close() is not looked at.
DroppedOnError(e, shut) == {c \in {e.conn} : e.err}

\* The connection is removed after EPOLLERR or EPOLLHUP, and once it is closed.
Dropped(e, shut) == {c \in {e.conn} : e.err \/ c \in shut}

\* One round of the loop over the events.  onReadableEvent reads until the
\* socket is dry: bytes go to onMessage, even when the end of file came with
\* them; only a read that returns no byte at all is a disconnection.
HandleEvent(w) ==
  \E e \in batch[w], handlerCloses \in HandlerCloses :
    LET c       == e.conn
        message == Readable(e) /\ c \in unread
        eof     == Readable(e) /\ c \notin unread
    IN
    /\ At(w, "event", "event")
    /\ batch' = [batch EXCEPT ![w] = @ \ {e}]
    /\ IF \/ c \notin pool[w]   \* _connectionPool[connId] is a null pointer
          \/ message /\ "message" \notin Callbacks
          \/ eof /\ "disconnection" \notin Callbacks
       THEN Crash /\ UNCHANGED <<unread, objectVars>>
       ELSE /\ unread' = IF Readable(e) THEN unread \ {c} ELSE unread
            /\ lastActive' = [lastActive EXCEPT ![c] = now]
            /\ OnDisconnection(c, eof \/ (message /\ handlerCloses))
            /\ RemoveConnections(w, Dropped(e, closed'))
    /\ UNCHANGED <<incoming, temp, exceedMem, opened, listenReady, fin, rst, now>>

\* Mutant: the queue is copied instead of swapped.
CopyIncoming(w) ==
  /\ batch[w] = {}
  /\ At(w, "event", "register")
  /\ temp' = [temp EXCEPT ![w] = incoming[w]]
  /\ UNCHANGED <<incoming, pool, batch, objectVars, exceedMem, gone, kernelVars>>

\* Mutant: a worker takes over connections only once it has none left.
SwapWhenIdle(w) ==
  /\ batch[w] = {}
  /\ At(w, "event", "register")
  /\ IF pool[w] = {}
     THEN /\ temp' = [temp EXCEPT ![w] = incoming[w]]
          /\ incoming' = [incoming EXCEPT ![w] = <<>>]
     ELSE UNCHANGED <<temp, incoming>>
  /\ UNCHANGED <<pool, batch, objectVars, exceedMem, gone, kernelVars>>

\* registerNewConnection(), first half: swap the queue out under the mutex.
SwapIncoming(w) ==
  /\ batch[w] = {}
  /\ At(w, "event", "register")
  /\ temp' = [temp EXCEPT ![w] = incoming[w]]
  /\ incoming' = [incoming EXCEPT ![w] = <<>>]
  /\ UNCHANGED <<pool, batch, objectVars, exceedMem, gone, kernelVars>>

\* Mutant: no EPOLL_CTL_ADD.
RegisterUnwatched(w) ==
  LET c == Head(temp[w]) IN
  /\ temp[w] # <<>>
  /\ At(w, "register", "register")
  /\ temp' = [temp EXCEPT ![w] = Tail(@)]
  /\ pool' = [pool EXCEPT ![w] = @ \cup {c}]
  /\ UNCHANGED <<incoming, batch, objectVars, exceedMem, gone, kernelVars>>

\* registerNewConnection(), second half: the callback, EPOLL_CTL_ADD, the pool.
RegisterOne(w) ==
  LET c == Head(temp[w]) IN
  /\ temp[w] # <<>>
  /\ At(w, "register", "register")
  /\ IF "connection" \notin Callbacks
     THEN Crash /\ UNCHANGED <<temp, closed, disconnects>>
     ELSE /\ temp' = [temp EXCEPT ![w] = Tail(@)]
          /\ \E handlerCloses \in HandlerCloses : OnDisconnection(c, handlerCloses)
          /\ EpollAdd(w, c)
          /\ pool' = [pool EXCEPT ![w] = @ \cup {c}]
          /\ UNCHANGED <<gone, process>>
  /\ UNCHANGED <<incoming, batch, lastActive, exceedMem,
                 opened, listenReady, peerVars, now>>

Idle(c) == now - lastActive[c]

\* Mutant: the timeout is reached instead of passed.
ExpiredOnTime(c, force) == force \/ Idle(c) >= InactiveTimeout

\* Idle for a second at least, and past the timeout unless eviction is forced.
Expired(c, force) == lastActive[c] < now /\ (force \/ Idle(c) > InactiveTimeout)

\* evictRandomN: draw n times; drop the closed connections drawn, and the one
\* drawn (closed or not) that has been idle longest if it is forced or past the
\* timeout.
EvictRandomN(w, n, force) ==
  IF n = 0 \/ pool[w] = {}
  THEN RemoveConnections(w, {})
  ELSE \E drawn \in SUBSET pool[w] \ {{}} :
    LET shut     == drawn \cap closed
        emptied  == drawn = pool[w] /\ shut = drawn
        oldest   == {c \in drawn : \A d \in drawn : lastActive[c] <= lastActive[d]}
        eligible == {c \in oldest : Expired(c, force)}
    IN
    /\ Cardinality(drawn) <= n
    \* a closed connection leaves the pool and cannot be drawn again
    /\ shut = drawn => emptied \/ Cardinality(drawn) = n
    /\ IF eligible = {} \/ (emptied /\ Cardinality(drawn) < n)
       THEN RemoveConnections(w, shut)
       ELSE \E victim \in eligible :
              IF victim \in shut   \* already removed: _connectionPool[id] is null
              THEN Crash
              ELSE RemoveConnections(w, shut \cup {victim})

\* manageInactiveConnection
ManageInactive(w) ==
  /\ temp[w] = <<>>
  /\ At(w, "register", "evict")
  /\ IF InactiveRule = "none"
     THEN RemoveConnections(w, {})
     ELSE EvictRandomN(w, EvictionPoolSize, FALSE)
  /\ UNCHANGED <<incoming, temp, batch, objectVars, exceedMem,
                 opened, listenReady, peerVars, now>>

\* Mutant: only the memory limit is looked at.
OverMemory(w) == exceedMem

OverLimit(w) == Cardinality(pool[w]) > MaxPerWorker \/ exceedMem

\* std::min(_connectionPool.size(), _master->getEvictionPoolSize())
ForcedDraws(w) ==
  LET size == Cardinality(pool[w])
  IN  IF size < EvictionPoolSize THEN size ELSE EvictionPoolSize

\* eviction: getRandomValue of an empty pool dereferences a null entry.
Eviction(w) ==
  CASE EvictionRule = "none"     -> RemoveConnections(w, {})
    [] EvictionRule = "random"   -> IF pool[w] = {} THEN Crash
                                    ELSE \E c \in pool[w] : RemoveConnections(w, {c})
    [] EvictionRule = "inactive" -> EvictRandomN(w, ForcedDraws(w), TRUE)

CheckLimits(w) ==
  /\ At(w, "evict", "poll")
  /\ IF OverLimit(w) THEN Eviction(w) ELSE RemoveConnections(w, {})
  /\ UNCHANGED <<incoming, temp, batch, objectVars, exceedMem,
                 opened, listenReady, peerVars, now>>

WorkerStep(w) ==
  \/ Poll(w)
  \/ HandleEvent(w)
  \/ SwapIncoming(w)
  \/ RegisterOne(w)
  \/ ManageInactive(w)
  \/ CheckLimits(w)
=============================================================================
