------------------------------- MODULE Master -------------------------------
(***************************************************************************)
(* The master thread from the constructor of TcpServer on: it loads the    *)
(* configuration, starts the workers, and gives each new connection to one *)
(* of them by the configured rule, with buffers of the configured sizes.   *)
(* Members that the file does not set are read as their memory is found.   *)
(***************************************************************************)
EXTENDS Configuration, LoadBalance

CONSTANT Garbage    \* what an uninitialised int may hold

ASSUME MasterAssumption == Garbage # {} /\ Garbage \subseteq Int

VARIABLES
  mpc,          \* "load", "start", or "accept" once the acceptor runs
  maxEvents,    \* setMaxConnection of the workers: epoll_wait's array
  id,           \* newConnection's counter: connections built so far
  process       \* "running", "crashed" by an exception, "aborted" by an assertion

masterVars == <<mpc, maxEvents, id, process>>
vars == <<configVars, balanceVars, masterVars>>

\* What a member is when it is read.
Held(key) == IF config[key] = NotSet THEN Garbage ELSE {config[key]}

Init ==
  /\ ConfigurationInit
  /\ BalanceInit
  /\ mpc = "load"
  /\ maxEvents = 0
  /\ id = 0
  /\ process = "running"

-----------------------------------------------------------------------------
Load ==
  /\ mpc = "load"
  /\ LoadConfig
  /\ mpc' = IF loading' THEN "load" ELSE "start"
  /\ UNCHANGED <<balanceVars, maxEvents, id, process>>

\* std::min(_max_tcp_per_worker, _max_tcp / n)
PerWorker(perWorker, total) ==
  IF Quotient(total, PoolSize) < perWorker THEN Quotient(total, PoolSize) ELSE perWorker

\* Mutant: only a negative number is corrected.
AtLeastZero(n) == IF n < 0 THEN 1 ELSE n

AtLeastOne(n) == IF n <= 0 THEN 1 ELSE n

Start ==
  /\ mpc = "start"
  /\ \E perWorker \in Held("max-tcp-per-worker"), total \in Held("max-tcp") :
       maxEvents' = AtLeastOne(PerWorker(perWorker, total))
  /\ mpc' = "accept"
  /\ UNCHANGED <<configVars, balanceVars, id, process>>

-----------------------------------------------------------------------------
\* The constructor of Buffer asserts that the initial size is within the maximum,
\* and new throws for a negative one.
BufferOutcome(init, max) ==
  CASE init > max -> "aborted"
    [] init < 0   -> "crashed"
    [] OTHER      -> "running"

\* Building the connection, its read buffer first.
ConnectionOutcome ==
  \E readInit \in Held("tcp-read-buffer-init-size-bytes"),
     readMax \in Held("tcp-read-buffer-max-size-bytes"),
     writeInit \in Held("tcp-write-buffer-init-size-bytes"),
     writeMax \in Held("tcp-write-buffer-max-size-bytes") :
    process' = IF BufferOutcome(readInit, readMax) # "running"
               THEN BufferOutcome(readInit, readMax)
               ELSE BufferOutcome(writeInit, writeMax)

\* The rule has returned worker w; the connection is built, and queued with it
\* unless that has ended the process.
Dispatch(w) ==
  /\ id' = id + 1
  /\ ConnectionOutcome
  /\ IF process' = "running"
     THEN RegisterNewConnection(w)
     ELSE UNCHANGED <<queued, pooled, busy, assigned>>
  /\ UNCHANGED <<configVars, mpc, maxEvents>>

\* newConnection.  An empty std::function throws when it is called.
NewConnection(ip) ==
  /\ mpc = "accept" /\ ~scan.on
  /\ id < MaxArrivals
  /\ LET rule == config["load-balance"] IN
     \/ /\ \E w \in Pool :
             /\ \/ rule = "round-robin" /\ LoadBalanceRoundRobin(w)
                \/ rule = "random" /\ LoadBalanceRandom(w)
                \/ rule = "ip-hash" /\ LoadBalanceIPHash(ip, w)
             /\ Dispatch(w)
     \/ /\ rule = "min-connection"
        /\ StartScan
        /\ UNCHANGED <<configVars, masterVars>>
     \/ /\ rule = NotSet
        /\ process' = "crashed"
        /\ UNCHANGED <<configVars, balanceVars, mpc, maxEvents, id>>

ContinueScan ==
  \/ (Compare \/ ReadAgain) /\ UNCHANGED <<configVars, masterVars>>
  \/ \E w \in Pool : EndScan(w) /\ Dispatch(w)

WorkersStep ==
  /\ mpc = "accept"
  /\ WorkersTouchPools
  /\ UNCHANGED <<configVars, masterVars>>

Next ==
  /\ process = "running"
  /\ \/ Load
     \/ Start
     \/ \E ip \in IPs : NewConnection(ip)
     \/ ContinueScan
     \/ WorkersStep

Spec == Init /\ [][Next]_vars

-----------------------------------------------------------------------------
(* Properties. *)

\* The type of every variable.  Once started, the workers' array of events has room
\* ("for epoll, maxevents must be greater than 0", tcpServer.cpp:148), whatever the
\* file leaves out.
TypeOK ==
  /\ file \in Files /\ lineNo \in 1..Len(file) + 1 /\ loading \in BOOLEAN
  /\ DOMAIN config = Keys
  /\ BalanceTypeOK
  /\ mpc \in {"load", "start", "accept"}
  /\ loading <=> mpc = "load"
  /\ mpc = "accept" <=> maxEvents \in Nat \ {0}
  /\ id \in Nat
  /\ process \in {"running", "crashed", "aborted"}

\* The rule round-robin: the shares of two workers differ by one connection at most,
\* plus one for each time the counter has run through half of its values, because the
\* order of the workers breaks where it turns negative and where it comes back to 0;
\* with a power of two of workers that can be an int, neither is noticed.
RoundRobinIsEven ==
  mpc = "accept" /\ config["load-balance"] = "round-robin" =>
    \A w, v \in Pool :
      assigned[w] - assigned[v] <=
        1 + (IF (2 * IntHalf) % PoolSize = 0 THEN 0 ELSE id \div IntHalf)

\* The sizes of one buffer, as the file says them.
SizesAreSound(init, max) ==
  /\ IsWritten(init) /\ IsWritten(max)
  /\ Written(init) >= 0 /\ Written(init) <= Written(max)

\* A file that sets a load-balance rule and the sizes of both buffers, with no line
\* before that ends the reading, gives a server that does not die at a connection.
SoundFileServes ==
  /\ IsWritten("load-balance")
  /\ SizesAreSound("tcp-read-buffer-init-size-bytes", "tcp-read-buffer-max-size-bytes")
  /\ SizesAreSound("tcp-write-buffer-init-size-bytes", "tcp-write-buffer-max-size-bytes")
  => process = "running"
=============================================================================
