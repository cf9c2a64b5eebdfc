---------------------------- MODULE LoadBalance ----------------------------
(***************************************************************************)
(* The four rules by which TcpServer picks a worker for a new connection,  *)
(* and the pools they look at, which the workers change meanwhile.  The    *)
(* rule min-connection reads the sizes of the pools one after the other,   *)
(* without a lock, and reads a smaller one a second time.                  *)
(***************************************************************************)
EXTENDS Integers, FiniteSets

CONSTANTS
  PoolSize,     \* workers in _threadPool
  IntHalf,      \* an int is in -IntHalf..IntHalf - 1; a size_t is twice as wide
  IPs,          \* addresses of peers, as uint32_t
  MaxArrivals   \* bound: how many peers connect

ASSUME LoadBalanceAssumption ==
  /\ PoolSize \in Nat \ {0} /\ IntHalf \in Nat \ {0}
  /\ IPs \subseteq Nat /\ MaxArrivals \in Nat

VARIABLES
  queued,       \* connections in each worker's _incomingConnection
  pooled,       \* connections in each worker's _connectionPool
  busy,         \* workers in the middle of an operation on their pool
  turn,         \* index of loadBalanceRoundRobin
  scan,         \* the loop of loadBalanceMinConnection, or idle
  assigned      \* history: connections given to each worker

balanceVars == <<queued, pooled, busy, turn, scan, assigned>>

Pool == 0..PoolSize - 1

\* next: the worker looked at; again: its size is read a second time; quiet: history,
\* no pool has been touched during the scan.
Idle == [on |-> FALSE, next |-> 0, index |-> 0, connections |-> 0,
         again |-> FALSE, quiet |-> TRUE]

BalanceInit ==
  /\ queued = [w \in Pool |-> 0] /\ pooled = [w \in Pool |-> 0]
  /\ busy = {}
  /\ turn = 0
  /\ scan = Idle
  /\ assigned = [w \in Pool |-> 0]

-----------------------------------------------------------------------------
(* The workers.  Every lookup in a pool may move entries from one of its tables  *)
(* to the other, so that size(), the sum of their counters, is any number while  *)
(* an operation is under way.                                                    *)

GetConnectionNum(w) == IF w \in busy THEN 0..2 * pooled[w] + 1 ELSE {pooled[w]}

TouchPool(w) ==
  /\ w \notin busy
  /\ busy' = busy \cup {w}
  /\ scan' = [scan EXCEPT !.quiet = ~scan.on]
  /\ UNCHANGED <<queued, pooled, turn, assigned>>

\* The operation was a lookup, an insertion from the queue, or an erasure.
LeavePool(w) ==
  /\ w \in busy
  /\ busy' = busy \ {w}
  /\ \/ UNCHANGED <<queued, pooled>>
     \/ /\ queued[w] > 0
        /\ queued' = [queued EXCEPT ![w] = @ - 1]
        /\ pooled' = [pooled EXCEPT ![w] = @ + 1]
     \/ /\ pooled[w] > 0
        /\ pooled' = [pooled EXCEPT ![w] = @ - 1]
        /\ UNCHANGED queued
  /\ UNCHANGED <<turn, scan, assigned>>

WorkersTouchPools == \E w \in Pool : TouchPool(w) \/ LeavePool(w)

-----------------------------------------------------------------------------
(* The rules.  Each returns a worker w and leaves the queues to the caller. *)

\* registerNewConnection
RegisterNewConnection(w) ==
  /\ queued' = [queued EXCEPT ![w] = @ + 1]
  /\ assigned' = [assigned EXCEPT ![w] = @ + 1]
  /\ UNCHANGED <<pooled, busy>>

\* Mutant: the last worker gets no turn.
TurnsButLast(n) == (n % (4 * IntHalf * IntHalf)) % (IF PoolSize > 1 THEN PoolSize - 1 ELSE 1)

\* index % _threadPool.size(): the int is converted to size_t
TurnOf(n) == (n % (4 * IntHalf * IntHalf)) % PoolSize

LoadBalanceRoundRobin(w) ==
  /\ w = TurnOf(turn)
  /\ turn' = IF turn = IntHalf - 1 THEN -IntHalf ELSE turn + 1
  /\ UNCHANGED scan

LoadBalanceRandom(w) ==
  /\ w \in Pool
  /\ UNCHANGED <<turn, scan>>

\* std::hash of an integer is the integer.
LoadBalanceIPHash(ip, w) ==
  /\ w = ip % PoolSize
  /\ UNCHANGED <<turn, scan>>

\* loadBalanceMinConnection begins with the first worker's size.
StartScan ==
  /\ ~scan.on
  /\ \E n \in GetConnectionNum(0) :
       scan' = [on |-> TRUE, next |-> 1, index |-> 0, connections |-> n,
                again |-> FALSE, quiet |-> busy = {}]
  /\ UNCHANGED <<queued, pooled, busy, turn, assigned>>

Compare ==
  /\ scan.on /\ ~scan.again /\ scan.next < PoolSize
  /\ \E n \in GetConnectionNum(scan.next) :
       scan' = IF n < scan.connections
               THEN [scan EXCEPT !.index = scan.next, !.again = TRUE]
               ELSE [scan EXCEPT !.next = @ + 1]
  /\ UNCHANGED <<queued, pooled, busy, turn, assigned>>

\* Mutant: the smaller size is not kept.
SkipReadAgain ==
  /\ scan.on /\ scan.again
  /\ scan' = [scan EXCEPT !.again = FALSE, !.next = @ + 1]
  /\ UNCHANGED <<queued, pooled, busy, turn, assigned>>

ReadAgain ==
  /\ scan.on /\ scan.again
  /\ \E n \in GetConnectionNum(scan.next) :
       scan' = [scan EXCEPT !.connections = n, !.again = FALSE, !.next = @ + 1]
  /\ UNCHANGED <<queued, pooled, busy, turn, assigned>>

EndScan(w) ==
  /\ scan.on /\ ~scan.again /\ scan.next >= PoolSize
  /\ w = scan.index
  /\ scan' = Idle
  /\ UNCHANGED turn

-----------------------------------------------------------------------------
(* Properties. *)

BalanceTypeOK ==
  /\ queued \in [Pool -> Nat] /\ pooled \in [Pool -> Nat] /\ assigned \in [Pool -> Nat]
  /\ busy \subseteq Pool
  /\ turn \in -IntHalf..IntHalf - 1
  /\ scan.on \in BOOLEAN /\ scan.again \in BOOLEAN /\ scan.quiet \in BOOLEAN
  /\ scan.next \in 0..PoolSize /\ scan.index \in Pool /\ scan.connections \in Nat

\* The rule min-connection: when no pool was touched while the sizes were read, the
\* worker that gets the connection has the fewest in its pool.  What is still in
\* the queues does not count (Worker::getConnectionNum).
LeastLoadedIsChosen ==
  [][scan.on /\ ~scan'.on /\ scan.quiet =>
       \A w, v \in Pool : assigned'[w] > assigned[w] => pooled[w] <= pooled[v]]_balanceVars
=============================================================================
