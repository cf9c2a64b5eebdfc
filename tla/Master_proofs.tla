--------------------------- MODULE Master_proofs ---------------------------
(***************************************************************************)
(* Proofs about the master thread, for any configuration files, any number *)
(* of workers and any width of int: min-connection finds a least loaded    *)
(* worker when no worker touches its pool meanwhile; loadConfig leaves in  *)
(* each member what the file means; a sound file gives a server that does  *)
(* not die at a connection; and round-robin shares evenly, whatever its    *)
(* counter does when it overflows.                                         *)
(***************************************************************************)
EXTENDS Master, TLAPS, SequenceTheorems

-----------------------------------------------------------------------------
(* The rule min-connection. *)

ScanType ==
  [on : BOOLEAN, next : Nat, index : Pool, connections : Nat,
   again : BOOLEAN, quiet : BOOLEAN]

\* The worker w has no more connections than any of those before worker n.
LeastBefore(w, n) == \A v \in Pool : v < n => pooled[w] <= pooled[v]

\* A scan that nobody has disturbed so far has found the least of what it has seen,
\* and when it is about to read a size again, that one is smaller still.
QuietScan ==
  scan.on /\ scan.quiet =>
    /\ busy = {}
    /\ LeastBefore(scan.index, scan.next)
    /\ scan.again  => scan.index = scan.next
    /\ ~scan.again => scan.connections = pooled[scan.index]

ScanInv ==
  /\ pooled \in [Pool -> Nat] /\ assigned \in [Pool -> Nat]
  /\ scan \in ScanType
  /\ scan.again => scan.next \in Pool
  /\ QuietScan

-----------------------------------------------------------------------------
LEMMA FirstWorker == 0 \in Pool
BY LoadBalanceAssumption DEF Pool

\* The size that is read while nobody works on the pools is the right one.
LEMMA QuietSize ==
  ASSUME busy = {}, NEW w \in Pool, NEW n \in GetConnectionNum(w)
  PROVE  n = pooled[w]
BY DEF GetConnectionNum

\* Any size is a number.
LEMMA SizeIsNat ==
  ASSUME ScanInv, NEW w \in Pool, NEW n \in GetConnectionNum(w)
  PROVE  n \in Nat
<1>1. pooled[w] \in Nat
  BY DEF ScanInv
<1>2. n \in 0..2 * pooled[w] + 1 \/ n = pooled[w]
  BY DEF GetConnectionNum
<1> QED BY <1>1, <1>2

LEMMA InitScan == Init => ScanInv
<1> SUFFICES ASSUME Init PROVE ScanInv
  OBVIOUS
<1>1. /\ pooled = [w \in Pool |-> 0] /\ assigned = [w \in Pool |-> 0]
      /\ scan = Idle
  BY DEF Init, BalanceInit
<1>2. scan \in ScanType /\ ~scan.on /\ ~scan.again
  BY <1>1, FirstWorker DEF Idle, ScanType
<1> QED BY <1>1, <1>2 DEF ScanInv, QuietScan

-----------------------------------------------------------------------------
(* One lemma per action on the pools and on the scan. *)

LEMMA TouchPoolScan ==
  ASSUME ScanInv, NEW w \in Pool, TouchPool(w)
  PROVE  ScanInv'
<1>1. /\ scan' = [scan EXCEPT !.quiet = ~scan.on]
      /\ pooled' = pooled /\ assigned' = assigned
  BY DEF TouchPool
<1>2. /\ scan' \in ScanType /\ scan'.again = scan.again /\ scan'.next = scan.next
      /\ ~(scan'.on /\ scan'.quiet)
  BY <1>1 DEF ScanInv, ScanType
<1> QED BY <1>1, <1>2 DEF ScanInv, QuietScan

LEMMA LeavePoolScan ==
  ASSUME ScanInv, NEW w \in Pool, LeavePool(w)
  PROVE  ScanInv'
<1>1. scan' = scan /\ assigned' = assigned /\ busy # {}
  BY DEF LeavePool
<1>2. pooled' \in [Pool -> Nat]
  <2>1. pooled[w] \in Nat
    BY DEF ScanInv
  <2>2. CASE pooled' = pooled
    BY <2>2 DEF ScanInv
  <2>3. CASE pooled' = [pooled EXCEPT ![w] = @ + 1]
    BY <2>1, <2>3 DEF ScanInv
  <2>4. CASE pooled[w] > 0 /\ pooled' = [pooled EXCEPT ![w] = @ - 1]
    BY <2>1, <2>4 DEF ScanInv
  <2> QED BY <2>2, <2>3, <2>4 DEF LeavePool
<1>3. ~(scan.on /\ scan.quiet)
  BY <1>1 DEF ScanInv, QuietScan
<1> QED BY <1>1, <1>2, <1>3 DEF ScanInv, QuietScan

LEMMA StartScanScan ==
  ASSUME ScanInv, StartScan
  PROVE  ScanInv'
<1>1. PICK n \in GetConnectionNum(0) :
        scan' = [on |-> TRUE, next |-> 1, index |-> 0, connections |-> n,
                 again |-> FALSE, quiet |-> busy = {}]
  BY DEF StartScan
<1>2. pooled' = pooled /\ assigned' = assigned /\ busy' = busy
  BY DEF StartScan
<1>3. n \in Nat
  BY FirstWorker, SizeIsNat
<1>4. scan' \in ScanType
  BY <1>1, <1>3, FirstWorker DEF ScanType
<1>5. scan'.quiet => busy = {} /\ n = pooled[0]
  BY <1>1, FirstWorker, QuietSize
<1>6. LeastBefore(0, 1)
  <2>1. \A v \in Pool : v < 1 => v = 0
    BY LoadBalanceAssumption DEF Pool
  <2>2. pooled[0] \in Nat
    BY FirstWorker DEF ScanInv
  <2> QED BY <2>1, <2>2 DEF LeastBefore
<1>7. QuietScan'
  BY <1>1, <1>2, <1>5, <1>6 DEF QuietScan, LeastBefore
<1> QED BY <1>1, <1>2, <1>4, <1>7 DEF ScanInv

LEMMA CompareScan ==
  ASSUME ScanInv, Compare
  PROVE  ScanInv'
<1> DEFINE m == scan.next
<1>1. /\ m \in Pool /\ ~scan.again /\ scan.on /\ scan.index \in Pool
      /\ pooled' = pooled /\ assigned' = assigned /\ busy' = busy
      /\ m \in Nat /\ pooled[m] \in Nat
  <2>1. m \in Nat /\ scan.index \in Pool /\ m < PoolSize
    BY DEF Compare, ScanInv, ScanType
  <2>2. m \in Pool
    BY <2>1, LoadBalanceAssumption DEF Pool
  <2> QED BY <2>1, <2>2 DEF Compare, ScanInv
<1>2. PICK n \in GetConnectionNum(m) :
        scan' = IF n < scan.connections
                THEN [scan EXCEPT !.index = m, !.again = TRUE]
                ELSE [scan EXCEPT !.next = @ + 1]
  BY DEF Compare
<1>3. n \in Nat /\ scan.connections \in Nat
  BY <1>1, SizeIsNat DEF ScanInv, ScanType
<1>4. scan.quiet => /\ busy = {} /\ n = pooled[m]
                    /\ LeastBefore(scan.index, m) /\ scan.connections = pooled[scan.index]
  BY <1>1, QuietSize DEF ScanInv, QuietScan
<1>5. CASE n < scan.connections
  <2>1. scan' = [scan EXCEPT !.index = m, !.again = TRUE]
    BY <1>2, <1>5
  <2>2. /\ scan' \in ScanType /\ scan'.next = m /\ scan'.index = m /\ scan'.again
        /\ scan'.on = scan.on /\ scan'.quiet = scan.quiet
    BY <1>1, <2>1 DEF ScanInv, ScanType
  <2>3. scan.quiet => LeastBefore(m, m)
    <3> SUFFICES ASSUME scan.quiet, NEW v \in Pool, v < m
                 PROVE  pooled[m] <= pooled[v]
      BY DEF LeastBefore
    <3>1. pooled[scan.index] <= pooled[v] /\ pooled[m] < pooled[scan.index]
      BY <1>4, <1>5 DEF LeastBefore
    <3>2. pooled[v] \in Nat /\ pooled[scan.index] \in Nat
      BY <1>1 DEF ScanInv
    <3> QED BY <1>1, <3>1, <3>2
  <2>4. QuietScan'
    BY <1>1, <1>4, <2>2, <2>3 DEF QuietScan, LeastBefore
  <2> QED BY <1>1, <2>2, <2>4 DEF ScanInv
<1>6. CASE ~(n < scan.connections)
  <2>1. scan' = [scan EXCEPT !.next = @ + 1]
    BY <1>2, <1>6
  <2>2. /\ scan' \in ScanType /\ scan'.next = m + 1 /\ scan'.index = scan.index
        /\ ~scan'.again /\ scan'.connections = scan.connections
        /\ scan'.on = scan.on /\ scan'.quiet = scan.quiet
    <3>1. m + 1 \in Nat /\ scan \in ScanType
      BY <1>1 DEF ScanInv
    <3> QED BY <1>1, <2>1, <3>1 DEF ScanType
  <2>3. scan.quiet => LeastBefore(scan.index, m + 1)
    <3> SUFFICES ASSUME scan.quiet, NEW v \in Pool, v < m + 1
                 PROVE  pooled[scan.index] <= pooled[v]
      BY DEF LeastBefore
    <3>1. v < m \/ v = m
      BY <1>1, LoadBalanceAssumption DEF Pool
    <3>2. pooled[scan.index] <= pooled[m]
      BY <1>3, <1>4, <1>6
    <3> QED BY <1>4, <3>1, <3>2 DEF LeastBefore
  <2>4. QuietScan'
    BY <1>1, <1>4, <2>2, <2>3 DEF QuietScan, LeastBefore
  <2> QED BY <1>1, <2>2, <2>4 DEF ScanInv
<1> QED BY <1>5, <1>6

LEMMA ReadAgainScan ==
  ASSUME ScanInv, ReadAgain
  PROVE  ScanInv'
<1> DEFINE m == scan.next
<1>1. /\ m \in Pool /\ m \in Nat /\ scan.again /\ scan.on
      /\ pooled' = pooled /\ assigned' = assigned /\ busy' = busy
  BY DEF ReadAgain, ScanInv, ScanType
<1>2. PICK n \in GetConnectionNum(m) :
        scan' = [scan EXCEPT !.connections = n, !.again = FALSE, !.next = @ + 1]
  BY DEF ReadAgain
<1>3. n \in Nat
  BY <1>1, SizeIsNat
<1>4. /\ scan' \in ScanType /\ scan'.next = m + 1 /\ scan'.index = scan.index
      /\ ~scan'.again /\ scan'.connections = n
      /\ scan'.on = scan.on /\ scan'.quiet = scan.quiet
  <2>1. m + 1 \in Nat /\ scan \in ScanType
    BY <1>1 DEF ScanInv
  <2> QED BY <1>1, <1>2, <1>3, <2>1 DEF ScanType
<1>5. scan.quiet => /\ busy = {} /\ n = pooled[m]
                    /\ LeastBefore(scan.index, m) /\ scan.index = m
  BY <1>1, QuietSize DEF ScanInv, QuietScan
<1>6. scan.quiet => LeastBefore(scan.index, m + 1)
  <2> SUFFICES ASSUME scan.quiet, NEW v \in Pool, v < m + 1
               PROVE  pooled[m] <= pooled[v]
    BY <1>5 DEF LeastBefore
  <2>1. v < m \/ v = m
    BY <1>1, LoadBalanceAssumption DEF Pool
  <2>2. pooled[m] \in Nat
    BY <1>1 DEF ScanInv
  <2> QED BY <1>5, <2>1, <2>2 DEF LeastBefore
<1>7. QuietScan'
  BY <1>1, <1>4, <1>5, <1>6 DEF QuietScan, LeastBefore
<1> QED BY <1>1, <1>4, <1>7 DEF ScanInv

\* Giving a connection to a worker does not touch the pools, and only its worker's
\* share grows.
LEMMA DispatchShares ==
  ASSUME ScanInv, NEW w \in Pool, Dispatch(w)
  PROVE  /\ pooled' = pooled /\ busy' = busy /\ assigned' \in [Pool -> Nat]
         /\ \A v \in Pool : assigned'[v] > assigned[v] => v = w
<1>1. assigned \in [Pool -> Nat]
  BY DEF ScanInv
<1>2. CASE RegisterNewConnection(w)
  <2>1. /\ pooled' = pooled /\ busy' = busy
        /\ assigned' = [assigned EXCEPT ![w] = @ + 1]
    BY <1>2 DEF RegisterNewConnection
  <2> QED BY <1>1, <2>1
<1>3. CASE UNCHANGED <<queued, pooled, busy, assigned>>
  BY <1>1, <1>3
<1> QED BY <1>2, <1>3 DEF Dispatch

\* A rule that returns at once leaves the scan alone.
LEMMA DispatchScan ==
  ASSUME ScanInv, NEW w \in Pool, Dispatch(w), UNCHANGED scan
  PROVE  ScanInv'
BY DispatchShares DEF ScanInv, QuietScan, LeastBefore

LEMMA EndScanScan ==
  ASSUME ScanInv, NEW w \in Pool, EndScan(w), Dispatch(w)
  PROVE  ScanInv'
<1>1. scan' = Idle
  BY DEF EndScan
<1>2. scan' \in ScanType /\ ~scan'.on /\ ~scan'.again
  BY <1>1, FirstWorker DEF Idle, ScanType
<1> QED BY <1>2, DispatchShares DEF ScanInv, QuietScan

-----------------------------------------------------------------------------
\* Every step keeps the invariant, and all but the end of a scan leave the scan on.
LEMMA StepScan ==
  ASSUME ScanInv, [Next]_vars
  PROVE  /\ ScanInv'
         /\ scan.on /\ ~scan'.on => \E w \in Pool : EndScan(w) /\ Dispatch(w)
<1>1. CASE UNCHANGED balanceVars
  BY <1>1 DEF balanceVars, ScanInv, QuietScan, LeastBefore
<1>2. CASE WorkersStep
  <2>1. PICK w \in Pool : TouchPool(w) \/ LeavePool(w)
    BY <1>2 DEF WorkersStep, WorkersTouchPools
  <2>2. scan'.on = scan.on
    BY <2>1 DEF TouchPool, LeavePool, ScanInv, ScanType
  <2> QED BY <2>1, <2>2, TouchPoolScan, LeavePoolScan
<1>3. ASSUME NEW ip \in IPs, NewConnection(ip)
      PROVE  ScanInv' /\ ~scan.on
  <2>1. ~scan.on
    BY <1>3 DEF NewConnection
  <2>2. ASSUME NEW w \in Pool, Dispatch(w), UNCHANGED scan
        PROVE  ScanInv'
    BY <2>2, DispatchScan
  <2>3. CASE StartScan
    BY <2>1, <2>3, StartScanScan
  <2>4. CASE UNCHANGED balanceVars
    BY <2>1, <2>4 DEF balanceVars, ScanInv, QuietScan, LeastBefore
  <2>5. \/ \E w \in Pool : Dispatch(w) /\ UNCHANGED scan
        \/ StartScan
        \/ UNCHANGED balanceVars
    BY <1>3 DEF NewConnection, LoadBalanceRoundRobin, LoadBalanceRandom, LoadBalanceIPHash
  <2> QED BY <2>1, <2>2, <2>3, <2>4, <2>5
<1>4. CASE Compare
  <2>1. scan'.on = scan.on
    BY <1>4 DEF Compare, ScanInv, ScanType
  <2> QED BY <1>4, <2>1, CompareScan
<1>5. CASE ReadAgain
  <2>1. scan'.on = scan.on
    BY <1>5 DEF ReadAgain, ScanInv, ScanType
  <2> QED BY <1>5, <2>1, ReadAgainScan
<1>6. CASE \E w \in Pool : EndScan(w) /\ Dispatch(w)
  BY <1>6, EndScanScan
<1>7. CASE Load \/ Start
  BY <1>1, <1>7 DEF Load, Start
<1>8. CASE UNCHANGED vars
  BY <1>1, <1>8 DEF vars
<1> QED BY <1>2, <1>3, <1>4, <1>5, <1>6, <1>7, <1>8 DEF Next, ContinueScan

\* With any number of workers, and any interleaving with them, a connection placed by
\* loadBalanceMinConnection (tcpServer.cpp:63-74) goes to a worker with the fewest in
\* its pool, if no pool was touched between the first size read and the last.
THEOREM MinConnectionIsLeast == Spec => LeastLoadedIsChosen
<1>1. Init => ScanInv
  BY InitScan
<1>2. ScanInv /\ [Next]_vars => ScanInv'
  BY StepScan
<1>3. ScanInv /\ [Next]_vars =>
        (scan.on /\ ~scan'.on /\ scan.quiet =>
           \A w, v \in Pool : assigned'[w] > assigned[w] => pooled[w] <= pooled[v])
  <2> SUFFICES ASSUME ScanInv, [Next]_vars, scan.on, ~scan'.on, scan.quiet,
                      NEW w \in Pool, NEW v \in Pool, assigned'[w] > assigned[w]
               PROVE  pooled[w] <= pooled[v]
    OBVIOUS
  <2>1. PICK u \in Pool : EndScan(u) /\ Dispatch(u)
    BY StepScan
  <2>2. u = w
    BY <2>1, DispatchShares
  <2>3. w = scan.index /\ scan.next >= PoolSize /\ scan.next \in Nat
    BY <2>1, <2>2 DEF EndScan, ScanInv, ScanType
  <2>4. v < scan.next
    BY <2>3, LoadBalanceAssumption DEF Pool
  <2> QED BY <2>3, <2>4 DEF ScanInv, QuietScan, LeastBefore
<1> QED BY <1>1, <1>2, <1>3, PTL DEF Spec, LeastLoadedIsChosen

-----------------------------------------------------------------------------
(* Numbers and keys. *)

LEMMA SignedIsInt ==
  ASSUME NEW n \in Int
  PROVE  Signed(n, 22) \in Int /\ Signed(n, 12) \in Int
BY DEF Signed

\* Within its width, a number is not changed.
LEMMA SignedInRange ==
  ASSUME NEW n \in Int
  PROVE  /\ n \in -(2^21)..2^21 - 1 => Signed(n, 22) = n
         /\ n \in -(2^11)..2^11 - 1 => Signed(n, 12) = n
BY DEF Signed

LEMMA QuotientIsInt ==
  ASSUME NEW a \in Int, NEW n \in Nat \ {0}
  PROVE  Quotient(a, n) \in Int
BY DEF Quotient

\* What a usable line gives its key.
ValueOf(key, value) ==
  CASE key \in NumberKeys -> value.number
    [] key \in MemoryKeys -> ConvertToKB(value)
    [] key \in SizeKeys   -> ConvertToBytes(value)
    [] OTHER              -> value.text

IntKeys == NumberKeys \cup MemoryKeys \cup SizeKeys

LEMMA KeyKinds ==
  /\ RuleKeys = {"max-tcp-eviction-rule", "inactive-tcp-eviction-rule", "load-balance",
                 "log-file-rolling"}
  /\ RuleKeys \subseteq Keys /\ IntKeys \subseteq Keys
  /\ \A key \in RuleKeys : key \notin IntKeys
  /\ \A key \in Keys : key \notin IntKeys /\ key \notin RuleKeys => key = "log-file-name-prefix"
  /\ \A key \in MemoryKeys : key \notin NumberKeys /\ key \notin SizeKeys
  /\ \A key \in SizeKeys : key \notin NumberKeys /\ key \notin MemoryKeys
  /\ \A key \in NumberKeys : key \notin SizeKeys /\ key \notin MemoryKeys
BY DEF RuleKeys, Words, Keys, IntKeys, NumberKeys, MemoryKeys, SizeKeys

LEMMA ConvertedIsInt ==
  ASSUME NEW value \in Values
  PROVE  ConvertToKB(value) \in Int /\ ConvertToBytes(value) \in Int
<1>1. value.number \in Int
  BY DEF Values
<1>2. ConvertToKB(value) \in Int
  <2>1. /\ 2^10 * Signed(value.number, 22) \in Int
        /\ 2^20 * Signed(value.number, 12) \in Int
    BY <1>1, SignedIsInt
  <2> QED BY <1>1, <2>1 DEF ConvertToKB
<1>3. 2^10 * Signed(ConvertToKB(value), 22) \in Int
  BY <1>2, SignedIsInt
<1> QED BY <1>2, <1>3 DEF ConvertToBytes

LEMMA ValueTypes ==
  ASSUME NEW key \in Keys, NEW value \in Values
  PROVE  /\ key \in IntKeys => ValueOf(key, value) \in Int
         /\ key \notin IntKeys => ValueOf(key, value) = value.text /\ value.text \in STRING
<1>1. value.number \in Int /\ value.text \in STRING
  BY DEF Values
<1>2. ConvertToKB(value) \in Int /\ ConvertToBytes(value) \in Int
  BY ConvertedIsInt
<1> QED BY <1>1, <1>2 DEF ValueOf, IntKeys

\* A size in kilobytes that can be held is computed exactly.
LEMMA KilobytesAreExact ==
  ASSUME NEW value \in Values, NEW key \in MemoryKeys, Representable(key, value)
  PROVE  ConvertToKB(value) = value.number * Unit[value.last]
<1>1. value.number \in Int /\ value.last \in {"K", "M", "G"} /\ key \notin SizeKeys
  BY KeyKinds DEF Values, Representable, Unit
<1>2. LET half == 2^30 \div Unit[value.last] IN value.number \div 2 \in -half..half - 1
  BY <1>1 DEF Representable
<1>3. CASE value.last = "K"
  BY <1>1, <1>3 DEF ConvertToKB, Unit
<1>4. CASE value.last = "M"
  <2>1. value.number \div 2 \in -(2^20)..2^20 - 1
    BY <1>2, <1>4 DEF Unit
  <2>2. value.number \in -(2^21)..2^21 - 1
    BY <1>1, <2>1
  <2>3. Signed(value.number, 22) = value.number
    BY <1>1, <2>2, SignedInRange
  <2> QED BY <1>1, <1>4, <2>3 DEF ConvertToKB, Unit
<1>5. CASE value.last = "G"
  <2>1. value.number \div 2 \in -(2^10)..2^10 - 1
    BY <1>2, <1>5 DEF Unit
  <2>2. value.number \in -(2^11)..2^11 - 1
    BY <1>1, <2>1
  <2>3. Signed(value.number, 12) = value.number
    BY <1>1, <2>2, SignedInRange
  <2> QED BY <1>1, <1>5, <2>3 DEF ConvertToKB, Unit
<1> QED BY <1>1, <1>3, <1>4, <1>5

\* And so is a size in bytes.
LEMMA BytesAreExact ==
  ASSUME NEW value \in Values, NEW key \in SizeKeys, Representable(key, value)
  PROVE  ConvertToBytes(value) = value.number * Unit[value.last] * 2^10
<1>1. value.number \in Int /\ value.last \in {"K", "M", "G"}
  BY KeyKinds DEF Values, Representable, Unit
<1>2. LET half == 2^20 \div Unit[value.last] IN value.number \div 2 \in -half..half - 1
  BY <1>1 DEF Representable
<1>3. /\ ConvertToKB(value) = value.number * Unit[value.last]
      /\ value.number * Unit[value.last] \in -(2^21)..2^21 - 1
  <2>3. CASE value.last = "K"
    <3>1. value.number \div 2 \in -(2^20)..2^20 - 1
      BY <1>2, <2>3 DEF Unit
    <3>2. value.number \in -(2^21)..2^21 - 1
      BY <1>1, <3>1
    <3> QED BY <1>1, <2>3, <3>2 DEF ConvertToKB, Unit
  <2>4. CASE value.last = "M"
    <3>1. value.number \div 2 \in -(2^10)..2^10 - 1
      BY <1>2, <2>4 DEF Unit
    <3>2. value.number \in -(2^11)..2^11 - 1
      BY <1>1, <3>1
    <3>3. Signed(value.number, 22) = value.number
      BY <1>1, <3>2, SignedInRange
    <3> QED BY <1>1, <2>4, <3>2, <3>3 DEF ConvertToKB, Unit
  <2>5. CASE value.last = "G"
    <3>1. value.number \div 2 \in -1..0
      BY <1>2, <2>5 DEF Unit
    <3>2. value.number \in -2..1
      BY <1>1, <3>1
    <3>3. Signed(value.number, 12) = value.number
      BY <1>1, <3>2, SignedInRange
    <3> QED BY <1>1, <2>5, <3>2, <3>3 DEF ConvertToKB, Unit
  <2> QED BY <1>1, <2>3, <2>4, <2>5
<1>4. PICK k \in -(2^21)..2^21 - 1 : k = value.number * Unit[value.last]
  BY <1>3
<1>5. Signed(k, 22) = k
  BY SignedInRange
<1>6. ConvertToBytes(value) = 2^10 * k
  BY <1>3, <1>4, <1>5 DEF ConvertToBytes
<1> QED BY <1>4, <1>6

\* A value that can be held is the one that is meant.
LEMMA ValueIsMeant ==
  ASSUME NEW key \in Keys, NEW value \in Values, Representable(key, value)
  PROVE  ValueOf(key, value) = Meant(key, value)
<1>1. CASE key \in MemoryKeys
  <2>1. value.number \in Int /\ Unit[value.last] \in Int
    BY <1>1 DEF Representable, Unit, Values
  <2>2. value.number * Unit[value.last] \in Int
    BY <2>1
  <2>3. Meant(key, value) = value.number * Unit[value.last] * 1
    BY <1>1, KeyKinds DEF Meant
  <2> QED BY <1>1, <2>2, <2>3, KeyKinds, KilobytesAreExact DEF ValueOf
<1>2. CASE key \in SizeKeys
  BY <1>2, KeyKinds, BytesAreExact DEF ValueOf, Meant
<1>3. CASE key \notin MemoryKeys /\ key \notin SizeKeys
  BY <1>3 DEF ValueOf, Meant
<1> QED BY <1>1, <1>2, <1>3

-----------------------------------------------------------------------------
(* Loading the file. *)

\* What a member holds comes from the last of the lines read so far that count.
LoadedSoFar(key) ==
  \/ /\ config[key] = NotSet
     /\ \A i \in 1..lineNo - 1 : ~Counts(i, key)
  \/ \E i \in 1..lineNo - 1 :
       /\ Counts(i, key)
       /\ \A j \in 1..lineNo - 1 : Counts(j, key) => j <= i
       /\ config[key] = ValueOf(key, file[i].value)

\* The loop ends at a broken line, the first one, or at the end of the file.
LoopInv ==
  /\ loading => \A j \in 1..lineNo - 1 : file[j].kind # "broken"
  /\ ~loading => \/ lineNo = Len(file) + 1
                 \/ lineNo > 1 /\ file[lineNo - 1].kind = "broken"

ConfigInv ==
  /\ file \in Files /\ lineNo \in 1..Len(file) + 1 /\ loading \in BOOLEAN
  /\ DOMAIN config = Keys /\ config = [key \in Keys |-> config[key]]
  /\ \A key \in Keys : LoadedSoFar(key)
  /\ LoopInv

LEMMA FileType ==
  ASSUME file \in Files
  PROVE  /\ file \in Seq(Lines) /\ Len(file) \in Nat
         /\ \A i \in 1..Len(file) : file[i] \in Lines /\ file[i].value \in Values
<1>1. file \in Seq(Lines)
  BY ConfigurationAssumption
<1>2. Len(file) \in Nat /\ \A i \in 1..Len(file) : file[i] \in Lines
  BY <1>1, ElementOfSeq
<1> QED BY <1>1, <1>2 DEF Lines

LEMMA InitConfig == Init => ConfigInv
<1> SUFFICES ASSUME Init PROVE ConfigInv
  OBVIOUS
<1>1. /\ file \in Files /\ lineNo = 1 /\ loading = TRUE
      /\ config = [key \in Keys |-> NotSet]
  BY DEF Init, ConfigurationInit
<1>2. Len(file) \in Nat
  BY <1>1, FileType
<1>3. 1..lineNo - 1 = {}
  BY <1>1
<1>4. \A key \in Keys : LoadedSoFar(key)
  BY <1>1, <1>3 DEF LoadedSoFar
<1>5. LoopInv
  BY <1>1, <1>3 DEF LoopInv
<1>6. lineNo \in 1..Len(file) + 1
  BY <1>1, <1>2
<1> QED BY <1>1, <1>4, <1>5, <1>6 DEF ConfigInv

LEMMA ReadLineKeeps ==
  ASSUME ConfigInv, ReadLine
  PROVE  ConfigInv'
<1> DEFINE line == file[lineNo]
<1>1. /\ loading /\ lineNo \in 1..Len(file) /\ Len(file) \in Nat /\ file' = file
      /\ lineNo' = lineNo + 1 /\ loading' = (line.kind # "broken")
      /\ config' = IF line.kind = "pair" /\ line.key \in Keys
                   THEN [config EXCEPT ![line.key] = Assign(line.key, line.value)]
                   ELSE config
      /\ line \in Lines /\ line.value \in Values
  BY FileType DEF ConfigInv, ReadLine
<1>2. /\ 1..lineNo' - 1 = (1..lineNo - 1) \cup {lineNo} /\ lineNo \in 1..lineNo
      /\ \A i \in 1..lineNo - 1 : i <= lineNo /\ i # lineNo
      /\ lineNo' \in 1..Len(file) + 1
  BY <1>1
<1>3. \A j \in 1..lineNo - 1 : file[j].kind # "broken"
  BY <1>1 DEF ConfigInv, LoopInv
<1>4. \A i, key : Counts(i, key)' <=> Counts(i, key)
  BY <1>1 DEF Counts
<1>5. ASSUME NEW key \in Keys
      PROVE  Counts(lineNo, key) <=>
               /\ line.kind = "pair" /\ line.key = key
               /\ key \in RuleKeys => line.value.text \in Words[key]
  <2>1. line.kind = "pair" => \A j \in 1..lineNo : file[j].kind # "broken"
    <3>1. \A j \in 1..lineNo : j \in 1..lineNo - 1 \/ j = lineNo
      BY <1>1
    <3> QED BY <1>3, <3>1
  <2> QED BY <2>1 DEF Counts
<1> HIDE DEF line
<1>6. ASSUME NEW key \in Keys
      PROVE  LoadedSoFar(key)'
  <2>1. LoadedSoFar(key)
    BY DEF ConfigInv
  <2>2. CASE Counts(lineNo, key)
    <3>1. line.kind = "pair" /\ line.key = key /\ (key \in RuleKeys => line.value.text \in Words[key])
      BY <1>5, <2>2
    <3>2. config'[key] = Assign(key, line.value)
      BY <1>1, <3>1 DEF ConfigInv
    <3>3. Assign(key, line.value) = ValueOf(key, line.value)
      BY <3>1, KeyKinds DEF Assign, ValueOf, IntKeys
    <3>4. config'[key] = ValueOf(key, file'[lineNo].value)
      BY <1>1, <3>2, <3>3 DEF line
    <3>5. lineNo \in 1..lineNo' - 1 /\ \A j \in 1..lineNo' - 1 : j <= lineNo
      BY <1>1, <1>2
    <3> QED BY <1>4, <2>2, <3>4, <3>5 DEF LoadedSoFar
  <2>3. CASE ~Counts(lineNo, key)
    <3>1. config'[key] = config[key]
      <4>1. CASE line.kind = "pair" /\ line.key = key
        <5>1. key \in RuleKeys /\ line.value.text \notin Words[key]
          BY <1>5, <2>3, <4>1
        <5>2. Assign(key, line.value) = config[key]
          BY <5>1, KeyKinds DEF Assign, IntKeys
        <5> QED BY <1>1, <4>1, <5>2 DEF ConfigInv
      <4>2. CASE ~(line.kind = "pair" /\ line.key = key)
        BY <1>1, <4>2 DEF ConfigInv
      <4> QED BY <4>1, <4>2
    <3>2. CASE config[key] = NotSet /\ \A i \in 1..lineNo - 1 : ~Counts(i, key)
      BY <1>2, <1>4, <2>3, <3>1, <3>2 DEF LoadedSoFar
    <3>3. ASSUME NEW i \in 1..lineNo - 1, Counts(i, key),
                 \A j \in 1..lineNo - 1 : Counts(j, key) => j <= i,
                 config[key] = ValueOf(key, file[i].value)
          PROVE  LoadedSoFar(key)'
      <4>1. i \in 1..lineNo' - 1
        BY <1>2
      <4>2. config'[key] = ValueOf(key, file'[i].value)
        BY <1>1, <3>1, <3>3
      <4>3. \A j \in 1..lineNo' - 1 : Counts(j, key) => j <= i
        BY <1>2, <2>3, <3>3
      <4> QED BY <1>4, <3>3, <4>1, <4>2, <4>3 DEF LoadedSoFar
    <3> QED BY <2>1, <3>2, <3>3 DEF LoadedSoFar
  <2> QED BY <2>2, <2>3
<1>7. LoopInv'
  <2>1. loading' => \A j \in 1..lineNo' - 1 : file'[j].kind # "broken"
    BY <1>1, <1>2, <1>3 DEF line
  <2>2. ~loading' => lineNo' > 1 /\ file'[lineNo' - 1].kind = "broken"
    <3>1. lineNo' > 1 /\ lineNo' - 1 = lineNo
      BY <1>1
    <3> QED BY <1>1, <3>1 DEF line
  <2> QED BY <2>1, <2>2 DEF LoopInv
<1>8. DOMAIN config' = Keys /\ config' = [key \in Keys |-> config'[key]]
  BY <1>1 DEF ConfigInv
<1>9. file' \in Files /\ loading' \in BOOLEAN /\ lineNo' \in 1..Len(file') + 1
  BY <1>1, <1>2 DEF ConfigInv
<1> QED BY <1>6, <1>7, <1>8, <1>9 DEF ConfigInv

\* The other steps of the master change nothing of the configuration.
LEMMA SameConfig ==
  ASSUME ConfigInv, UNCHANGED <<file, lineNo, config>>, loading' \in BOOLEAN,
         loading' => loading, ~loading' => ~loading \/ lineNo = Len(file) + 1
  PROVE  ConfigInv'
<1>1. \A i, key : Counts(i, key)' <=> Counts(i, key)
  BY DEF Counts
<1>2. \A key \in Keys : LoadedSoFar(key)'
  BY <1>1 DEF ConfigInv, LoadedSoFar
<1>3. LoopInv'
  BY DEF ConfigInv, LoopInv
<1> QED BY <1>2, <1>3 DEF ConfigInv

LEMMA LoadConfigKeeps ==
  ASSUME ConfigInv, LoadConfig
  PROVE  ConfigInv'
<1>1. CASE ReadLine
  BY <1>1, ReadLineKeeps
<1>2. CASE EndOfFile
  <2>1. lineNo = Len(file) + 1
    BY <1>2, FileType DEF ConfigInv, EndOfFile
  <2> QED BY <1>2, <2>1, SameConfig DEF EndOfFile
<1> QED BY <1>1, <1>2 DEF LoadConfig

\* Once loaded, a key without lines was left alone, and one with lines has what the
\* last of them gives.
LEMMA LoadedValues ==
  ASSUME ConfigInv, ~loading, NEW key \in Keys
  PROVE  /\ LinesFor(key) = {} => config[key] = NotSet
         /\ LinesFor(key) # {} => /\ config[key] = ValueOf(key, LastValue(key))
                                  /\ LastValue(key) \in Values
<1>1. /\ file \in Files /\ lineNo \in 1..Len(file) + 1 /\ Len(file) \in Nat
      /\ LoadedSoFar(key) /\ LoopInv
  BY FileType DEF ConfigInv
<1>2. ASSUME NEW i \in 1..Len(file), Counts(i, key)
      PROVE  i \in 1..lineNo - 1
  <2>1. CASE lineNo = Len(file) + 1
    BY <1>1, <2>1
  <2>2. CASE lineNo > 1 /\ file[lineNo - 1].kind = "broken"
    <3>1. ~(lineNo - 1 \in 1..i)
      BY <1>2, <2>2 DEF Counts
    <3> QED BY <1>1, <2>2, <3>1
  <2> QED BY <1>1, <2>1, <2>2 DEF LoopInv
<1>3. LinesFor(key) = {i \in 1..lineNo - 1 : Counts(i, key)}
  <2>1. \A i \in 1..lineNo - 1 : i \in 1..Len(file)
    BY <1>1
  <2> QED BY <1>2, <2>1 DEF LinesFor
<1>4. CASE config[key] = NotSet /\ \A i \in 1..lineNo - 1 : ~Counts(i, key)
  BY <1>3, <1>4
<1>5. ASSUME NEW i \in 1..lineNo - 1, Counts(i, key),
             \A j \in 1..lineNo - 1 : Counts(j, key) => j <= i,
             config[key] = ValueOf(key, file[i].value)
      PROVE  /\ LinesFor(key) # {} /\ config[key] = ValueOf(key, LastValue(key))
             /\ LastValue(key) \in Values
  <2>1. i \in LinesFor(key) /\ \A j \in LinesFor(key) : j <= i
    BY <1>3, <1>5
  <2>2. \A n \in LinesFor(key) : (\A j \in LinesFor(key) : j <= n) => n = i
    BY <1>1, <1>3, <2>1
  <2>3. (CHOOSE n \in LinesFor(key) : \A j \in LinesFor(key) : j <= n) = i
    BY <2>1, <2>2
  <2>4. i \in 1..Len(file)
    BY <1>1
  <2> QED BY <1>1, <1>5, <2>1, <2>3, <2>4, FileType DEF LastValue
<1> QED BY <1>1, <1>4, <1>5 DEF LoadedSoFar

\* What the file says, when it can be held, is what the member holds.
LEMMA WrittenIsLoaded ==
  ASSUME ConfigInv, ~loading, NEW key \in Keys, IsWritten(key)
  PROVE  config[key] = Written(key) /\ config[key] # NotSet
<1>1. /\ config[key] = ValueOf(key, LastValue(key))
      /\ LastValue(key) \in Values /\ Representable(key, LastValue(key))
  BY LoadedValues DEF IsWritten
<1>2. ValueOf(key, LastValue(key)) = Meant(key, LastValue(key))
  BY <1>1, ValueIsMeant
<1>3. ValueOf(key, LastValue(key)) # NotSet
  BY <1>1, ValueTypes, ConfigurationAssumption
<1> QED BY <1>1, <1>2, <1>3 DEF Written

-----------------------------------------------------------------------------
(* Remainders. *)

\* Remainders are kept folded: the solver does not get far with a variable divisor.
Mod(a, p) == a % p

LEMMA ModExists ==
  ASSUME NEW a \in Int, NEW p \in Nat, p > 0
  PROVE  \E q \in Int, r \in 0..p - 1 : a = q * p + r /\ Mod(a, p) = r
<1>1. PICK q \in Int : q = a \div p
  OBVIOUS
<1>2. PICK r \in 0..p - 1 : r = a % p
  OBVIOUS
<1>3. a = q * p + r
  BY <1>1, <1>2
<1> QED BY <1>2, <1>3 DEF Mod

LEMMA ModIs ==
  ASSUME NEW a \in Int, NEW p \in Nat, p > 0, NEW q \in Int, NEW r \in 0..p - 1,
         a = q * p + r
  PROVE  Mod(a, p) = r
BY DEF Mod

\* Counting on goes from each remainder to the next, and back to 0 behind the last.
LEMMA ModNext ==
  ASSUME NEW a \in Int, NEW p \in Nat, p > 0
  PROVE  Mod(a + 1, p) = IF Mod(a, p) = p - 1 THEN 0 ELSE Mod(a, p) + 1
<1>1. PICK q \in Int, r \in 0..p - 1 : a = q * p + r /\ Mod(a, p) = r
  BY ModExists
<1>2. CASE r = p - 1
  <2>1. a + 1 = (q + 1) * p + 0 /\ 0 \in 0..p - 1 /\ q + 1 \in Int
    BY <1>1, <1>2
  <2>2. Mod(a + 1, p) = 0
    BY <2>1, ModIs
  <2> QED BY <1>1, <1>2, <2>2
<1>3. CASE r # p - 1
  <2>1. a + 1 = q * p + (r + 1) /\ r + 1 \in 0..p - 1
    BY <1>1, <1>3
  <2>2. Mod(a + 1, p) = r + 1
    BY <2>1, ModIs
  <2> QED BY <1>1, <1>3, <2>2
<1> QED BY <1>2, <1>3

\* Adding a multiple of the divisor makes no difference.
LEMMA ModMultiple ==
  ASSUME NEW a \in Int, NEW p \in Nat, p > 0, NEW k \in Int
  PROVE  Mod(a + k * p, p) = Mod(a, p)
<1>1. PICK q \in Int, r \in 0..p - 1 : a = q * p + r /\ Mod(a, p) = r
  BY ModExists
<1>2. a + k * p = (q + k) * p + r /\ q + k \in Int /\ a + k * p \in Int
  BY <1>1
<1>3. Mod(a + k * p, p) = r
  BY <1>2, ModIs
<1> QED BY <1>1, <1>3

\* What divides a number has a quotient.
LEMMA ModZero ==
  ASSUME NEW a \in Int, NEW p \in Nat, p > 0, Mod(a, p) = 0
  PROVE  \E q \in Int : a = q * p
<1>1. PICK q \in Int, r \in 0..p - 1 : a = q * p + r /\ Mod(a, p) = r
  BY ModExists
<1> QED BY <1>1

\* A number of whole parts is at most the quotient.
LEMMA PartsFit ==
  ASSUME NEW n \in Nat, NEW p \in Nat, p > 0, NEW m \in Nat, NEW r \in 0..p - 1,
         n = m * p + r
  PROVE  m <= n \div p /\ n \div p \in Int
OBVIOUS

-----------------------------------------------------------------------------
(* The turns of round-robin. *)

\* What the int is as a size_t.
Unsigned(n) == IF n < 0 THEN n + 4 * IntHalf * IntHalf ELSE n

LEMMA TurnIsMod ==
  ASSUME NEW n \in -IntHalf..IntHalf - 1
  PROVE  /\ Unsigned(n) \in Nat
         /\ TurnOf(n) = Mod(Unsigned(n), PoolSize)
         /\ TurnOf(n) \in Pool
<1>1. IntHalf \in Nat /\ IntHalf > 0 /\ PoolSize \in Nat /\ PoolSize > 0
  BY LoadBalanceAssumption
<1>2. PICK w \in Nat : w = 4 * IntHalf * IntHalf
  BY <1>1
<1>3. w >= 4 * IntHalf
  <2>1. IntHalf * IntHalf >= IntHalf
    BY <1>1
  <2> QED BY <1>1, <1>2, <2>1
<1>4. Unsigned(n) \in Nat /\ Unsigned(n) < w
  BY <1>1, <1>2, <1>3 DEF Unsigned
<1>5. n % w = Unsigned(n)
  <2>1. n = (IF n < 0 THEN -1 ELSE 0) * w + Unsigned(n)
    BY <1>1, <1>2 DEF Unsigned
  <2>2. Unsigned(n) \in 0..w - 1 /\ w > 0 /\ n \in Int
    BY <1>1, <1>2, <1>4
  <2>3. Mod(n, w) = Unsigned(n)
    BY <2>1, <2>2, ModIs
  <2> QED BY <2>3 DEF Mod
<1>6. Mod(Unsigned(n), PoolSize) \in 0..PoolSize - 1
  <2>1. Unsigned(n) \in Int
    BY <1>4
  <2> QED BY <1>1, <2>1, ModExists
<1> QED BY <1>2, <1>4, <1>5, <1>6 DEF TurnOf, Mod, Pool

NextTurn(n) == IF n = IntHalf - 1 THEN -IntHalf ELSE n + 1
Successor(w) == IF w = PoolSize - 1 THEN 0 ELSE w + 1

\* While the counter keeps its sign, the workers take turns.
LEMMA TurnMovesOn ==
  ASSUME NEW n \in -IntHalf..IntHalf - 1, n # IntHalf - 1, n # -1
  PROVE  TurnOf(NextTurn(n)) = Successor(TurnOf(n))
<1>1. IntHalf \in Nat /\ IntHalf > 0 /\ PoolSize \in Nat /\ PoolSize > 0
  BY LoadBalanceAssumption
<1>2. NextTurn(n) = n + 1 /\ n + 1 \in -IntHalf..IntHalf - 1
  BY <1>1 DEF NextTurn
<1>3. Unsigned(n + 1) = Unsigned(n) + 1
  BY <1>1 DEF Unsigned
<1>4. Unsigned(n) \in Int
  BY TurnIsMod
<1>5. Mod(Unsigned(n) + 1, PoolSize) = Successor(Mod(Unsigned(n), PoolSize))
  BY <1>1, <1>4, ModNext DEF Successor
<1> QED BY <1>2, <1>3, <1>5, TurnIsMod

\* When the number of workers divides the number of ints, they always do.
LEMMA TurnAlwaysMovesOn ==
  ASSUME NEW n \in -IntHalf..IntHalf - 1, (2 * IntHalf) % PoolSize = 0
  PROVE  TurnOf(NextTurn(n)) = Successor(TurnOf(n))
<1>1. IntHalf \in Nat /\ IntHalf > 0 /\ PoolSize \in Nat /\ PoolSize > 0
  BY LoadBalanceAssumption
<1>2. PICK k \in Int : 2 * IntHalf = k * PoolSize
  <2>1. 2 * IntHalf \in Int /\ Mod(2 * IntHalf, PoolSize) = 0
    BY <1>1 DEF Mod
  <2> QED BY <1>1, <2>1, ModZero
<1>3. \E j \in Int : Unsigned(NextTurn(n)) + j * PoolSize = Unsigned(n) + 1
  <2>1. CASE n # IntHalf - 1 /\ n # -1
    <3>1. Unsigned(NextTurn(n)) + 0 * PoolSize = Unsigned(n) + 1
      BY <1>1, <2>1 DEF NextTurn, Unsigned
    <3> QED BY <3>1
  <2>2. PICK e \in Int : e = 2 * IntHalf * k
    BY <1>1
  <2>3. 4 * IntHalf * IntHalf = e * PoolSize
    <3>1. 4 * IntHalf * IntHalf = (2 * IntHalf) * (2 * IntHalf)
      BY <1>1
    <3>2. (2 * IntHalf) * (2 * IntHalf) = (2 * IntHalf) * (k * PoolSize)
      BY <1>2
    <3>3. (2 * IntHalf) * (k * PoolSize) = (2 * IntHalf * k) * PoolSize
      BY <1>1
    <3> QED BY <2>2, <3>1, <3>2, <3>3
  <2>4. CASE n = -1
    <3>1. n # IntHalf - 1
      BY <1>1, <2>4
    <3>2. Unsigned(NextTurn(n)) = 0 /\ Unsigned(n) + 1 = 4 * IntHalf * IntHalf
      BY <1>1, <2>4, <3>1 DEF NextTurn, Unsigned
    <3>3. Unsigned(NextTurn(n)) + e * PoolSize = Unsigned(n) + 1
      BY <1>1, <2>2, <2>3, <3>2
    <3> QED BY <2>2, <3>3
  <2>5. CASE n = IntHalf - 1
    <3>1. /\ Unsigned(NextTurn(n)) = -IntHalf + 4 * IntHalf * IntHalf
          /\ Unsigned(n) + 1 = IntHalf
      BY <1>1, <2>5 DEF NextTurn, Unsigned
    <3>2. (k - e) * PoolSize = 2 * IntHalf - 4 * IntHalf * IntHalf
      BY <1>1, <1>2, <2>2, <2>3
    <3>3. Unsigned(NextTurn(n)) + (k - e) * PoolSize = Unsigned(n) + 1
      BY <1>1, <3>1, <3>2
    <3> QED BY <2>2, <3>3
  <2> QED BY <2>1, <2>4, <2>5
<1>4. PICK j \in Int : Unsigned(NextTurn(n)) + j * PoolSize = Unsigned(n) + 1
  BY <1>3
<1>5. NextTurn(n) \in -IntHalf..IntHalf - 1
  BY <1>1 DEF NextTurn
<1>6. Unsigned(n) \in Int /\ Unsigned(NextTurn(n)) \in Int
  BY <1>5, TurnIsMod
<1>7. Mod(Unsigned(NextTurn(n)) + j * PoolSize, PoolSize) = Mod(Unsigned(NextTurn(n)), PoolSize)
  BY <1>1, <1>6, ModMultiple
<1>8. Mod(Unsigned(n) + 1, PoolSize) = Successor(Mod(Unsigned(n), PoolSize))
  BY <1>1, <1>6, ModNext DEF Successor
<1> QED BY <1>4, <1>5, <1>7, <1>8, TurnIsMod

-----------------------------------------------------------------------------
(* The shares under round-robin. *)

\* The workers that have had their turn since worker s began the round, t being next.
Ahead(s, t) == IF s <= t THEN s..t - 1 ELSE Pool \ (t..s - 1)
Extra(w, S) == IF w \in S THEN 1 ELSE 0

\* The shares differ by m, and by one more between a worker in S and one that is not.
Even(a, m, S) ==
  \A w, v \in Pool : a[w] - a[v] <= m + Extra(w, S) - Extra(v, S)

\* The place of the counter in its run through the numbers of one sign.
Place(n) == IF n < 0 THEN n + IntHalf ELSE n

\* m runs are over, each of which may have left one connection's difference.
RoundsInv ==
  \E m \in Nat, s \in Pool :
    /\ Even(assigned, m, Ahead(s, TurnOf(turn)))
    /\ IF (2 * IntHalf) % PoolSize = 0 THEN m = 0 ELSE id = m * IntHalf + Place(turn)

LEMMA EvenTurn ==
  ASSUME NEW a \in [Pool -> Nat], NEW m \in Nat, NEW s \in Pool, NEW t \in Pool,
         Even(a, m, Ahead(s, t))
  PROVE  Even([a EXCEPT ![t] = @ + 1], m, Ahead(s, Successor(t)))
<1> DEFINE b == [a EXCEPT ![t] = @ + 1]
<1>1. PoolSize \in Nat /\ PoolSize > 0 /\ s \in 0..PoolSize - 1 /\ t \in 0..PoolSize - 1
  BY LoadBalanceAssumption DEF Pool
<1>2. /\ b[t] = a[t] + 1 /\ \A w \in Pool : w # t => b[w] = a[w]
      /\ \A w \in Pool : a[w] \in Nat
  OBVIOUS
<1>3. t \notin Ahead(s, t)
  BY <1>1 DEF Ahead
<1>4. CASE Successor(t) = s
  <2>1. Ahead(s, Successor(t)) = {}
    BY <1>1, <1>4 DEF Ahead
  <2>2. \A w \in Pool : w # t => w \in Ahead(s, t)
    BY <1>1, <1>4 DEF Ahead, Successor, Pool
  <2> HIDE DEF b
  <2>3. ASSUME NEW w \in Pool, NEW v \in Pool
        PROVE  b[w] - b[v] <= m
    <3>1. a[w] - a[v] <= m + Extra(w, Ahead(s, t)) - Extra(v, Ahead(s, t))
      BY DEF Even
    <3>2. Extra(t, Ahead(s, t)) = 0 /\ \A u \in Pool : u # t => Extra(u, Ahead(s, t)) = 1
      BY <1>3, <2>2 DEF Extra
    <3> QED BY <1>2, <3>1, <3>2
  <2> QED BY <2>1, <2>3 DEF Even, Extra, b
<1>5. CASE Successor(t) # s
  <2>1. \A w \in Pool : w \in Ahead(s, Successor(t)) <=> w \in Ahead(s, t) \/ w = t
    BY <1>1, <1>5 DEF Ahead, Successor, Pool
  <2> HIDE DEF b
  <2>2. ASSUME NEW w \in Pool, NEW v \in Pool
        PROVE  b[w] - b[v] <= m + Extra(w, Ahead(s, Successor(t))) - Extra(v, Ahead(s, Successor(t)))
    <3>1. a[w] - a[v] <= m + Extra(w, Ahead(s, t)) - Extra(v, Ahead(s, t))
      BY DEF Even
    <3>2. /\ Extra(t, Ahead(s, t)) = 0 /\ Extra(t, Ahead(s, Successor(t))) = 1
          /\ \A u \in Pool : u # t => Extra(u, Ahead(s, Successor(t))) = Extra(u, Ahead(s, t))
      BY <1>3, <2>1 DEF Extra
    <3>3. \A u \in Pool : Extra(u, Ahead(s, t)) \in {0, 1}
      BY DEF Extra
    <3> QED BY <1>2, <3>1, <3>2, <3>3
  <2> QED BY <2>2 DEF Even, b
<1> QED BY <1>4, <1>5

\* Where a run ends, the differences of the round become one of the runs.
LEMMA EvenRun ==
  ASSUME NEW a \in [Pool -> Nat], NEW m \in Nat, NEW S, NEW t \in Pool, Even(a, m, S)
  PROVE  Even(a, m + 1, Ahead(t, t))
<1>1. Ahead(t, t) = {}
  BY LoadBalanceAssumption DEF Ahead, Pool
<1>2. ASSUME NEW w \in Pool, NEW v \in Pool
      PROVE  a[w] - a[v] <= m + 1
  <2>1. a[w] - a[v] <= m + Extra(w, S) - Extra(v, S)
    BY DEF Even
  <2>2. Extra(w, S) \in {0, 1} /\ Extra(v, S) \in {0, 1} /\ a[w] \in Nat /\ a[v] \in Nat
    BY DEF Extra
  <2> QED BY <2>1, <2>2
<1>3. \A w \in Pool : Extra(w, {}) = 0
  BY DEF Extra
<1>4. \A w, v \in Pool : a[w] - a[v] <= m + 1 + Extra(w, {}) - Extra(v, {})
  BY <1>2, <1>3
<1> QED BY <1>1, <1>4 DEF Even

LEMMA PlaceType ==
  ASSUME turn \in -IntHalf..IntHalf - 1
  PROVE  IntHalf \in Nat /\ IntHalf > 0 /\ Place(turn) \in 0..IntHalf - 1
BY LoadBalanceAssumption DEF Place

LEMMA RoundsKeep ==
  ASSUME RoundsInv, assigned \in [Pool -> Nat], turn \in -IntHalf..IntHalf - 1, id \in Nat,
         assigned' = [assigned EXCEPT ![TurnOf(turn)] = @ + 1],
         turn' = NextTurn(turn), id' = id + 1
  PROVE  RoundsInv'
<1>1. PICK m \in Nat, s \in Pool :
        /\ Even(assigned, m, Ahead(s, TurnOf(turn)))
        /\ IF (2 * IntHalf) % PoolSize = 0 THEN m = 0 ELSE id = m * IntHalf + Place(turn)
  BY DEF RoundsInv
<1>2. TurnOf(turn) \in Pool /\ assigned' \in [Pool -> Nat] /\ turn' \in -IntHalf..IntHalf - 1
  BY TurnIsMod, LoadBalanceAssumption DEF NextTurn
<1>3. Even(assigned', m, Ahead(s, Successor(TurnOf(turn))))
  BY <1>1, <1>2, EvenTurn
<1>4. PICK t \in Pool : t = TurnOf(turn')
  BY <1>2, TurnIsMod
<1>5. CASE (2 * IntHalf) % PoolSize = 0
  <2>1. t = Successor(TurnOf(turn))
    BY <1>4, <1>5, TurnAlwaysMovesOn
  <2> QED BY <1>1, <1>3, <1>4, <1>5, <2>1 DEF RoundsInv
<1>6. CASE (2 * IntHalf) % PoolSize # 0
  <2>1. IntHalf \in Nat /\ IntHalf > 0 /\ id = m * IntHalf + Place(turn)
    BY <1>1, <1>6, PlaceType
  <2>2. CASE turn # IntHalf - 1 /\ turn # -1
    <3>1. t = Successor(TurnOf(turn))
      BY <1>4, <2>2, TurnMovesOn
    <3>2. Place(turn') = Place(turn) + 1
      BY <2>1, <2>2 DEF Place, NextTurn
    <3>3. id' = m * IntHalf + Place(turn')
      BY <2>1, <3>2, PlaceType
    <3> QED BY <1>3, <1>4, <1>6, <3>1, <3>3 DEF RoundsInv
  <2>3. CASE turn = IntHalf - 1 \/ turn = -1
    <3>1. Place(turn) = IntHalf - 1 /\ Place(turn') = 0
      BY <2>1, <2>3 DEF Place, NextTurn
    <3>2. id' = (m + 1) * IntHalf + Place(turn')
      BY <2>1, <3>1
    <3>3. Even(assigned', m + 1, Ahead(t, t))
      BY <1>2, <1>3, EvenRun
    <3>4. m + 1 \in Nat
      OBVIOUS
    <3> QED BY <1>4, <1>6, <3>2, <3>3, <3>4 DEF RoundsInv
  <2> QED BY <2>2, <2>3
<1> QED BY <1>5, <1>6

\* What the invariant says of the shares.
SharesAreEven ==
  \A w, v \in Pool :
    assigned[w] - assigned[v] <=
      1 + (IF (2 * IntHalf) % PoolSize = 0 THEN 0 ELSE id \div IntHalf)

LEMMA RoundsAreEven ==
  ASSUME RoundsInv, assigned \in [Pool -> Nat], turn \in -IntHalf..IntHalf - 1, id \in Nat
  PROVE  SharesAreEven
<1>1. PICK m \in Nat, s \in Pool :
        /\ Even(assigned, m, Ahead(s, TurnOf(turn)))
        /\ IF (2 * IntHalf) % PoolSize = 0 THEN m = 0 ELSE id = m * IntHalf + Place(turn)
  BY DEF RoundsInv
<1>2. \A w, v \in Pool : assigned[w] - assigned[v] <= m + 1
  <2> SUFFICES ASSUME NEW w \in Pool, NEW v \in Pool
               PROVE  assigned[w] - assigned[v] <= m + 1
    OBVIOUS
  <2> DEFINE S == Ahead(s, TurnOf(turn))
  <2>1. assigned[w] - assigned[v] <= m + Extra(w, S) - Extra(v, S)
    BY <1>1 DEF Even
  <2>2. Extra(w, S) \in {0, 1} /\ Extra(v, S) \in {0, 1}
    BY DEF Extra
  <2>3. assigned[w] \in Nat /\ assigned[v] \in Nat
    OBVIOUS
  <2> HIDE DEF S
  <2> QED BY <2>1, <2>2, <2>3
<1>3. (2 * IntHalf) % PoolSize # 0 => m <= id \div IntHalf /\ id \div IntHalf \in Int
  BY <1>1, PlaceType, PartsFit
<1>4. \A w, v \in Pool : assigned[w] - assigned[v] \in Int
  OBVIOUS
<1> QED BY <1>1, <1>2, <1>3, <1>4 DEF SharesAreEven

LEMMA QuotientGrows ==
  ASSUME NEW n \in Nat, NEW p \in Nat, p > 0
  PROVE  n \div p <= (n + 1) \div p /\ n \div p \in Int /\ (n + 1) \div p \in Int
OBVIOUS

\* A connection that is not built leaves the shares as they are.
LEMMA EvenAnyhow ==
  ASSUME SharesAreEven, assigned \in [Pool -> Nat], id \in Nat,
         assigned' = assigned, id' = id + 1
  PROVE  SharesAreEven'
<1>1. IntHalf \in Nat /\ IntHalf > 0
  BY LoadBalanceAssumption
<1>2. id \div IntHalf <= id' \div IntHalf /\ id \div IntHalf \in Int /\ id' \div IntHalf \in Int
  BY <1>1, QuotientGrows
<1>3. \A w, v \in Pool : assigned[w] - assigned[v] \in Int
  OBVIOUS
<1> QED BY <1>2, <1>3 DEF SharesAreEven

-----------------------------------------------------------------------------
(* The invariant of the master. *)

PoolsInv ==
  /\ queued \in [Pool -> Nat] /\ busy \subseteq Pool
  /\ turn \in -IntHalf..IntHalf - 1
  /\ scan.next <= PoolSize

ControlInv ==
  /\ mpc \in {"load", "start", "accept"} /\ (loading <=> mpc = "load")
  /\ maxEvents \in Nat /\ (mpc = "accept" <=> maxEvents # 0)
  /\ id \in Nat
  /\ process \in {"running", "crashed", "aborted"}
  /\ mpc # "accept" => process = "running"
  /\ scan.on => mpc = "accept" /\ config["load-balance"] = "min-connection"

IsRoundRobin == mpc = "accept" /\ config["load-balance"] = "round-robin"

TurnsInv ==
  /\ mpc # "accept" => assigned = [w \in Pool |-> 0] /\ turn = 0 /\ id = 0
  /\ IsRoundRobin => IF process = "running" THEN RoundsInv ELSE SharesAreEven

MasterInv == ConfigInv /\ ScanInv /\ PoolsInv /\ ControlInv /\ TurnsInv /\ SoundFileServes

-----------------------------------------------------------------------------
(* The parts that several actions share. *)

\* The number that a member holds, whatever the file sets.
LEMMA HeldIsInt ==
  ASSUME ConfigInv, ~loading, NEW key \in IntKeys, NEW n \in Held(key)
  PROVE  n \in Int
<1>1. key \in Keys
  BY KeyKinds
<1>2. CASE config[key] = NotSet
  BY <1>2, MasterAssumption DEF Held
<1>3. CASE config[key] # NotSet
  <2>1. config[key] = ValueOf(key, LastValue(key)) /\ LastValue(key) \in Values
    BY <1>1, <1>3, LoadedValues
  <2> QED BY <1>1, <1>3, <2>1, ValueTypes DEF Held
<1> QED BY <1>2, <1>3

\* Sound sizes let the constructor of a buffer through.
LEMMA SoundBuffer ==
  ASSUME ConfigInv, ~loading, NEW init \in SizeKeys, NEW max \in SizeKeys,
         SizesAreSound(init, max), NEW a \in Held(init), NEW b \in Held(max)
  PROVE  BufferOutcome(a, b) = "running"
<1>1. init \in Keys /\ max \in Keys /\ init \in IntKeys /\ max \in IntKeys
  BY KeyKinds DEF IntKeys
<1>2. a = Written(init) /\ b = Written(max)
  BY <1>1, WrittenIsLoaded DEF Held, SizesAreSound
<1>3. a \in Int /\ b \in Int
  BY <1>1, HeldIsInt
<1>4. ~(a > b) /\ ~(a < 0)
  BY <1>2, <1>3 DEF SizesAreSound
<1> QED BY <1>4 DEF BufferOutcome

\* The file is written once: what it says does not change.
LEMMA SameFile ==
  ASSUME file' = file
  PROVE  \A key : IsWritten(key)' <=> IsWritten(key)
<1>1. \A i, key : Counts(i, key)' <=> Counts(i, key)
  BY DEF Counts
<1>2. \A key : LinesFor(key)' = LinesFor(key)
  BY <1>1 DEF LinesFor
<1>3. \A key : LastValue(key)' = LastValue(key)
  BY <1>2 DEF LastValue
<1> QED BY <1>2, <1>3 DEF IsWritten

LEMMA SameWords ==
  ASSUME file' = file
  PROVE  \A key : Written(key)' = Written(key)
<1>1. \A i, key : Counts(i, key)' <=> Counts(i, key)
  BY DEF Counts
<1>2. \A key : LinesFor(key)' = LinesFor(key)
  BY <1>1 DEF LinesFor
<1>3. \A key : LastValue(key)' = LastValue(key)
  BY <1>2 DEF LastValue
<1> QED BY <1>3 DEF Written

SoundFile ==
  /\ IsWritten("load-balance")
  /\ SizesAreSound("tcp-read-buffer-init-size-bytes", "tcp-read-buffer-max-size-bytes")
  /\ SizesAreSound("tcp-write-buffer-init-size-bytes", "tcp-write-buffer-max-size-bytes")

LEMMA SameSoundness ==
  ASSUME file' = file
  PROVE  SoundFile' <=> SoundFile
BY SameFile, SameWords DEF SoundFile, SizesAreSound

\* A step that leaves the configuration, the counter and the shares alone.
LEMMA AsideKeeps ==
  ASSUME MasterInv, UNCHANGED <<configVars, masterVars, turn, assigned>>
  PROVE  /\ ConfigInv' /\ TurnsInv' /\ SoundFileServes'
         /\ (scan'.on => mpc = "accept" /\ config["load-balance"] = "min-connection")
              => ControlInv'
<1>1. /\ file' = file /\ lineNo' = lineNo /\ config' = config /\ loading' = loading
      /\ mpc' = mpc /\ maxEvents' = maxEvents /\ id' = id /\ process' = process
  BY DEF configVars, masterVars
<1>2. ConfigInv'
  BY <1>1, SameConfig DEF MasterInv, ConfigInv
<1>3. SharesAreEven' <=> SharesAreEven
  BY <1>1 DEF SharesAreEven
<1>4. RoundsInv' <=> RoundsInv
  BY <1>1 DEF RoundsInv
<1>5. TurnsInv'
  BY <1>1, <1>3, <1>4 DEF MasterInv, TurnsInv, IsRoundRobin
<1>6. SoundFileServes'
  BY <1>1, SameSoundness DEF MasterInv, SoundFileServes, SoundFile
<1>7. (scan'.on => mpc = "accept" /\ config["load-balance"] = "min-connection") => ControlInv'
  BY <1>1 DEF MasterInv, ControlInv
<1> QED BY <1>2, <1>5, <1>6, <1>7

\* A connection is built for a worker, by round-robin or by another rule.
LEMMA DispatchKeeps ==
  ASSUME MasterInv, process = "running", mpc = "accept", NEW w \in Pool, Dispatch(w),
         \/ UNCHANGED turn /\ config["load-balance"] # "round-robin"
         \/ w = TurnOf(turn) /\ turn' = NextTurn(turn),
         scan'.on => config["load-balance"] = "min-connection",
         scan'.next <= PoolSize
  PROVE  ConfigInv' /\ PoolsInv' /\ ControlInv' /\ TurnsInv' /\ SoundFileServes'
<1>1. /\ file' = file /\ lineNo' = lineNo /\ config' = config /\ loading' = loading
      /\ mpc' = mpc /\ maxEvents' = maxEvents /\ id' = id + 1 /\ ~loading
  BY DEF Dispatch, configVars, MasterInv, ControlInv
<1>2. ConfigInv'
  BY <1>1, SameConfig DEF MasterInv, ConfigInv
<1>3. PICK readInit \in Held("tcp-read-buffer-init-size-bytes"),
           readMax \in Held("tcp-read-buffer-max-size-bytes"),
           writeInit \in Held("tcp-write-buffer-init-size-bytes"),
           writeMax \in Held("tcp-write-buffer-max-size-bytes") :
        process' = IF BufferOutcome(readInit, readMax) # "running"
                   THEN BufferOutcome(readInit, readMax)
                   ELSE BufferOutcome(writeInit, writeMax)
  BY DEF Dispatch, ConnectionOutcome
<1>4. process' \in {"running", "crashed", "aborted"}
  BY <1>3 DEF BufferOutcome
<1>5. SoundFileServes'
  <2>1. ASSUME SoundFile
        PROVE  process' = "running"
    <3>1. /\ "tcp-read-buffer-init-size-bytes" \in SizeKeys
          /\ "tcp-read-buffer-max-size-bytes" \in SizeKeys
          /\ "tcp-write-buffer-init-size-bytes" \in SizeKeys
          /\ "tcp-write-buffer-max-size-bytes" \in SizeKeys
      BY DEF SizeKeys
    <3>2. BufferOutcome(readInit, readMax) = "running"
      BY <1>1, <2>1, <3>1, SoundBuffer DEF SoundFile, MasterInv
    <3>3. BufferOutcome(writeInit, writeMax) = "running"
      BY <1>1, <2>1, <3>1, SoundBuffer DEF SoundFile, MasterInv
    <3> QED BY <1>3, <3>2, <3>3
  <2> QED BY <1>1, <2>1, SameSoundness DEF SoundFileServes, SoundFile
<1>6. PoolsInv'
  <2>1. queued' \in [Pool -> Nat] /\ busy' \subseteq Pool
    <3>1. queued \in [Pool -> Nat] /\ busy \subseteq Pool /\ queued[w] \in Nat
      BY DEF MasterInv, PoolsInv
    <3>2. queued' = queued \/ queued' = [queued EXCEPT ![w] = @ + 1]
      BY DEF Dispatch, RegisterNewConnection
    <3>3. busy' = busy
      BY DEF Dispatch, RegisterNewConnection
    <3> QED BY <3>1, <3>2, <3>3
  <2>2. turn' \in -IntHalf..IntHalf - 1
    BY LoadBalanceAssumption DEF NextTurn, MasterInv, PoolsInv
  <2> QED BY <2>1, <2>2 DEF PoolsInv
<1>7. ControlInv'
  BY <1>1, <1>4 DEF MasterInv, ControlInv
<1>8. TurnsInv'
  <2> SUFFICES ASSUME IsRoundRobin
               PROVE  IF process' = "running" THEN RoundsInv' ELSE SharesAreEven'
    BY <1>1 DEF TurnsInv, IsRoundRobin
  <2>1. /\ w = TurnOf(turn) /\ turn' = NextTurn(turn)
        /\ RoundsInv /\ id \in Nat
        /\ assigned \in [Pool -> Nat] /\ turn \in -IntHalf..IntHalf - 1
    BY DEF IsRoundRobin, MasterInv, TurnsInv, ControlInv, PoolsInv, ScanInv
  <2>2. CASE process' = "running"
    <3>1. assigned' = [assigned EXCEPT ![TurnOf(turn)] = @ + 1]
      BY <2>1, <2>2 DEF Dispatch, RegisterNewConnection
    <3>2. RoundsInv'
      BY <1>1, <2>1, <3>1, RoundsKeep
    <3> QED BY <2>2, <3>2
  <2>3. CASE process' # "running"
    <3>1. assigned' = assigned
      BY <2>3 DEF Dispatch
    <3>2. SharesAreEven
      BY <2>1, RoundsAreEven
    <3> QED BY <1>1, <2>1, <2>3, <3>1, <3>2, EvenAnyhow
  <2> QED BY <2>2, <2>3
<1> QED BY <1>2, <1>5, <1>6, <1>7, <1>8

-----------------------------------------------------------------------------
(* Each action keeps the invariant. *)

LEMMA InitMaster == Init => MasterInv
<1> SUFFICES ASSUME Init PROVE MasterInv
  OBVIOUS
<1>1. /\ mpc = "load" /\ maxEvents = 0 /\ id = 0 /\ process = "running" /\ loading = TRUE
      /\ queued = [w \in Pool |-> 0] /\ assigned = [w \in Pool |-> 0]
      /\ busy = {} /\ turn = 0 /\ scan = Idle
  BY DEF Init, ConfigurationInit, BalanceInit
<1>2. PoolsInv
  BY <1>1, LoadBalanceAssumption DEF PoolsInv, Idle
<1>3. ControlInv
  BY <1>1 DEF ControlInv, Idle
<1>4. TurnsInv
  BY <1>1 DEF TurnsInv, IsRoundRobin
<1>5. SoundFileServes
  BY <1>1 DEF SoundFileServes
<1> QED BY <1>2, <1>3, <1>4, <1>5, InitConfig, InitScan DEF MasterInv

LEMMA LoadKeeps ==
  ASSUME MasterInv, process = "running", Load
  PROVE  ConfigInv' /\ PoolsInv' /\ ControlInv' /\ TurnsInv' /\ SoundFileServes'
<1>1. /\ mpc = "load" /\ LoadConfig /\ mpc' = (IF loading' THEN "load" ELSE "start")
      /\ UNCHANGED <<balanceVars, maxEvents, id, process>>
  BY DEF Load
<1>2. ConfigInv'
  BY <1>1, LoadConfigKeeps DEF MasterInv
<1>3. PoolsInv'
  BY <1>1 DEF MasterInv, PoolsInv, balanceVars
<1>4. ControlInv'
  <2>1. loading' \in BOOLEAN
    BY <1>2 DEF ConfigInv
  <2>2. ~scan.on /\ scan' = scan
    BY <1>1 DEF MasterInv, ControlInv, balanceVars
  <2> QED BY <1>1, <2>1, <2>2 DEF MasterInv, ControlInv
<1>5. TurnsInv'
  BY <1>1 DEF MasterInv, TurnsInv, IsRoundRobin, balanceVars
<1>6. SoundFileServes'
  BY <1>1 DEF SoundFileServes
<1> QED BY <1>2, <1>3, <1>4, <1>5, <1>6

LEMMA StartKeeps ==
  ASSUME MasterInv, process = "running", Start
  PROVE  ConfigInv' /\ PoolsInv' /\ ControlInv' /\ TurnsInv' /\ SoundFileServes'
<1>1. /\ mpc = "start" /\ mpc' = "accept" /\ ~loading
      /\ UNCHANGED <<configVars, balanceVars, id, process>>
  BY DEF Start, MasterInv, ControlInv
<1>2. PICK perWorker \in Held("max-tcp-per-worker"), total \in Held("max-tcp") :
        maxEvents' = AtLeastOne(PerWorker(perWorker, total))
  BY DEF Start
<1>3. maxEvents' \in Nat /\ maxEvents' # 0
  <2>1. "max-tcp-per-worker" \in IntKeys /\ "max-tcp" \in IntKeys
    BY DEF IntKeys, NumberKeys
  <2>2. perWorker \in Int /\ total \in Int
    BY <1>1, <2>1, HeldIsInt DEF MasterInv
  <2>3. Quotient(total, PoolSize) \in Int
    BY <2>2, LoadBalanceAssumption, QuotientIsInt
  <2>4. PerWorker(perWorker, total) \in Int
    BY <2>2, <2>3 DEF PerWorker
  <2> QED BY <1>2, <2>4 DEF AtLeastOne
<1>4. ConfigInv'
  BY <1>1, SameConfig DEF MasterInv, ConfigInv, configVars
<1>5. PoolsInv'
  BY <1>1 DEF MasterInv, PoolsInv, balanceVars
<1>6. ControlInv'
  BY <1>1, <1>3 DEF MasterInv, ControlInv, balanceVars, configVars
<1>7. TurnsInv'
  <2>1. /\ assigned' = [w \in Pool |-> 0] /\ turn' = 0 /\ id' = 0
    BY <1>1 DEF MasterInv, TurnsInv, balanceVars
  <2>2. PICK s \in Pool : s = TurnOf(turn')
    <3>1. 0 \in -IntHalf..IntHalf - 1
      BY LoadBalanceAssumption
    <3> QED BY <2>1, <3>1, TurnIsMod
  <2>3. Ahead(s, s) = {}
    BY LoadBalanceAssumption DEF Ahead, Pool
  <2>4. Even(assigned', 0, Ahead(s, s))
    BY <2>1, <2>3 DEF Even, Extra
  <2>5. id' = 0 * IntHalf + Place(turn')
    BY <2>1, LoadBalanceAssumption DEF Place
  <2>6. RoundsInv'
    BY <2>2, <2>4, <2>5 DEF RoundsInv
  <2> QED BY <1>1, <2>6 DEF TurnsInv
<1>8. SoundFileServes'
  BY <1>1 DEF SoundFileServes
<1> QED BY <1>4, <1>5, <1>6, <1>7, <1>8

LEMMA NewConnectionKeeps ==
  ASSUME MasterInv, process = "running", NEW ip \in IPs, NewConnection(ip)
  PROVE  ConfigInv' /\ PoolsInv' /\ ControlInv' /\ TurnsInv' /\ SoundFileServes'
<1>1. mpc = "accept" /\ ~scan.on /\ scan.next <= PoolSize /\ ~loading
  BY DEF NewConnection, MasterInv, PoolsInv, ControlInv
<1>2. ASSUME NEW w \in Pool, Dispatch(w),
             \/ config["load-balance"] = "round-robin" /\ LoadBalanceRoundRobin(w)
             \/ config["load-balance"] = "random" /\ LoadBalanceRandom(w)
             \/ config["load-balance"] = "ip-hash" /\ LoadBalanceIPHash(ip, w)
      PROVE  ConfigInv' /\ PoolsInv' /\ ControlInv' /\ TurnsInv' /\ SoundFileServes'
  <2>1. scan' = scan
    BY <1>2 DEF LoadBalanceRoundRobin, LoadBalanceRandom, LoadBalanceIPHash
  <2>2. \/ UNCHANGED turn /\ config["load-balance"] # "round-robin"
        \/ w = TurnOf(turn) /\ turn' = NextTurn(turn)
    BY <1>2 DEF LoadBalanceRoundRobin, LoadBalanceRandom, LoadBalanceIPHash, NextTurn
  <2>3. (scan'.on => config["load-balance"] = "min-connection") /\ scan'.next <= PoolSize
    BY <1>1, <2>1
  <2> QED BY <1>1, <1>2, <2>2, <2>3, DispatchKeeps
<1>3. CASE config["load-balance"] = "min-connection" /\ StartScan /\ UNCHANGED <<configVars, masterVars>>
  <2>1. /\ UNCHANGED <<queued, busy, turn, assigned>> /\ scan'.next = 1
    BY <1>3 DEF StartScan
  <2>2. PoolsInv'
    BY <2>1, LoadBalanceAssumption DEF MasterInv, PoolsInv
  <2> QED BY <1>1, <1>3, <2>1, <2>2, AsideKeeps
<1>4. CASE /\ config["load-balance"] = NotSet /\ process' = "crashed"
           /\ UNCHANGED <<configVars, balanceVars, mpc, maxEvents, id>>
  <2>1. ConfigInv'
    BY <1>4, SameConfig DEF MasterInv, ConfigInv, configVars
  <2>2. PoolsInv'
    BY <1>4 DEF MasterInv, PoolsInv, balanceVars
  <2>6. ControlInv'
    <3>1. ~scan'.on /\ loading' = loading
      BY <1>1, <1>4 DEF balanceVars, configVars
    <3> QED BY <1>1, <1>4, <3>1 DEF MasterInv, ControlInv
  <2>3. /\ assigned' = assigned /\ id' = id /\ (IsRoundRobin' <=> IsRoundRobin)
        /\ process' # "running" /\ mpc' = "accept"
    BY <1>1, <1>4 DEF IsRoundRobin, balanceVars, configVars
  <2>4. TurnsInv'
    <3>1. IsRoundRobin => SharesAreEven
      BY RoundsAreEven DEF MasterInv, TurnsInv, ScanInv, PoolsInv, ControlInv
    <3>2. SharesAreEven' <=> SharesAreEven
      BY <2>3 DEF SharesAreEven
    <3> QED BY <2>3, <3>1, <3>2 DEF TurnsInv
  <2>5. ~SoundFile
    <3>1. "load-balance" \in Keys
      BY KeyKinds
    <3> QED BY <1>1, <1>4, <3>1, WrittenIsLoaded DEF SoundFile, MasterInv
  <2>7. SoundFileServes'
    BY <1>4, <2>5, SameSoundness DEF SoundFileServes, SoundFile, configVars
  <2> QED BY <2>1, <2>2, <2>4, <2>6, <2>7
<1> QED BY <1>2, <1>3, <1>4 DEF NewConnection

LEMMA ContinueScanKeeps ==
  ASSUME MasterInv, process = "running", ContinueScan
  PROVE  ConfigInv' /\ PoolsInv' /\ ControlInv' /\ TurnsInv' /\ SoundFileServes'
<1>1. /\ mpc = "accept" /\ config["load-balance"] = "min-connection"
      /\ scan \in ScanType /\ scan.on
  BY DEF ContinueScan, Compare, ReadAgain, EndScan, MasterInv, ControlInv, ScanInv
<1>2. PoolSize \in Nat /\ PoolSize > 0 /\ scan.next \in Nat
  BY <1>1, LoadBalanceAssumption DEF ScanType
<1>3. CASE (Compare \/ ReadAgain) /\ UNCHANGED <<configVars, masterVars>>
  <2>1. UNCHANGED <<queued, busy, turn, assigned>>
    BY <1>3 DEF Compare, ReadAgain
  <2>2. scan.next < PoolSize
    <3>1. CASE Compare
      BY <3>1 DEF Compare
    <3>2. CASE ReadAgain
      <4>1. scan.next \in Pool
        BY <3>2 DEF ReadAgain, MasterInv, ScanInv
      <4> QED BY <1>2, <4>1 DEF Pool
    <3> QED BY <1>3, <3>1, <3>2
  <2>3. scan'.next = scan.next \/ scan'.next = scan.next + 1
    BY <1>1, <1>3 DEF Compare, ReadAgain, ScanType
  <2>4. PoolsInv'
    BY <1>2, <2>1, <2>2, <2>3 DEF MasterInv, PoolsInv
  <2> QED BY <1>1, <1>3, <2>1, <2>4, AsideKeeps
<1>4. ASSUME NEW w \in Pool, EndScan(w), Dispatch(w)
      PROVE  ConfigInv' /\ PoolsInv' /\ ControlInv' /\ TurnsInv' /\ SoundFileServes'
  <2>1. ~scan'.on /\ scan'.next <= PoolSize /\ UNCHANGED turn
    BY <1>2, <1>4 DEF EndScan, Idle
  <2> QED BY <1>1, <1>4, <2>1, DispatchKeeps
<1> QED BY <1>3, <1>4 DEF ContinueScan

LEMMA WorkersStepKeeps ==
  ASSUME MasterInv, process = "running", WorkersStep
  PROVE  ConfigInv' /\ PoolsInv' /\ ControlInv' /\ TurnsInv' /\ SoundFileServes'
<1>1. UNCHANGED <<configVars, masterVars>> /\ mpc = "accept"
  BY DEF WorkersStep
<1>2. PICK w \in Pool : TouchPool(w) \/ LeavePool(w)
  BY DEF WorkersStep, WorkersTouchPools
<1>3. turn' = turn /\ assigned' = assigned /\ scan'.on = scan.on /\ scan'.next = scan.next
  BY <1>2 DEF TouchPool, LeavePool, MasterInv, ScanInv, ScanType
<1>4. PoolsInv'
  <2>1. queued \in [Pool -> Nat] /\ busy \subseteq Pool /\ queued[w] \in Nat
    BY DEF MasterInv, PoolsInv
  <2>2. \/ queued' = queued
        \/ queued[w] > 0 /\ queued' = [queued EXCEPT ![w] = @ - 1]
    <3>1. TouchPool(w) => queued' = queued
      BY DEF TouchPool
    <3>2. CASE LeavePool(w)
      BY <3>2 DEF LeavePool
    <3> QED BY <1>2, <3>1, <3>2
  <2>3. queued' \in [Pool -> Nat]
    BY <2>1, <2>2
  <2>4. busy' \subseteq Pool
    <3>1. TouchPool(w) => busy' = busy \cup {w}
      BY DEF TouchPool
    <3>2. LeavePool(w) => busy' = busy \ {w}
      BY DEF LeavePool
    <3> QED BY <1>2, <2>1, <3>1, <3>2
  <2> QED BY <1>3, <2>3, <2>4 DEF MasterInv, PoolsInv
<1> QED BY <1>1, <1>3, <1>4, AsideKeeps DEF MasterInv, ControlInv

LEMMA MasterKept == Spec => []MasterInv
<1>1. Init => MasterInv
  BY InitMaster
<1>2. MasterInv /\ [Next]_vars => MasterInv'
  <2> SUFFICES ASSUME MasterInv, [Next]_vars PROVE MasterInv'
    OBVIOUS
  <2> DEFINE Kept == ConfigInv' /\ PoolsInv' /\ ControlInv' /\ TurnsInv' /\ SoundFileServes'
  <2>1. ScanInv'
    BY StepScan DEF MasterInv
  <2>2. ASSUME UNCHANGED vars PROVE Kept
    <3>1. UNCHANGED <<configVars, masterVars, turn, assigned>> /\ UNCHANGED balanceVars
      BY <2>2 DEF vars, balanceVars
    <3>2. PoolsInv'
      BY <3>1 DEF MasterInv, PoolsInv, balanceVars
    <3>3. scan'.on => mpc = "accept" /\ config["load-balance"] = "min-connection"
      BY <3>1 DEF MasterInv, ControlInv, balanceVars
    <3> QED BY <3>1, <3>2, <3>3, AsideKeeps
  <2>3. ASSUME process = "running", Load PROVE Kept
    BY <2>3, LoadKeeps
  <2>4. ASSUME process = "running", Start PROVE Kept
    BY <2>4, StartKeeps
  <2>5. ASSUME process = "running", NEW ip \in IPs, NewConnection(ip)
        PROVE  Kept
    BY <2>5, NewConnectionKeeps
  <2>6. ASSUME process = "running", ContinueScan PROVE Kept
    BY <2>6, ContinueScanKeeps
  <2>7. ASSUME process = "running", WorkersStep PROVE Kept
    BY <2>7, WorkersStepKeeps
  <2>8. Kept
    BY <2>2, <2>3, <2>4, <2>5, <2>6, <2>7 DEF Next
  <2> QED BY <2>1, <2>8 DEF MasterInv
<1> QED BY <1>1, <1>2, PTL DEF Spec

-----------------------------------------------------------------------------
(* The theorems about the master, for any files, workers and width of int. *)

\* The types of the master and of the rules: among them, that the workers' array of
\* events always has room, whatever max-tcp and max-tcp-per-worker hold
\* (TcpServer::start), and that round-robin's counter stays an int.
THEOREM MasterTypes == Spec => []TypeOK
<1>1. MasterInv => TypeOK
  <2> SUFFICES ASSUME MasterInv PROVE TypeOK
    OBVIOUS
  <2>1. BalanceTypeOK
    <3>1. /\ scan.on \in BOOLEAN /\ scan.again \in BOOLEAN /\ scan.quiet \in BOOLEAN
          /\ scan.next \in Nat /\ scan.index \in Pool /\ scan.connections \in Nat
      BY DEF MasterInv, ScanInv, ScanType
    <3>2. scan.next \in 0..PoolSize
      BY <3>1, LoadBalanceAssumption DEF MasterInv, PoolsInv
    <3> QED BY <3>1, <3>2 DEF BalanceTypeOK, MasterInv, ScanInv, PoolsInv
  <2> QED BY <2>1 DEF TypeOK, MasterInv, ConfigInv, ControlInv
<1> QED BY <1>1, MasterKept, PTL

\* Whatever the order of the lines, the repetitions and the words that are no rule,
\* loadConfig leaves in each member what the last line that counts for it means
\* (tcpServer.cpp:184-336).
THEOREM ConfigurationIsLoaded == Spec => []LoadedAsWritten
<1>1. MasterInv => LoadedAsWritten
  <2> SUFFICES ASSUME ConfigInv, ~loading, NEW key \in Keys
               PROVE  /\ LinesFor(key) = {} => config[key] = NotSet
                      /\ IsWritten(key) => config[key] = Written(key)
    BY DEF LoadedAsWritten, MasterInv
  <2> QED BY LoadedValues, WrittenIsLoaded
<1> QED BY <1>1, MasterKept, PTL

\* A file that sets a rule and sound sizes gives a server whose newConnection neither
\* throws nor fails Buffer's assertion.
THEOREM SoundFilesServe == Spec => []SoundFileServes
<1>1. MasterInv => SoundFileServes
  BY DEF MasterInv
<1> QED BY <1>1, MasterKept, PTL

\* Round-robin gives every worker its share, however often its counter overflows
\* (TcpServer::loadBalanceRoundRobin).
THEOREM SharesStayEven == Spec => []RoundRobinIsEven
<1>1. MasterInv => RoundRobinIsEven
  <2> SUFFICES ASSUME MasterInv, IsRoundRobin PROVE SharesAreEven
    BY DEF RoundRobinIsEven, SharesAreEven, IsRoundRobin
  <2>1. /\ assigned \in [Pool -> Nat] /\ turn \in -IntHalf..IntHalf - 1 /\ id \in Nat
    BY DEF MasterInv, ScanInv, PoolsInv, ControlInv
  <2> QED BY <2>1, RoundsAreEven DEF MasterInv, TurnsInv
<1> QED BY <1>1, MasterKept, PTL
=============================================================================
