----------------------- MODULE TcpServer_safety_proofs -----------------------
(***************************************************************************)
(* Safety of TcpServer, for any number of workers and connections: where a *)
(* connection is, that no worker crashes, when disconnections are          *)
(* reported and connections removed, and that every step is one of the     *)
(* life cycle.  All of it follows from one inductive invariant, Inv.       *)
(***************************************************************************)
EXTENDS TcpServer_proofs

\* The numbers in a queue go up: the master appends them as they are accepted.
Ascending(s) == \A i, j \in 1..Len(s) : i < j => s[i] < s[j]

\* What InOnePlace rests on: the queues hold no connection twice, what was swapped out
\* is older than what is still queued, and is taken over before the next swap.
QueueInv ==
  /\ InOnePlace
  /\ gone \subseteq Accepted
  /\ \A w \in Workers :
       /\ Ascending(temp[w])
       /\ Ascending(incoming[w])
       /\ \A c \in Range(temp[w]), d \in Range(incoming[w]) : c < d
       /\ wpc[w] # "register" => temp[w] = <<>>

\* Every event of a batch is for another connection, which is in the pool, and
\* what it reports is still true when it is handled.
BatchInv ==
  \A w \in Workers :
    /\ interest[w] = pool[w]
    /\ batch[w] # {} => wpc[w] = "event"
    /\ \A e \in batch[w] : e.conn \in pool[w]
    /\ \A e, f \in batch[w] : e.conn = f.conn => e = f
    /\ \A e \in batch[w] : e.in => e.conn \in unread \cup fin \cup rst
    /\ \A e \in batch[w] : e.err => e.conn \in rst

\* A connection that only the server closes was closed by its peer, is reported
\* once, and leaves its pool in the same step.
CloseInv ==
  ~HandlerMayClose =>
    /\ closed \subseteq gone
    /\ closed \subseteq fin \cup rst
    /\ \A c \in Conn : disconnects[c] = IF c \in closed THEN 1 ELSE 0

MemoryInv == ~MemoryMayExceed => ~exceedMem

Inv == TypeOK /\ QueueInv /\ BatchInv /\ CloseInv /\ MemoryInv /\ NoCrash

-----------------------------------------------------------------------------
(* Queues as sets of numbers. *)

LEMMA RangeEmpty == Range(<<>>) = {}
BY DEF Range

LEMMA RangeAppend ==
  ASSUME NEW s \in Seq(Conn), NEW x \in Conn
  PROVE  Range(Append(s, x)) = Range(s) \cup {x}
<1>1. /\ Append(s, x) \in Seq(Conn) /\ Len(Append(s, x)) = Len(s) + 1
      /\ \A i \in 1..Len(s) : Append(s, x)[i] = s[i]
      /\ Append(s, x)[Len(s) + 1] = x
  BY AppendProperties
<1>2. Len(s) \in Nat /\ DOMAIN s = 1..Len(s) /\ DOMAIN Append(s, x) = 1..Len(s) + 1
  BY <1>1, LenProperties
<1>3. 1..Len(s) + 1 = 1..Len(s) \cup {Len(s) + 1}
  BY <1>2
<1> QED BY <1>1, <1>2, <1>3 DEF Range

LEMMA HeadAndTail ==
  ASSUME NEW s \in Seq(Conn), s # <<>>
  PROVE  /\ Head(s) \in Conn /\ Tail(s) \in Seq(Conn)
         /\ Len(s) \in Nat \ {0} /\ Len(Tail(s)) = Len(s) - 1
         /\ Head(s) = s[1]
         /\ \A i \in 1..Len(s) - 1 : Tail(s)[i] = s[i + 1]
BY HeadTailProperties, LenProperties, EmptySeq

LEMMA RangeHeadTail ==
  ASSUME NEW s \in Seq(Conn), s # <<>>
  PROVE  Range(s) = {Head(s)} \cup Range(Tail(s))
<1>1. /\ DOMAIN s = 1..Len(s) /\ DOMAIN Tail(s) = 1..Len(s) - 1
      /\ Len(s) \in Nat \ {0} /\ Head(s) = s[1]
      /\ \A i \in 1..Len(s) - 1 : Tail(s)[i] = s[i + 1]
  BY HeadAndTail, LenProperties
<1>2. ASSUME NEW x \in Range(s) PROVE x \in {Head(s)} \cup Range(Tail(s))
  <2>1. PICK i \in 1..Len(s) : x = s[i]
    BY <1>1, <1>2 DEF Range
  <2>2. CASE i = 1
    BY <1>1, <2>1, <2>2
  <2>3. CASE i # 1
    <3>1. i - 1 \in 1..Len(s) - 1 /\ (i - 1) + 1 = i
      BY <1>1, <2>1, <2>3
    <3>2. Tail(s)[i - 1] = x
      BY <1>1, <2>1, <3>1
    <3> QED BY <1>1, <3>1, <3>2 DEF Range
  <2> QED BY <2>2, <2>3
<1>3. ASSUME NEW x \in Range(Tail(s)) PROVE x \in Range(s)
  <2>1. PICK i \in 1..Len(s) - 1 : x = s[i + 1]
    BY <1>1, <1>3 DEF Range
  <2>2. i + 1 \in 1..Len(s)
    BY <1>1, <2>1
  <2> QED BY <1>1, <2>1, <2>2 DEF Range
<1>4. Head(s) \in Range(s)
  BY <1>1 DEF Range
<1> QED BY <1>2, <1>3, <1>4

LEMMA AscendingAppend ==
  ASSUME NEW s \in Seq(Conn), NEW x \in Conn, Ascending(s), \A y \in Range(s) : y < x
  PROVE  Ascending(Append(s, x))
<1>1. /\ Len(Append(s, x)) = Len(s) + 1 /\ Len(s) \in Nat
      /\ \A i \in 1..Len(s) : Append(s, x)[i] = s[i]
      /\ Append(s, x)[Len(s) + 1] = x
  BY AppendProperties, LenProperties
<1>2. \A i \in 1..Len(s) : s[i] < x
  BY LenProperties DEF Range
<1> SUFFICES ASSUME NEW i \in 1..Len(s) + 1, NEW j \in 1..Len(s) + 1, i < j
             PROVE  Append(s, x)[i] < Append(s, x)[j]
  BY <1>1 DEF Ascending
<1>3. i \in 1..Len(s) /\ (j \in 1..Len(s) \/ j = Len(s) + 1)
  BY <1>1
<1> QED BY <1>1, <1>2, <1>3 DEF Ascending

LEMMA AscendingTail ==
  ASSUME NEW s \in Seq(Conn), s # <<>>, Ascending(s)
  PROVE  Ascending(Tail(s)) /\ Head(s) \notin Range(Tail(s))
<1>1. /\ Len(s) \in Nat \ {0} /\ Len(Tail(s)) = Len(s) - 1
      /\ Head(s) = s[1] /\ Head(s) \in Nat
      /\ \A i \in 1..Len(s) - 1 : Tail(s)[i] = s[i + 1]
      /\ DOMAIN Tail(s) = 1..Len(s) - 1
  BY HeadAndTail, LenProperties DEF Conn
<1>2. ASSUME NEW i \in 1..Len(s) - 1 PROVE Head(s) < Tail(s)[i]
  <2>1. 1 \in 1..Len(s) /\ i + 1 \in 1..Len(s) /\ 1 < i + 1
    BY <1>1
  <2> QED BY <1>1, <2>1 DEF Ascending
<1>3. Ascending(Tail(s))
  <2> SUFFICES ASSUME NEW i \in 1..Len(s) - 1, NEW j \in 1..Len(s) - 1, i < j
               PROVE  Tail(s)[i] < Tail(s)[j]
    BY <1>1 DEF Ascending
  <2>1. i + 1 \in 1..Len(s) /\ j + 1 \in 1..Len(s) /\ i + 1 < j + 1
    BY <1>1
  <2> QED BY <1>1, <2>1 DEF Ascending
<1>4. ASSUME Head(s) \in Range(Tail(s)) PROVE FALSE
  <2>1. PICK i \in 1..Len(s) - 1 : Tail(s)[i] = Head(s)
    BY <1>1, <1>4 DEF Range
  <2>2. Head(s) < Head(s)
    BY <1>2, <2>1
  <2> QED BY <1>1, <2>2
<1> QED BY <1>3, <1>4

-----------------------------------------------------------------------------
(* QueueInv: one lemma for each way in which a connection changes its place. *)

USE KernelAssumption, AcceptorAssumption, WorkerAssumption, TcpServerAssumption

\* The variables QueueInv is about.
placeVars == <<dequeued, aborted, worker, temp, incoming, pool, gone>>

LEMMA PlacesUnchanged ==
  ASSUME QueueInv, UNCHANGED placeVars,
         \A v \in Workers : wpc'[v] # "register" => temp[v] = <<>>
  PROVE  QueueInv'
BY DEF QueueInv, InOnePlace, InQueue, Accepted, placeVars

\* Removing some connections of one pool.
LEMMA RemovalPlaces ==
  ASSUME TypeOK, QueueInv, NEW w \in Workers, NEW S, RemoveConnections(w, S),
         UNCHANGED <<dequeued, aborted, worker, temp, incoming>>,
         \A v \in Workers : wpc'[v] # "register" => temp[v] = <<>>
  PROVE  QueueInv'
<1> DEFINE R == S \cap pool[w]
<1>1. /\ gone' = gone \cup R
      /\ pool'[w] = pool[w] \ R
      /\ \A v \in Workers : v # w => pool'[v] = pool[v]
  BY DEF RemoveConnections, TypeOK
<1>2. \A c \in R : worker[c] = w /\ c \in Conn /\ c \in Accepted /\ c \notin gone
  BY DEF QueueInv, InOnePlace, TypeOK
<1>3. \A c \in R : \A v \in Workers : ~InQueue(v, c)
  BY <1>2 DEF QueueInv, InOnePlace
<1> HIDE DEF R
<1>4. Accepted' = Accepted /\ \A v \in Workers, c \in Conn : InQueue(v, c)' <=> InQueue(v, c)
  BY DEF Accepted, InQueue
<1>5. \A c \in Conn, v \in Workers : c \in pool'[v] => c \in pool[v] /\ c \notin R
  BY <1>1, <1>2 DEF QueueInv, InOnePlace
<1>6. \A c \in Conn, v \in Workers : c \in pool[v] /\ c \notin R => c \in pool'[v]
  BY <1>1
<1>7. (\A c \in Conn, v \in Workers :
         InQueue(v, c) \/ c \in pool[v] => worker[c] = v /\ c \notin gone)'
  BY <1>1, <1>3, <1>4, <1>5 DEF QueueInv, InOnePlace
<1>8. \A c \in Accepted : c \in Conn /\ worker[c] \in Workers
  BY DEF QueueInv, InOnePlace, Accepted, TypeOK, Conn
<1>9. (\A c \in Accepted : LET v == worker[c] IN
         c \notin gone => (InQueue(v, c) <=> c \notin pool[v]))'
  BY <1>1, <1>4, <1>5, <1>6, <1>8 DEF QueueInv, InOnePlace
<1>10. InOnePlace'
  BY <1>4, <1>7, <1>9 DEF QueueInv, InOnePlace
<1>11. (gone \subseteq Accepted)'
  BY <1>1, <1>2, <1>4 DEF QueueInv
<1> QED BY <1>10, <1>11 DEF QueueInv

\* A new connection is queued with a worker.
LEMMA NewConnectionPlaces ==
  ASSUME TypeOK, QueueInv, NewConnection
  PROVE  QueueInv'
<1>1. PICK w \in Workers : Accept /\ RegisterNewConnection(w, dequeued')
                           /\ worker' = [worker EXCEPT ![dequeued'] = w]
  BY DEF NewConnection
<1> DEFINE n == dequeued + 1
<1>2. /\ n \in Conn /\ dequeued' = n /\ dequeued \in Nat
      /\ aborted' = aborted /\ n \notin aborted /\ aborted \subseteq 1..dequeued
  BY <1>1 DEF Accept, Pending, TypeOK, Conn
<1>3. Accepted' = Accepted \cup {n} /\ n \notin Accepted /\ \A c \in Accepted : c < n
  BY <1>2 DEF Accepted
<1>4. /\ UNCHANGED <<temp, pool, gone, wpc>>
      /\ incoming' = [incoming EXCEPT ![w] = Append(@, n)]
      /\ worker' = [worker EXCEPT ![n] = w]
  BY <1>1, <1>2 DEF RegisterNewConnection
<1> HIDE DEF n
<1>5. /\ worker'[n] = w
      /\ \A c \in Conn : c # n => worker'[c] = worker[c]
  BY <1>2, <1>4 DEF TypeOK
<1>6. incoming[w] \in Seq(Conn) /\ incoming'[w] = Append(incoming[w], n)
      /\ \A v \in Workers : v # w => incoming'[v] = incoming[v]
  BY <1>4 DEF TypeOK
<1>7. Range(incoming'[w]) = Range(incoming[w]) \cup {n}
  BY <1>2, <1>6, RangeAppend
<1>8. \A v \in Workers, c \in Conn :
        InQueue(v, c)' <=> InQueue(v, c) \/ (c = n /\ v = w)
  BY <1>4, <1>6, <1>7 DEF InQueue
<1>9. worker[n] = NoWorker /\ n \notin gone
  BY <1>2, <1>3 DEF QueueInv, InOnePlace, TypeOK
<1>10. \A v \in Workers : ~InQueue(v, n) /\ n \notin pool[v]
  BY <1>2, <1>9 DEF QueueInv, InOnePlace
<1>11. \A v \in Workers : \A c \in Range(temp[v]) \cup Range(incoming[v]) :
         c \in Conn /\ c \in Accepted
  <2> SUFFICES ASSUME NEW v \in Workers, NEW c \in Range(temp[v]) \cup Range(incoming[v])
               PROVE  c \in Conn /\ c \in Accepted
    OBVIOUS
  <2>1. temp[v] \in Seq(Conn) /\ incoming[v] \in Seq(Conn)
    BY DEF TypeOK
  <2>2. Range(temp[v]) \subseteq Conn /\ Range(incoming[v]) \subseteq Conn
    BY <2>1, LenProperties, ElementOfSeq DEF Range
  <2>3. c \in Conn /\ InQueue(v, c)
    BY <2>2 DEF InQueue
  <2>4. worker[c] = v
    BY <2>3 DEF QueueInv, InOnePlace
  <2> QED BY <2>3, <2>4 DEF QueueInv, InOnePlace
<1>12. (\A c \in Conn : worker[c] # NoWorker <=> c \in Accepted)'
  BY <1>3, <1>5, <1>2 DEF QueueInv, InOnePlace
<1>13. (\A c \in Conn, v \in Workers :
         InQueue(v, c) \/ c \in pool[v] => worker[c] = v /\ c \notin gone)'
  BY <1>4, <1>5, <1>8, <1>9, <1>10 DEF QueueInv, InOnePlace
<1>14. \A c \in Accepted : c \in Conn /\ worker[c] \in Workers /\ c # n
  BY <1>3 DEF QueueInv, InOnePlace, Accepted, TypeOK, Conn
<1>15. (\A c \in Accepted : LET v == worker[c] IN
         c \notin gone => (InQueue(v, c) <=> c \notin pool[v]))'
  BY <1>2, <1>3, <1>4, <1>5, <1>8, <1>10, <1>14 DEF QueueInv, InOnePlace
<1>16. (\A v \in Workers : Range(temp[v]) \cap Range(incoming[v]) = {})'
  <2>1. n \notin Range(temp[w])
    BY <1>10 DEF InQueue
  <2>2. \A v \in Workers : Range(temp[v]) \cap Range(incoming[v]) = {}
    BY DEF QueueInv, InOnePlace
  <2> QED BY <1>4, <1>6, <1>7, <2>1, <2>2
<1>17. Ascending(incoming'[w])
  BY <1>2, <1>3, <1>6, <1>11, AscendingAppend DEF QueueInv
<1>18. \A v \in Workers : Ascending(incoming'[v])
  BY <1>6, <1>17 DEF QueueInv
<1>19. \A v \in Workers : \A c \in Range(temp'[v]), d \in Range(incoming'[v]) : c < d
  BY <1>3, <1>4, <1>6, <1>7, <1>11 DEF QueueInv
<1> QED BY <1>3, <1>4, <1>12, <1>13, <1>15, <1>16, <1>18, <1>19 DEF QueueInv, InOnePlace

\* accept reports an error: one more peer is dequeued, but not accepted.
LEMMA TransientErrorPlaces ==
  ASSUME TypeOK, QueueInv, AcceptTransientError, UNCHANGED <<workerVars, worker>>
  PROVE  QueueInv'
<1>1. /\ dequeued' = dequeued + 1 /\ dequeued \in Nat
      /\ aborted' = aborted \cup {dequeued + 1} /\ aborted \subseteq 1..dequeued
  BY DEF AcceptTransientError, TypeOK
<1>2. Accepted' = Accepted
  BY <1>1 DEF Accepted
<1>3. UNCHANGED <<worker, temp, incoming, pool, gone, wpc>>
  BY DEF workerVars
<1> QED BY <1>2, <1>3 DEF QueueInv, InOnePlace, InQueue

\* A worker swaps its queue out.
LEMMA SwapPlaces ==
  ASSUME TypeOK, QueueInv, NEW w \in Workers, SwapIncoming(w),
         UNCHANGED <<acceptorVars, worker>>
  PROVE  QueueInv'
<1>1. /\ UNCHANGED <<dequeued, aborted, worker, pool, gone>>
      /\ temp' = [temp EXCEPT ![w] = incoming[w]]
      /\ incoming' = [incoming EXCEPT ![w] = <<>>]
      /\ wpc[w] = "event" /\ wpc' = [wpc EXCEPT ![w] = "register"]
  BY DEF SwapIncoming, At, acceptorVars
<1>2. /\ temp[w] = <<>> /\ temp'[w] = incoming[w] /\ incoming'[w] = <<>>
      /\ \A v \in Workers : v # w => temp'[v] = temp[v] /\ incoming'[v] = incoming[v]
  BY <1>1 DEF QueueInv, TypeOK
<1>3. \A v \in Workers, c \in Conn : InQueue(v, c)' <=> InQueue(v, c)
  BY <1>2, RangeEmpty DEF InQueue
<1>4. Accepted' = Accepted
  BY <1>1 DEF Accepted
<1>5. (\A v \in Workers : Range(temp[v]) \cap Range(incoming[v]) = {})'
  BY <1>2, RangeEmpty DEF QueueInv, InOnePlace
<1>6. \A c \in Accepted : c \in Conn /\ worker[c] \in Workers
  BY DEF QueueInv, InOnePlace, Accepted, TypeOK, Conn
<1>7. InOnePlace'
  BY <1>1, <1>3, <1>4, <1>5, <1>6 DEF QueueInv, InOnePlace
<1>8. Ascending(<<>>)
  BY DEF Ascending
<1>9. \A v \in Workers : /\ Ascending(temp'[v]) /\ Ascending(incoming'[v])
                         /\ wpc'[v] # "register" => temp'[v] = <<>>
  BY <1>1, <1>2, <1>8 DEF QueueInv, TypeOK
<1>10. \A v \in Workers : \A c \in Range(temp'[v]), d \in Range(incoming'[v]) : c < d
  BY <1>2, RangeEmpty DEF QueueInv
<1> QED BY <1>1, <1>4, <1>7, <1>9, <1>10 DEF QueueInv

\* A worker moves the first connection of its swapped queue into its pool.
LEMMA RegistrationPlaces ==
  ASSUME TypeOK, QueueInv, NEW w \in Workers, temp[w] # <<>>, wpc[w] = "register",
         UNCHANGED <<dequeued, aborted, worker, incoming, gone, wpc>>,
         temp' = [temp EXCEPT ![w] = Tail(@)],
         pool' = [pool EXCEPT ![w] = @ \cup {Head(temp[w])}]
  PROVE  QueueInv'
<1> DEFINE c == Head(temp[w])
<1>1. /\ temp[w] \in Seq(Conn) /\ temp'[w] = Tail(temp[w])
      /\ \A v \in Workers : v # w => temp'[v] = temp[v] /\ pool'[v] = pool[v]
      /\ pool'[w] = pool[w] \cup {c}
  BY DEF TypeOK
<1>2. /\ c \in Conn /\ Range(temp[w]) = {c} \cup Range(temp'[w])
      /\ Ascending(temp'[w]) /\ c \notin Range(temp'[w])
  BY <1>1, HeadAndTail, RangeHeadTail, AscendingTail DEF QueueInv
<1> HIDE DEF c
<1>3. InQueue(w, c) /\ worker[c] = w /\ c \notin gone
  BY <1>2 DEF InQueue, QueueInv, InOnePlace
<1>4. c \notin Range(incoming[w])
  BY <1>2 DEF QueueInv, InOnePlace
<1>5. \A v \in Workers, d \in Conn :
        InQueue(v, d)' <=> InQueue(v, d) /\ ~(v = w /\ d = c)
  BY <1>1, <1>2, <1>4 DEF InQueue
<1>6. Accepted' = Accepted
  BY DEF Accepted
<1>7. (\A v \in Workers : Range(temp[v]) \cap Range(incoming[v]) = {})'
  BY <1>1, <1>2 DEF QueueInv, InOnePlace
<1>8. \A d \in Accepted : d \in Conn /\ worker[d] \in Workers
  BY DEF QueueInv, InOnePlace, Accepted, TypeOK, Conn
<1>9. (\A d \in Conn, v \in Workers :
         InQueue(v, d) \/ d \in pool[v] => worker[d] = v /\ d \notin gone)'
  BY <1>1, <1>3, <1>5 DEF QueueInv, InOnePlace
<1>10. (\A d \in Accepted : LET v == worker[d] IN
          d \notin gone => (InQueue(v, d) <=> d \notin pool[v]))'
  BY <1>1, <1>3, <1>5, <1>6, <1>8 DEF QueueInv, InOnePlace
<1>11. InOnePlace'
  BY <1>6, <1>7, <1>9, <1>10 DEF QueueInv, InOnePlace
<1>12. \A v \in Workers : /\ Ascending(temp'[v])
                          /\ wpc[v] # "register" => temp'[v] = <<>>
  BY <1>1, <1>2 DEF QueueInv
<1>13. \A v \in Workers : \A d \in Range(temp'[v]), e \in Range(incoming[v]) : d < e
  BY <1>1, <1>2 DEF QueueInv
<1> QED BY <1>6, <1>11, <1>12, <1>13 DEF QueueInv

LEMMA WorkerPlaces ==
  ASSUME TypeOK, QueueInv, NEW w \in Workers, WorkersStep(w)
  PROVE  QueueInv'
<1> USE DEF WorkersStep, acceptorVars
<1>1. ASSUME Poll(w) PROVE QueueInv'
  <2>1. \A v \in Workers : wpc'[v] # "register" => temp[v] = <<>>
    BY <1>1 DEF Poll, At, QueueInv, TypeOK
  <2> QED BY <1>1, <2>1, PlacesUnchanged DEF Poll, placeVars
<1>2. ASSUME HandleEvent(w) PROVE QueueInv'
  <2>1. \A v \in Workers : wpc'[v] # "register" => temp[v] = <<>>
    BY <1>2 DEF HandleEvent, At, QueueInv, TypeOK
  <2>2. UNCHANGED <<dequeued, aborted, worker, temp, incoming>>
    BY <1>2 DEF HandleEvent
  <2>3. PICK e \in batch[w] : Crash \/ RemoveConnections(w, Dropped(e, closed'))
    BY <1>2, Zenon DEF HandleEvent
  <2>4. CASE Crash
    BY <2>1, <2>2, <2>4, PlacesUnchanged DEF Crash, placeVars
  <2>5. CASE RemoveConnections(w, Dropped(e, closed'))
    BY <2>1, <2>2, <2>5, RemovalPlaces
  <2> QED BY <2>3, <2>4, <2>5
<1>3. ASSUME SwapIncoming(w) PROVE QueueInv'
  BY <1>3, SwapPlaces
<1>4. ASSUME RegisterOne(w) PROVE QueueInv'
  <2>1. wpc[w] = "register" /\ wpc' = wpc /\ temp[w] # <<>>
    BY <1>4 DEF RegisterOne, At, TypeOK
  <2>2. UNCHANGED <<dequeued, aborted, worker, incoming>>
    BY <1>4 DEF RegisterOne
  <2>3. CASE Crash /\ temp' = temp
    BY <2>1, <2>2, <2>3, PlacesUnchanged DEF Crash, placeVars, QueueInv
  <2>4. CASE /\ temp' = [temp EXCEPT ![w] = Tail(@)]
             /\ pool' = [pool EXCEPT ![w] = @ \cup {Head(temp[w])}]
             /\ gone' = gone
    BY <2>1, <2>2, <2>4, RegistrationPlaces
  <2> QED BY <1>4, <2>3, <2>4 DEF RegisterOne
<1>5. ASSUME ManageInactive(w) \/ CheckLimits(w) PROVE QueueInv'
  <2>1. Drops(w)
    BY <1>5, ManageInactiveDrops, CheckLimitsDrops
  <2>2. \A v \in Workers : wpc'[v] # "register" => temp[v] = <<>>
    BY <1>5 DEF ManageInactive, CheckLimits, At, QueueInv, TypeOK
  <2>3. UNCHANGED <<dequeued, aborted, worker, temp, incoming>>
    BY <1>5 DEF ManageInactive, CheckLimits
  <2>4. CASE Crash
    BY <2>2, <2>3, <2>4, PlacesUnchanged DEF Crash, placeVars
  <2>5. ASSUME NEW S, RemoveConnections(w, S) PROVE QueueInv'
    BY <2>2, <2>3, <2>5, RemovalPlaces
  <2> QED BY <2>1, <2>4, <2>5 DEF Drops
<1> QED BY <1>1, <1>2, <1>3, <1>4, <1>5 DEF WorkerStep

LEMMA NextPlaces ==
  ASSUME TypeOK, QueueInv, [Next]_vars
  PROVE  QueueInv'
<1>1. ASSUME UNCHANGED <<placeVars, wpc>> PROVE QueueInv'
  BY <1>1, PlacesUnchanged DEF QueueInv
<1>2. CASE MasterStep
  <2>1. CASE ServerCron
    BY <1>1, <2>1 DEF ServerCron, CronDone, placeVars
  <2>2. CASE UNCHANGED <<workerVars, worker>>
            /\ (WaitForListener \/ AcceptDrained \/ AcceptOutOfDescriptors)
    BY <1>1, <2>2 DEF WaitForListener, AcceptDrained, AcceptOutOfDescriptors, acceptorVars,
                      workerVars, placeVars
  <2> QED BY <1>2, <2>1, <2>2, NewConnectionPlaces, TransientErrorPlaces DEF MasterStep
<1>3. ASSUME NEW w \in Workers, WorkersStep(w) PROVE QueueInv'
  BY <1>3, WorkerPlaces
<1>4. CASE PeersStep
  BY <1>1, <1>4 DEF PeersStep, acceptorVars, workerVars, placeVars
<1>5. CASE UNCHANGED vars
  BY <1>1, <1>5 DEF vars, acceptorVars, workerVars, placeVars
<1> QED BY <1>2, <1>3, <1>4, <1>5 DEF Next

LEMMA InitPlaces == Init => QueueInv
<1> SUFFICES ASSUME Init PROVE QueueInv
  OBVIOUS
<1> USE DEF Init, KernelInit, AcceptorInit, WorkerInit
<1>1. Accepted = {} /\ Ascending(<<>>)
  BY DEF Accepted, Ascending
<1>2. \A w \in Workers, c \in Conn : ~InQueue(w, c) /\ c \notin pool[w]
  BY RangeEmpty DEF InQueue
<1>3. \A c \in Conn : worker[c] = NoWorker
  OBVIOUS
<1>4. InOnePlace
  BY <1>1, <1>2, <1>3, RangeEmpty DEF InOnePlace
<1> QED BY <1>1, <1>4, RangeEmpty DEF QueueInv

\* From newConnection on, every connection is in exactly one place, with the one
\* worker it was built for, whatever the rules, callbacks and peers do.
THEOREM ConnectionsAreInOnePlace == Spec => []InOnePlace
<1>1. TypeOK /\ QueueInv /\ [Next]_vars => QueueInv'
  BY NextPlaces
<1>2. QueueInv => InOnePlace
  BY DEF QueueInv
<1> QED BY TypeCorrect, InitPlaces, <1>1, <1>2, PTL DEF Spec

-----------------------------------------------------------------------------
(* BatchInv. *)

\* Nothing that BatchInv is about shrinks, except for the batches themselves.
LEMMA BatchKept ==
  ASSUME BatchInv, UNCHANGED <<interest, pool, wpc, batch>>,
         unread \cup fin \cup rst \subseteq unread' \cup fin' \cup rst', rst \subseteq rst'
  PROVE  BatchInv'
BY DEF BatchInv

LEMMA PollBatch ==
  ASSUME TypeOK, BatchInv, NEW w \in Workers, Poll(w)
  PROVE  BatchInv'
<1>1. PICK S \in SUBSET interest[w] :
        /\ EpollWait(w, MaxEvents, S)
        /\ batch' = [batch EXCEPT ![w] = {EventOf(c) : c \in S}]
  BY DEF Poll
<1>2. UNCHANGED <<interest, pool, unread, fin, rst>>
  BY <1>1 DEF Poll, EpollWait, peerVars
<1>3. wpc'[w] = "event" /\ \A v \in Workers : v # w => wpc'[v] = wpc[v]
  BY DEF Poll, At, TypeOK
<1>4. batch'[w] = {EventOf(c) : c \in S} /\ \A v \in Workers : v # w => batch'[v] = batch[v]
  BY <1>1 DEF TypeOK
<1>5. \A c : /\ EventOf(c).conn = c /\ EventOf(c).in = (c \in unread \cup fin \cup rst)
            /\ EventOf(c).err = (c \in rst)
  BY Zenon DEF EventOf
<1>6. \A e \in batch'[w] : /\ e.conn \in S
                           /\ e = EventOf(e.conn)
                           /\ e.in => e.conn \in unread \cup fin \cup rst
                           /\ e.err => e.conn \in rst
  <2> SUFFICES ASSUME NEW e \in batch'[w]
               PROVE  /\ e.conn \in S
                      /\ e = EventOf(e.conn)
                      /\ e.in => e.conn \in unread \cup fin \cup rst
                      /\ e.err => e.conn \in rst
    OBVIOUS
  <2>1. PICK c \in S : e = EventOf(c)
    BY <1>4, Zenon
  <2>2. e.conn = c /\ (e.in => c \in unread \cup fin \cup rst) /\ (e.err => c \in rst)
    BY <1>5, <2>1, Zenon
  <2> QED BY <2>1, <2>2
<1>7. S \subseteq pool[w]
  BY DEF BatchInv
<1> QED BY <1>2, <1>3, <1>4, <1>6, <1>7 DEF BatchInv

\* Removing connections of which no event is left.
LEMMA RemovalBatch ==
  ASSUME TypeOK, BatchInv, NEW w \in Workers, NEW S, RemoveConnections(w, S),
         \A v \in Workers : batch'[v] \subseteq batch[v] /\ (batch'[v] # {} => wpc'[v] = "event"),
         \A e \in batch'[w] : e.conn \notin S,
         \A v \in Workers : \A e \in batch'[v] :
           e.conn \in unread \cup fin \cup rst => e.conn \in unread' \cup fin' \cup rst',
         rst' = rst
  PROVE  BatchInv'
<1>1. /\ interest'[w] = interest[w] \ S /\ pool'[w] = pool[w] \ S
      /\ \A v \in Workers : v # w => interest'[v] = interest[v] /\ pool'[v] = pool[v]
  BY DEF RemoveConnections, EpollDel, TypeOK
<1> QED BY <1>1 DEF BatchInv

LEMMA HandleEventBatch ==
  ASSUME TypeOK, QueueInv, BatchInv, NEW w \in Workers, HandleEvent(w)
  PROVE  BatchInv'
<1>1. PICK e \in batch[w] :
        /\ batch' = [batch EXCEPT ![w] = @ \ {e}]
        /\ unread' = unread \/ unread' = unread \ {e.conn}
        /\ Crash \/ RemoveConnections(w, Dropped(e, closed'))
  BY Zenon DEF HandleEvent
<1>2. /\ UNCHANGED <<fin, rst>>
      /\ wpc[w] = "event" /\ \A v \in Workers : wpc'[v] = wpc[v]
  BY DEF HandleEvent, At, TypeOK
<1>3. /\ batch'[w] = batch[w] \ {e}
      /\ \A v \in Workers : v # w => batch'[v] = batch[v]
  BY <1>1 DEF TypeOK
<1>4. \A f \in batch'[w] : f.conn # e.conn
  BY <1>3 DEF BatchInv
<1>5. \A v \in Workers : \A f \in batch'[v] : f.conn # e.conn
  <2> SUFFICES ASSUME NEW v \in Workers, v # w, NEW f \in batch[v] PROVE f.conn # e.conn
    BY <1>3, <1>4
  <2>1. f.conn \in pool[v] /\ e.conn \in pool[w]
    BY DEF BatchInv
  <2>2. worker[f.conn] = v /\ (e.conn \in Conn => worker[e.conn] = w)
    BY <2>1 DEF QueueInv, InOnePlace, TypeOK
  <2>3. e.conn \in Conn
    BY <2>1 DEF TypeOK
  <2> QED BY <2>2, <2>3
<1>6. \A v \in Workers : batch'[v] \subseteq batch[v] /\ (batch'[v] # {} => wpc'[v] = "event")
  BY <1>2, <1>3 DEF BatchInv
<1>7. \A v \in Workers : \A f \in batch'[v] :
        f.conn \in unread \cup fin \cup rst => f.conn \in unread' \cup fin' \cup rst'
  BY <1>1, <1>2, <1>5
<1>8. CASE Crash
  BY <1>2, <1>6, <1>7, <1>8 DEF Crash, epollVars, BatchInv
<1>9. CASE RemoveConnections(w, Dropped(e, closed'))
  <2>1. \A f \in batch'[w] : f.conn \notin Dropped(e, closed')
    BY <1>4 DEF Dropped
  <2> QED BY <1>2, <1>6, <1>7, <1>9, <2>1, RemovalBatch
<1> QED BY <1>1, <1>8, <1>9

LEMMA WorkerBatch ==
  ASSUME TypeOK, QueueInv, BatchInv, NEW w \in Workers, WorkersStep(w)
  PROVE  BatchInv'
<1> USE DEF WorkersStep
<1>1. ASSUME SwapIncoming(w) PROVE BatchInv'
  BY <1>1 DEF SwapIncoming, At, kernelVars, peerVars, epollVars, TypeOK, BatchInv
<1>2. ASSUME RegisterOne(w) PROVE BatchInv'
  <2>1. UNCHANGED <<batch, unread, fin, rst>> /\ \A v \in Workers : wpc'[v] = wpc[v]
    BY <1>2 DEF RegisterOne, At, peerVars, TypeOK
  <2>2. CASE Crash
    BY <2>1, <2>2 DEF Crash, epollVars, BatchInv
  <2>3. CASE /\ EpollAdd(w, Head(temp[w]))
             /\ pool' = [pool EXCEPT ![w] = @ \cup {Head(temp[w])}]
    <3>1. /\ interest'[w] = interest[w] \cup {Head(temp[w])}
          /\ pool'[w] = pool[w] \cup {Head(temp[w])}
          /\ \A v \in Workers : v # w => interest'[v] = interest[v] /\ pool'[v] = pool[v]
      BY <2>3 DEF EpollAdd, TypeOK
    <3> QED BY <2>1, <3>1 DEF BatchInv
  <2> QED BY <1>2, <2>2, <2>3 DEF RegisterOne
<1>3. ASSUME ManageInactive(w) \/ CheckLimits(w) PROVE BatchInv'
  <2>1. Drops(w) /\ UNCHANGED <<batch, unread, fin, rst>>
    BY <1>3, ManageInactiveDrops, CheckLimitsDrops DEF ManageInactive, CheckLimits, peerVars
  <2>2. batch[w] = {} /\ \A v \in Workers : v # w => wpc'[v] = wpc[v]
    BY <1>3 DEF ManageInactive, CheckLimits, At, TypeOK, BatchInv
  <2>3. CASE Crash
    BY <2>1, <2>2, <2>3 DEF Crash, epollVars, BatchInv
  <2>4. ASSUME NEW S, RemoveConnections(w, S) PROVE BatchInv'
    <3>1. \A v \in Workers : batch[v] # {} => wpc'[v] = "event"
      BY <2>2 DEF BatchInv
    <3> QED BY <2>1, <2>2, <2>4, <3>1, RemovalBatch
  <2> QED BY <2>1, <2>3, <2>4 DEF Drops
<1> QED BY <1>1, <1>2, <1>3, PollBatch, HandleEventBatch DEF WorkerStep

LEMMA NextBatch ==
  ASSUME TypeOK, QueueInv, BatchInv, [Next]_vars
  PROVE  BatchInv'
<1> USE DEF kernelVars, acceptorVars, workerVars, peerVars, epollVars
<1>1. CASE MasterStep
  BY <1>1, BatchKept
     DEF MasterStep, NewConnection, Accept, RegisterNewConnection, ServerCron, CronDone,
         WaitForListener, AcceptDrained, AcceptTransientError, AcceptOutOfDescriptors
<1>2. CASE PeersStep
  BY <1>2, BatchKept DEF PeersStep, Environment, Connect, Send, Finish, Reset, Tick, Wake
<1>3. CASE UNCHANGED vars
  BY <1>3, BatchKept DEF vars
<1> QED BY <1>1, <1>2, <1>3, WorkerBatch DEF Next

LEMMA InitBatch == Init => BatchInv
BY DEF Init, KernelInit, WorkerInit, BatchInv

-----------------------------------------------------------------------------
(* CloseInv. *)

\* The peers never take back a close or a reset, and nothing leaves "gone".
LEMMA CloseKept ==
  ASSUME CloseInv, UNCHANGED <<closed, disconnects>>,
         gone \subseteq gone', fin \subseteq fin', rst \subseteq rst'
  PROVE  CloseInv'
BY DEF CloseInv

LEMMA HandleEventClose ==
  ASSUME TypeOK, QueueInv, BatchInv, CloseInv, NEW w \in Workers, HandleEvent(w)
  PROVE  CloseInv'
<1> SUFFICES ASSUME ~HandlerMayClose PROVE CloseInv'
  BY DEF CloseInv
<1>1. PICK e \in batch[w], handlerCloses \in HandlerCloses :
        \/ Crash /\ UNCHANGED objectVars
        \/ /\ e.conn \in pool[w]
           /\ OnDisconnection(e.conn,
                \/ Readable(e) /\ e.conn \notin unread
                \/ (Readable(e) /\ e.conn \in unread) /\ handlerCloses)
           /\ RemoveConnections(w, Dropped(e, closed'))
  BY Zenon DEF HandleEvent
<1>2. UNCHANGED <<fin, rst>>
  BY DEF HandleEvent
<1>3. handlerCloses = FALSE
  BY DEF HandlerCloses
<1>4. CASE Crash /\ UNCHANGED objectVars
  BY <1>2, <1>4, CloseKept DEF Crash, objectVars
<1>5. CASE /\ e.conn \in pool[w]
           /\ OnDisconnection(e.conn, Readable(e) /\ e.conn \notin unread)
           /\ RemoveConnections(w, Dropped(e, closed'))
  <2> DEFINE c == e.conn
  <2>1. gone' = gone \cup (Dropped(e, closed') \cap pool[w])
    BY <1>5 DEF RemoveConnections
  <2>2. c \in Conn /\ c \notin gone /\ c \notin closed /\ disconnects[c] = 0
    BY <1>5 DEF QueueInv, InOnePlace, CloseInv, TypeOK
  <2>3. CASE Readable(e) /\ c \notin unread
    <3>1. closed' = closed \cup {c} /\ disconnects' = [disconnects EXCEPT ![c] = @ + 1]
      BY <1>5, <2>3 DEF OnDisconnection
    <3>2. c \in fin \cup rst
      BY <2>3 DEF BatchInv, Readable
    <3>3. c \in gone'
      BY <1>5, <2>1, <3>1 DEF Dropped
    <3>4. /\ disconnects'[c] = 1
          /\ \A d \in Conn : d # c => disconnects'[d] = disconnects[d]
      BY <2>2, <3>1 DEF TypeOK
    <3> QED BY <1>2, <2>1, <3>1, <3>2, <3>3, <3>4 DEF CloseInv
  <2>4. CASE ~(Readable(e) /\ c \notin unread)
    <3>1. UNCHANGED <<closed, disconnects>>
      BY <1>5, <2>4 DEF OnDisconnection
    <3> QED BY <1>2, <2>1, <3>1, CloseKept
  <2> QED BY <2>3, <2>4
<1> QED BY <1>1, <1>3, <1>4, <1>5

LEMMA WorkerClose ==
  ASSUME TypeOK, QueueInv, BatchInv, CloseInv, NEW w \in Workers, WorkersStep(w)
  PROVE  CloseInv'
<1> USE DEF WorkersStep
<1>1. ASSUME Poll(w) \/ SwapIncoming(w) PROVE CloseInv'
  BY <1>1, CloseKept DEF Poll, SwapIncoming, objectVars, kernelVars, peerVars
<1>2. ASSUME RegisterOne(w) PROVE CloseInv'
  <2> SUFFICES ASSUME ~HandlerMayClose PROVE CloseInv'
    BY DEF CloseInv
  <2>1. UNCHANGED <<closed, disconnects>>
    BY <1>2 DEF RegisterOne, HandlerCloses, OnDisconnection
  <2>2. UNCHANGED <<gone, fin, rst>>
    BY <1>2 DEF RegisterOne, Crash, peerVars
  <2> QED BY <2>1, <2>2, CloseKept
<1>3. ASSUME ManageInactive(w) \/ CheckLimits(w) PROVE CloseInv'
  <2>1. Drops(w) /\ UNCHANGED <<closed, disconnects, fin, rst>>
    BY <1>3, ManageInactiveDrops, CheckLimitsDrops
       DEF ManageInactive, CheckLimits, objectVars, peerVars
  <2>2. gone \subseteq gone'
    BY <2>1 DEF Drops, RemoveConnections, Crash
  <2> QED BY <2>1, <2>2, CloseKept
<1> QED BY <1>1, <1>2, <1>3, HandleEventClose DEF WorkerStep

LEMMA NextClose ==
  ASSUME TypeOK, QueueInv, BatchInv, CloseInv, [Next]_vars
  PROVE  CloseInv'
<1> USE DEF kernelVars, acceptorVars, workerVars, objectVars, peerVars
<1>1. CASE MasterStep
  BY <1>1, CloseKept
     DEF MasterStep, NewConnection, Accept, RegisterNewConnection, ServerCron, CronDone,
         WaitForListener, AcceptDrained, AcceptTransientError, AcceptOutOfDescriptors
<1>2. CASE PeersStep
  BY <1>2, CloseKept DEF PeersStep, Environment, Connect, Send, Finish, Reset, Tick
<1>3. CASE UNCHANGED vars
  BY <1>3, CloseKept DEF vars
<1> QED BY <1>1, <1>2, <1>3, WorkerClose DEF Next

LEMMA InitClose == Init => CloseInv
BY DEF Init, KernelInit, WorkerInit, CloseInv

-----------------------------------------------------------------------------
(* No crash. *)

LEMMA NextMemory ==
  ASSUME MemoryInv, [Next]_vars
  PROVE  MemoryInv'
<1> SUFFICES ASSUME ~MemoryMayExceed, ~exceedMem PROVE exceedMem' = FALSE \/ exceedMem' = exceedMem
  BY DEF MemoryInv
<1>1. CASE MasterStep
  BY <1>1 DEF MasterStep, NewConnection, RegisterNewConnection, ServerCron, workerVars
<1>2. ASSUME NEW w \in Workers, WorkersStep(w)
      PROVE  exceedMem' = exceedMem
  BY <1>2 DEF WorkersStep, WorkerStep, Poll, HandleEvent, SwapIncoming, RegisterOne,
              ManageInactive, CheckLimits
<1>3. CASE PeersStep \/ UNCHANGED vars
  BY <1>3 DEF PeersStep, vars, workerVars
<1> QED BY <1>1, <1>2, <1>3 DEF Next

\* The victim of evictRandomN is not a connection it removed just before, when no
\* connection of the pool is closed.
LEMMA EvictionFindsVictim ==
  ASSUME NEW w \in Workers, NEW n, NEW force \in BOOLEAN, EvictRandomN(w, n, force),
         pool[w] \cap closed = {}
  PROVE  process' = process
<1>1. CASE n = 0 \/ pool[w] = {}
  BY <1>1 DEF EvictRandomN, RemoveConnections
<1>2. CASE ~(n = 0 \/ pool[w] = {})
  <2>1. PICK drawn \in SUBSET pool[w] \ {{}} :
          LET shut == drawn \cap closed IN
          \/ RemoveConnections(w, shut)
          \/ \E victim \in drawn : IF victim \in shut
                                   THEN Crash
                                   ELSE RemoveConnections(w, shut \cup {victim})
    BY <1>2, Zenon DEF EvictRandomN
  <2>2. drawn \cap closed = {}
    OBVIOUS
  <2> QED BY <2>1, <2>2 DEF RemoveConnections
<1> QED BY <1>1, <1>2

LEMMA WorkerNoCrash ==
  ASSUME TypeOK, QueueInv, BatchInv, CloseInv, MemoryInv, SafeConfiguration,
         NEW w \in Workers, WorkersStep(w)
  PROVE  process' = process
<1> USE DEF WorkersStep
<1>1. Callbacks = {"connection", "message", "disconnection"}
  BY DEF SafeConfiguration
<1>2. ~HandlerMayClose => pool[w] \cap closed = {}
  BY DEF CloseInv, QueueInv, InOnePlace, TypeOK
<1>3. ASSUME Poll(w) \/ SwapIncoming(w) PROVE process' = process
  BY <1>3 DEF Poll, SwapIncoming, kernelVars
<1>4. ASSUME HandleEvent(w) PROVE process' = process
  <2>1. PICK e \in batch[w] :
          \/ e.conn \notin pool[w] \/ "message" \notin Callbacks \/ "disconnection" \notin Callbacks
          \/ RemoveConnections(w, Dropped(e, closed'))
    BY <1>4, Zenon DEF HandleEvent
  <2> QED BY <1>1, <2>1 DEF BatchInv, RemoveConnections
<1>5. ASSUME RegisterOne(w) PROVE process' = process
  BY <1>1, <1>5 DEF RegisterOne
<1>6. ASSUME ManageInactive(w) PROVE process' = process
  <2>1. CASE InactiveRule = "none"
    BY <1>6, <2>1 DEF ManageInactive, RemoveConnections
  <2>2. CASE InactiveRule # "none"
    BY <1>2, <1>6, <2>2, EvictionFindsVictim DEF ManageInactive, SafeConfiguration
  <2> QED BY <2>1, <2>2
<1>7. ASSUME CheckLimits(w) PROVE process' = process
  <2>1. CASE ~OverLimit(w)
    BY <1>7, <2>1 DEF CheckLimits, RemoveConnections
  <2>2. CASE OverLimit(w)
    <3>1. Eviction(w)
      BY <1>7, <2>2 DEF CheckLimits
    <3>2. CASE EvictionRule = "none"
      <4>1. RemoveConnections(w, {})
        BY <3>1, <3>2 DEF Eviction
      <4> QED BY <4>1 DEF RemoveConnections
    <3>3. CASE EvictionRule = "random"
      <4>1. ~exceedMem
        BY <3>3 DEF SafeConfiguration, MemoryInv
      <4>2. Cardinality(pool[w]) > MaxPerWorker
        BY <2>2, <4>1 DEF OverLimit
      <4>3. pool[w] # {}
        <5>1. Cardinality({}) = 0
          BY FS_EmptySet
        <5> QED BY <4>2, <5>1
      <4>4. \E c \in pool[w] : RemoveConnections(w, {c})
        BY <3>1, <3>3, <4>3 DEF Eviction
      <4> QED BY <4>4 DEF RemoveConnections
    <3>4. CASE EvictionRule = "inactive"
      <4>1. EvictRandomN(w, ForcedDraws(w), TRUE)
        BY <3>1, <3>4 DEF Eviction
      <4>2. pool[w] \cap closed = {}
        BY <1>2, <3>4 DEF SafeConfiguration
      <4> QED BY <4>1, <4>2, EvictionFindsVictim
    <3> QED BY <3>2, <3>3, <3>4
  <2> QED BY <2>1, <2>2
<1> QED BY <1>3, <1>4, <1>5, <1>6, <1>7 DEF WorkerStep

LEMMA NextNoCrash ==
  ASSUME TypeOK, QueueInv, BatchInv, CloseInv, MemoryInv, NoCrash, [Next]_vars
  PROVE  NoCrash'
<1> SUFFICES ASSUME SafeConfiguration PROVE process' = process \/ process' = "aborted"
  BY DEF NoCrash
<1>1. CASE MasterStep
  BY <1>1 DEF MasterStep, NewConnection, Accept, ServerCron, CronDone, WaitForListener,
              AcceptDrained, AcceptTransientError, AcceptOutOfDescriptors, kernelVars
<1>2. CASE PeersStep
  BY <1>2 DEF PeersStep, Environment, Connect, Send, Finish, Reset, Tick
<1>3. CASE UNCHANGED vars
  BY <1>3 DEF vars, kernelVars
<1> QED BY <1>1, <1>2, <1>3, WorkerNoCrash DEF Next

-----------------------------------------------------------------------------
LEMMA InvHolds == Spec => []Inv
<1>1. Init => Inv
  <2>1. Init => MemoryInv /\ NoCrash
    BY DEF Init, KernelInit, WorkerInit, MemoryInv, NoCrash
  <2> QED BY <2>1, InitTypeOK, InitPlaces, InitBatch, InitClose DEF Inv
<1>2. TypeOK /\ TypeOK' /\ Inv /\ [Next]_vars => Inv'
  BY NextPlaces, NextBatch, NextClose, NextMemory, NextNoCrash DEF Inv
<1> QED BY TypeCorrect, <1>1, <1>2, PTL DEF Spec

\* In a safe configuration no worker dereferences a connection that is not in its
\* pool, draws from an empty pool, or chooses a victim it has just removed.
THEOREM WorkersDoNotCrash == Spec => []NoCrash
<1>1. Inv => NoCrash
  BY DEF Inv
<1> QED BY InvHolds, <1>1, PTL

\* Without callbacks that close connections themselves, a disconnection is
\* reported once, after the peer closed or reset, and the connection is removed.
THEOREM DisconnectionsHappened == Spec => []DisconnectionsAreReal
<1>1. Inv => DisconnectionsAreReal
  BY DEF Inv, CloseInv, DisconnectionsAreReal
<1> QED BY InvHolds, <1>1, PTL

-----------------------------------------------------------------------------
(* Why a connection is removed. *)

\* The eviction pass drops closed connections and one that has been idle.
LEMMA EvictRandomNRemoves ==
  ASSUME NEW w \in Workers, NEW n, NEW force \in BOOLEAN, EvictRandomN(w, n, force),
         NEW c \in gone' \ gone
  PROVE  c \in pool[w] /\ (c \in closed \/ Expired(c, force))
<1>1. CASE n = 0 \/ pool[w] = {}
  BY <1>1 DEF EvictRandomN, RemoveConnections
<1>2. CASE ~(n = 0 \/ pool[w] = {})
  <2>1. PICK drawn \in SUBSET pool[w] \ {{}} :
          LET shut == drawn \cap closed IN
          \/ Crash
          \/ RemoveConnections(w, shut)
          \/ \E victim \in drawn : /\ Expired(victim, force)
                                   /\ RemoveConnections(w, shut \cup {victim})
    BY <1>2, Zenon DEF EvictRandomN
  <2> DEFINE shut == drawn \cap closed
  <2>2. CASE Crash
    BY <2>2 DEF Crash
  <2>3. CASE RemoveConnections(w, shut)
    BY <2>3 DEF RemoveConnections
  <2>4. ASSUME NEW victim \in drawn, Expired(victim, force),
               RemoveConnections(w, shut \cup {victim})
        PROVE  c \in pool[w] /\ (c \in closed \/ Expired(c, force))
    <3>1. c \in shut \cup {victim} /\ c \in pool[w]
      BY <2>4 DEF RemoveConnections
    <3> QED BY <2>4, <3>1
  <2> QED BY <2>1, <2>2, <2>3, <2>4
<1> QED BY <1>1, <1>2

Justified(c) ==
  \/ c \in closed' \cup rst
  \/ InactiveRule = "close" /\ Idle(c) > InactiveTimeout
  \/ EvictionRule # "none" /\ OverLimit(worker[c])

LEMMA WorkerRemoval ==
  ASSUME TypeOK, QueueInv, BatchInv, NEW w \in Workers, WorkersStep(w), NEW c \in gone' \ gone
  PROVE  Justified(c)
<1> USE DEF WorkersStep
<1>1. CASE Poll(w) \/ SwapIncoming(w) \/ RegisterOne(w)
  BY <1>1 DEF Poll, SwapIncoming, RegisterOne, Crash
<1>2. CASE HandleEvent(w)
  <2>1. PICK e \in batch[w] : Crash \/ RemoveConnections(w, Dropped(e, closed'))
    BY <1>2, Zenon DEF HandleEvent
  <2>2. c \in Dropped(e, closed')
    BY <2>1 DEF Crash, RemoveConnections
  <2>3. c = e.conn /\ (e.err \/ c \in closed')
    BY <2>2 DEF Dropped
  <2> QED BY <2>3 DEF BatchInv, Justified
<1>3. CASE ManageInactive(w)
  <2>1. closed' = closed
    BY <1>3 DEF ManageInactive, objectVars
  <2>2. CASE InactiveRule = "none"
    BY <1>3, <2>2 DEF ManageInactive, RemoveConnections
  <2>3. CASE InactiveRule # "none"
    <3>1. EvictRandomN(w, EvictionPoolSize, FALSE) /\ InactiveRule = "close"
      BY <1>3, <2>3 DEF ManageInactive
    <3>2. c \in closed \/ Expired(c, FALSE)
      BY <3>1, EvictRandomNRemoves
    <3> QED BY <2>1, <3>1, <3>2 DEF Justified, Expired
  <2> QED BY <2>2, <2>3
<1>4. CASE CheckLimits(w)
  <2>1. OverLimit(w) /\ Eviction(w)
    BY <1>4 DEF CheckLimits, RemoveConnections
  <2>2. EvictionRule # "none"
    BY <2>1 DEF Eviction, RemoveConnections
  <2>3. c \in pool[w]
    BY <1>4, CheckLimitsDrops DEF Drops, RemoveConnections, Crash
  <2>4. worker[c] = w
    BY <2>3 DEF QueueInv, InOnePlace, TypeOK
  <2> QED BY <2>1, <2>2, <2>4 DEF Justified
<1> QED BY <1>1, <1>2, <1>3, <1>4 DEF WorkerStep

LEMMA StepRemoval ==
  ASSUME TypeOK, QueueInv, BatchInv, Next, NEW c \in gone' \ gone
  PROVE  Justified(c)
<1>1. CASE MasterStep
  BY <1>1 DEF MasterStep, NewConnection, RegisterNewConnection, ServerCron, workerVars
<1>2. CASE PeersStep
  BY <1>2 DEF PeersStep, workerVars
<1> QED BY <1>1, <1>2, WorkerRemoval DEF Next

\* A worker drops a connection only because it is closed or reset, has been idle for
\* longer than configured, or one of the worker's limits is exceeded.
THEOREM RemovalsAreJustified == Spec => RemovalIsJustified
<1>1. Inv /\ [Next]_vars => [\A c \in gone' \ gone : Justified(c)]_vars
  BY StepRemoval DEF Inv
<1> QED BY <1>1, InvHolds, PTL DEF Spec, RemovalIsJustified, Justified

-----------------------------------------------------------------------------
(* The life cycle of a connection. *)

\* In which phase a connection is; at most one of the conditions holds.
LEMMA PhaseIs ==
  ASSUME TypeOK, QueueInv, NEW c \in Conn
  PROVE  /\ Phase[c] = "gone" <=> c \in gone
         /\ Phase[c] = "open" <=> \E w \in Workers : c \in pool[w]
         /\ Phase[c] = "queued" <=> \E w \in Workers : InQueue(w, c)
         /\ Phase[c] = "absent" <=> c \notin Accepted
<1> DEFINE open == \E w \in Workers : c \in pool[w]
           queued == \E w \in Workers : InQueue(w, c)
<1>1. Phase[c] = CASE c \in gone -> "gone" [] open -> "open" [] queued -> "queued"
                   [] OTHER -> "absent"
  BY DEF Phase
<1>2. /\ c \in gone => ~open /\ ~queued /\ c \in Accepted
      /\ queued => ~open
      /\ open \/ queued => c \in Accepted
      /\ c \in Accepted /\ c \notin gone => open \/ queued
  <2>1. c \in gone => ~open /\ ~queued /\ c \in Accepted
    BY DEF QueueInv, InOnePlace
  <2>2. \A w \in Workers : InQueue(w, c) \/ c \in pool[w] => worker[c] = w /\ c \in Accepted
    BY DEF QueueInv, InOnePlace
  <2>3. queued => ~open
    BY <2>2 DEF QueueInv, InOnePlace
  <2>4. open \/ queued => c \in Accepted
    BY <2>2
  <2>5. c \in Accepted => worker[c] \in Workers
    BY DEF QueueInv, InOnePlace, TypeOK
  <2>6. c \in Accepted /\ c \notin gone => open \/ queued
    BY <2>5 DEF QueueInv, InOnePlace
  <2> QED BY <2>1, <2>3, <2>4, <2>6
<1> HIDE DEF open, queued
<1>3. /\ Phase[c] = "gone" <=> c \in gone
      /\ Phase[c] = "open" <=> open
      /\ Phase[c] = "queued" <=> queued
      /\ Phase[c] = "absent" <=> c \notin Accepted
  BY <1>1, <1>2
<1> QED BY <1>3 DEF open, queued

\* Steps that leave every connection where it is.
LEMMA PhaseKept ==
  ASSUME UNCHANGED <<worker, gone, pool>>,
         \A w \in Workers, c \in Conn : InQueue(w, c)' <=> InQueue(w, c)
  PROVE  UNCHANGED Lifecycle!vars
BY DEF Phase, Lifecycle!vars

LEMMA PlacesPhase ==
  ASSUME UNCHANGED <<worker, gone, pool, temp, incoming>>
  PROVE  UNCHANGED Lifecycle!vars
BY PhaseKept DEF InQueue

\* Removing connections of one worker's pool closes them.
LEMMA RemovalCloses ==
  ASSUME TypeOK, QueueInv, TypeOK', QueueInv', NEW w \in Workers, NEW S, RemoveConnections(w, S),
         UNCHANGED <<dequeued, aborted, worker, temp, incoming>>
  PROVE  Lifecycle!Next
<1> DEFINE R == S \cap pool[w]
<1>1. /\ gone' = gone \cup R
      /\ pool'[w] = pool[w] \ R
      /\ \A v \in Workers : v # w => pool'[v] = pool[v]
  BY DEF RemoveConnections, TypeOK
<1>2. R \subseteq Conn /\ R \in SUBSET Conn
  BY DEF TypeOK
<1>3. \A c \in R : Phase[c] = "open" /\ worker[c] = w
  BY <1>2, PhaseIs DEF QueueInv, InOnePlace
<1> HIDE DEF R
<1>4. Phase' = [c \in Conn |-> IF c \in R THEN "gone" ELSE Phase[c]]
  <2>1. \A c \in R : c \in gone'
    BY <1>1
  <2>2. \A c \in Conn \ R : c \in gone' <=> c \in gone
    BY <1>1
  <2>3. \A c \in Conn \ R, v \in Workers : c \in pool'[v] <=> c \in pool[v]
    BY <1>1
  <2>4. \A c \in Conn, v \in Workers : InQueue(v, c)' <=> InQueue(v, c)
    BY DEF InQueue
  <2>5. \A c \in Conn \ R : Phase'[c] = Phase[c]
    BY <2>2, <2>3, <2>4 DEF Phase
  <2>8. \A c \in R, v \in Workers : c \notin pool'[v] /\ ~InQueue(v, c)'
    BY <1>2, <2>1 DEF QueueInv, InOnePlace
  <2>6. \A c \in Conn \cap R : Phase'[c] = "gone"
    BY <2>1, <2>8 DEF Phase
  <2>7. Phase' = [c \in Conn |-> Phase'[c]]
    BY DEF Phase
  <2> QED BY <2>5, <2>6, <2>7
<1>5. worker' = worker
  OBVIOUS
<1>6. Lifecycle!Close(R)
  BY <1>3, <1>4, <1>5 DEF Lifecycle!Close
<1> QED BY <1>2, <1>6 DEF Lifecycle!Next

\* The master hands a new connection to a worker.
LEMMA NewConnectionAssigns ==
  ASSUME TypeOK, QueueInv, TypeOK', QueueInv', NewConnection
  PROVE  Lifecycle!Next
<1>1. PICK w \in Workers : Accept /\ RegisterNewConnection(w, dequeued')
                           /\ worker' = [worker EXCEPT ![dequeued'] = w]
  BY DEF NewConnection
<1>0. dequeued + 1 \in Conn
  BY <1>1 DEF Accept, Pending, TypeOK, Conn
<1> PICK n \in Conn : n = dequeued + 1
  BY <1>0
<1>2. /\ n \in Conn /\ dequeued' = n /\ dequeued \in Nat
      /\ \A c \in Conn : c >= n => c \notin Accepted
  BY <1>1 DEF Accept, Pending, TypeOK, Conn, Accepted
<1>3. /\ UNCHANGED <<temp, pool, gone>>
      /\ incoming' = [incoming EXCEPT ![w] = Append(@, n)]
      /\ worker' = [worker EXCEPT ![n] = w]
  BY <1>1, <1>2 DEF RegisterNewConnection
<1>4. incoming[w] \in Seq(Conn) /\ incoming'[w] = Append(incoming[w], n)
      /\ \A v \in Workers : v # w => incoming'[v] = incoming[v]
  BY <1>3 DEF TypeOK
<1>5. Range(incoming'[w]) = Range(incoming[w]) \cup {n}
  BY <1>2, <1>4, RangeAppend
<1>6. \A v \in Workers, c \in Conn :
        InQueue(v, c)' <=> InQueue(v, c) \/ (c = n /\ v = w)
  BY <1>3, <1>4, <1>5 DEF InQueue
<1>7. \A c \in Conn : c >= n => Phase[c] = "absent"
  BY <1>2, PhaseIs
<1>8. Phase' = [Phase EXCEPT ![n] = "queued"]
  <2>1. Phase' = [c \in Conn |-> Phase'[c]] /\ Phase = [c \in Conn |-> Phase[c]]
    BY DEF Phase
  <2>2. \A c \in Conn : c # n => Phase'[c] = Phase[c]
    BY <1>3, <1>6 DEF Phase
  <2>3. InQueue(w, n)' /\ n \notin gone' /\ \A v \in Workers : n \notin pool'[v]
    <3>1. n \notin gone /\ \A v \in Workers : n \notin pool[v]
      <4>1. Phase[n] = "absent"
        BY <1>2, <1>7 DEF Conn
      <4>2. n \notin Accepted
        BY <1>2, <4>1, PhaseIs
      <4> QED BY <1>2, <4>2 DEF QueueInv, InOnePlace
    <3> QED BY <1>2, <1>3, <1>6, <3>1
  <2>5. Phase'[n] = CASE n \in gone'                       -> "gone"
                      [] \E v \in Workers : n \in pool'[v]   -> "open"
                      [] \E v \in Workers : InQueue(v, n)'   -> "queued"
                      [] OTHER                              -> "absent"
    BY <1>2 DEF Phase
  <2>4. Phase'[n] = "queued"
    BY <2>3, <2>5
  <2> QED BY <1>2, <2>1, <2>2, <2>4
<1>9. Lifecycle!Assign(n, w)
  BY <1>3, <1>7, <1>8 DEF Lifecycle!Assign
<1> QED BY <1>2, <1>9 DEF Lifecycle!Next

\* A worker takes over the connection that has waited for it longest.
LEMMA RegistrationOpens ==
  ASSUME TypeOK, QueueInv, NEW w \in Workers, temp[w] # <<>>,
         UNCHANGED <<dequeued, aborted, worker, incoming, gone>>,
         temp' = [temp EXCEPT ![w] = Tail(@)],
         pool' = [pool EXCEPT ![w] = @ \cup {Head(temp[w])}]
  PROVE  Lifecycle!Next
<1>0. Head(temp[w]) \in Conn
  BY HeadAndTail DEF TypeOK
<1> PICK c \in Conn : c = Head(temp[w])
  BY <1>0
<1>1. /\ temp[w] \in Seq(Conn) /\ temp'[w] = Tail(temp[w])
      /\ \A v \in Workers : v # w => temp'[v] = temp[v] /\ pool'[v] = pool[v]
      /\ pool'[w] = pool[w] \cup {c}
  BY DEF TypeOK
<1>2. /\ c \in Conn /\ Range(temp[w]) = {c} \cup Range(temp'[w])
      /\ c \notin Range(temp'[w])
  BY <1>1, HeadAndTail, RangeHeadTail, AscendingTail DEF QueueInv
<1>3. \A d \in Range(temp[w]) \cup Range(incoming[w]) : d \in Nat => c <= d
  <2>1. \A d \in Range(temp[w]) : d \in Nat => c <= d
    <3> SUFFICES ASSUME NEW d \in Range(temp[w]), d \in Nat PROVE c <= d
      OBVIOUS
    <3>1. PICK i \in 1..Len(temp[w]) : d = temp[w][i]
      BY <1>1, LenProperties DEF Range
    <3>2. c = temp[w][1] /\ Len(temp[w]) \in Nat /\ 1 \in 1..Len(temp[w]) /\ c \in Nat
      BY <1>1, HeadAndTail DEF Conn
    <3>3. CASE i = 1
      BY <3>1, <3>2, <3>3
    <3>4. CASE i # 1
      <4>1. 1 < i
        BY <3>2, <3>4
      <4>2. temp[w][1] < temp[w][i]
        BY <3>2, <4>1 DEF QueueInv, Ascending
      <4> QED BY <3>1, <3>2, <4>2
    <3> QED BY <3>3, <3>4
  <2>2. \A d \in Range(incoming[w]) : c < d
    BY <1>2 DEF QueueInv
  <2>3. c \in Nat
    BY <1>2 DEF Conn
  <2> QED BY <2>1, <2>2, <2>3
<1>4. InQueue(w, c) /\ worker[c] = w /\ c \notin gone
  BY <1>2 DEF InQueue, QueueInv, InOnePlace
<1>5. c \notin Range(incoming[w])
  BY <1>2 DEF QueueInv, InOnePlace
<1>6. \A v \in Workers, d \in Conn :
        InQueue(v, d)' <=> InQueue(v, d) /\ ~(v = w /\ d = c)
  BY <1>1, <1>2, <1>5 DEF InQueue
<1>7. Phase[c] = "queued"
  BY <1>2, <1>4, PhaseIs
<1>8. \A d \in Conn : d < c /\ worker[d] = worker[c] => Phase[d] # "queued"
  <2> SUFFICES ASSUME NEW d \in Conn, d < c, worker[d] = w, Phase[d] = "queued" PROVE FALSE
    BY <1>4
  <2>1. PICK v \in Workers : InQueue(v, d)
    BY PhaseIs
  <2>2. v = w
    BY <2>1 DEF QueueInv, InOnePlace
  <2>3. d \in Range(temp[w]) \cup Range(incoming[w])
    BY <2>1, <2>2 DEF InQueue
  <2>4. c \in Nat /\ d \in Nat
    BY <1>2 DEF Conn
  <2> QED BY <1>3, <2>3, <2>4
<1>9. Phase' = [Phase EXCEPT ![c] = "open"]
  <2>1. Phase' = [d \in Conn |-> Phase'[d]] /\ Phase = [d \in Conn |-> Phase[d]]
    BY DEF Phase
  <2>2. ASSUME NEW d \in Conn, d # c PROVE Phase'[d] = Phase[d]
    <3>1. \A v \in Workers : d \in pool'[v] <=> d \in pool[v]
      BY <1>1, <2>2
    <3>2. \A v \in Workers : InQueue(v, d)' <=> InQueue(v, d)
      BY <1>6, <2>2
    <3> QED BY <3>1, <3>2 DEF Phase
  <2>3. Phase'[c] = "open"
    <3>1. \A v \in Workers : ~InQueue(v, c)'
      BY <1>2, <1>4, <1>6 DEF QueueInv, InOnePlace
    <3>2. c \in pool'[w] /\ c \notin gone'
      BY <1>1, <1>4
    <3> QED BY <1>2, <3>1, <3>2 DEF Phase
  <2> QED BY <1>2, <2>1, <2>2, <2>3
<1>10. Lifecycle!Open(c)
  BY <1>7, <1>8, <1>9 DEF Lifecycle!Open
<1> QED BY <1>2, <1>10 DEF Lifecycle!Next

LEMMA WorkerLifecycle ==
  ASSUME TypeOK, QueueInv, TypeOK', QueueInv', NEW w \in Workers, WorkersStep(w)
  PROVE  [Lifecycle!Next]_(Lifecycle!vars)
<1> USE DEF WorkersStep, acceptorVars
<1>1. CASE Poll(w)
  BY <1>1, PlacesPhase DEF Poll
<1>2. CASE HandleEvent(w)
  <2>1. PICK e \in batch[w] : Crash \/ RemoveConnections(w, Dropped(e, closed'))
    BY <1>2, Zenon DEF HandleEvent
  <2>2. UNCHANGED <<dequeued, aborted, worker, temp, incoming>>
    BY <1>2 DEF HandleEvent
  <2>3. CASE Crash
    BY <2>2, <2>3, PlacesPhase DEF Crash
  <2>4. CASE RemoveConnections(w, Dropped(e, closed'))
    BY <2>2, <2>4, RemovalCloses
  <2> QED BY <2>1, <2>3, <2>4
<1>3. CASE SwapIncoming(w)
  <2>1. /\ UNCHANGED <<worker, pool, gone>>
        /\ temp' = [temp EXCEPT ![w] = incoming[w]]
        /\ incoming' = [incoming EXCEPT ![w] = <<>>]
        /\ wpc[w] = "event"
    BY <1>3 DEF SwapIncoming, At
  <2>2. /\ temp[w] = <<>> /\ temp'[w] = incoming[w] /\ incoming'[w] = <<>>
        /\ \A v \in Workers : v # w => temp'[v] = temp[v] /\ incoming'[v] = incoming[v]
    BY <2>1 DEF QueueInv, TypeOK
  <2>3. \A v \in Workers, c \in Conn : InQueue(v, c)' <=> InQueue(v, c)
    BY <2>2, RangeEmpty DEF InQueue
  <2> QED BY <2>1, <2>3, PhaseKept
<1>4. CASE RegisterOne(w)
  <2>1. UNCHANGED <<dequeued, aborted, worker, incoming>> /\ temp[w] # <<>>
    BY <1>4 DEF RegisterOne
  <2>2. CASE Crash /\ temp' = temp
    BY <2>1, <2>2, PlacesPhase DEF Crash
  <2>3. CASE /\ temp' = [temp EXCEPT ![w] = Tail(@)]
             /\ pool' = [pool EXCEPT ![w] = @ \cup {Head(temp[w])}]
             /\ gone' = gone
    BY <2>1, <2>3, RegistrationOpens
  <2> QED BY <1>4, <2>2, <2>3 DEF RegisterOne
<1>5. CASE ManageInactive(w) \/ CheckLimits(w)
  <2>1. Drops(w)
    BY <1>5, ManageInactiveDrops, CheckLimitsDrops
  <2>2. UNCHANGED <<dequeued, aborted, worker, temp, incoming>>
    BY <1>5 DEF ManageInactive, CheckLimits
  <2>3. CASE Crash
    BY <2>2, <2>3, PlacesPhase DEF Crash
  <2>4. ASSUME NEW S, RemoveConnections(w, S) PROVE Lifecycle!Next
    BY <2>2, <2>4, RemovalCloses
  <2> QED BY <2>1, <2>3, <2>4 DEF Drops
<1> QED BY <1>1, <1>2, <1>3, <1>4, <1>5 DEF WorkerStep

LEMMA StepLifecycle ==
  ASSUME TypeOK, QueueInv, TypeOK', QueueInv', [Next]_vars
  PROVE  [Lifecycle!Next]_(Lifecycle!vars)
<1>1. CASE MasterStep
  <2>1. CASE ServerCron
    BY <2>1, PlacesPhase DEF ServerCron
  <2>2. CASE UNCHANGED <<workerVars, worker>>
    BY <2>2, PlacesPhase DEF workerVars
  <2> QED BY <1>1, <2>1, <2>2, NewConnectionAssigns DEF MasterStep
<1>2. CASE PeersStep
  BY <1>2, PlacesPhase DEF PeersStep, workerVars
<1>3. CASE UNCHANGED vars
  BY <1>3, PlacesPhase DEF vars, workerVars
<1> QED BY <1>1, <1>2, <1>3, WorkerLifecycle DEF Next

LEMMA InitLifecycle == Init => Lifecycle!Init
<1> SUFFICES ASSUME Init PROVE Lifecycle!Init
  OBVIOUS
<1>1. TypeOK /\ QueueInv
  BY InitTypeOK, InitPlaces
<1>2. worker = [c \in Conn |-> NoWorker]
  BY DEF Init
<1>3. \A c \in Conn : c \notin Accepted
  BY <1>1, <1>2 DEF QueueInv, InOnePlace
<1>4. \A c \in Conn : Phase[c] = "absent"
  BY <1>1, <1>3, PhaseIs
<1>5. Phase = [c \in Conn |-> Phase[c]]
  BY DEF Phase
<1> QED BY <1>2, <1>4, <1>5 DEF Lifecycle!Init

\* The server implements the life cycle step by step: a connection is handed to one
\* worker, opened by it in the order of acceptance, and closed at most once.
THEOREM ServerStepsAreLifecycle == Spec => LifecycleSteps
<1>1. TypeOK /\ TypeOK' /\ QueueInv /\ [Next]_vars => QueueInv' /\ [Lifecycle!Next]_(Lifecycle!vars)
  BY NextPlaces, StepLifecycle
<1> QED BY TypeCorrect, InitPlaces, InitLifecycle, <1>1, PTL DEF Spec, LifecycleSteps
=============================================================================
