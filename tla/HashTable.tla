------------------------------ MODULE HashTable ------------------------------
(***************************************************************************)
(* The hash table behind a worker's connection pool (hash.h): chained      *)
(* buckets in one or two tables, and incremental rehashing, in which every *)
(* operation moves at most one bucket of the old table to the new one.     *)
(*                                                                         *)
(* A chain is modelled as the set of its entries: what an operation does   *)
(* with a chain does not depend on its order.                              *)
(***************************************************************************)
EXTENDS Integers, FiniteSets

CONSTANTS
  Keys,
  Values,
  NoValue,        \* what a value constructed by default is
  Hash,           \* _hashFunction
  InitSize,       \* HASHTABLE_INIT_SIZE, a power of two
  MaxLoadFactor,  \* maxLoadFactor
  EmptyVisits     \* buckets one step may skip (n*10 in rehash, n = 1)

ASSUME HashTableAssumption ==
  /\ IsFiniteSet(Keys)
  /\ Hash \in [Keys -> Nat]
  /\ InitSize \in Nat \ {0}
  /\ MaxLoadFactor \in Nat
  /\ EmptyVisits \in Nat \ {0}
  /\ Values \cap (BOOLEAN \cup {NoValue}) = {}

VARIABLES
  d,       \* _d: the two tables and rehashidx
  result   \* what the last operation returned

vars == <<d, result>>

Stored == Values \cup {NoValue}
Entry == [key : Keys, value : Stored]

-----------------------------------------------------------------------------
(* Tables.  The null table of a dictht has no bucket. *)

Bucket(h) == DOMAIN h.table
Size(h) == Cardinality(Bucket(h))
Entries(h) == UNION {h.table[i] : i \in Bucket(h)}
Slot(h, k) == Hash[k] % Size(h)   \* h & sizemask: the size is a power of two

EmptyTable(size) == [table |-> [i \in 0..size - 1 |-> {}], used |-> 0]
NullTable == EmptyTable(0)

EmptyDict == [ht0 |-> NullTable, ht1 |-> NullTable, idx |-> -1]

IsRehashing(t) == t.idx # -1
UsedBy(t) == t.ht0.used + t.ht1.used

\* Mutant: the second table is not searched.
FoundInFirst(t, k) == {e \in t.ht0.table[Slot(t.ht0, k)] : e.key = k}

\* The entry of a key: the second table is searched only during rehashing.
Found(t, k) ==
  LET In(h) == {e \in h.table[Slot(h, k)] : e.key = k}
  IN  In(t.ht0) \cup (IF IsRehashing(t) THEN In(t.ht1) ELSE {})

-----------------------------------------------------------------------------
(* Growing. *)

\* i *= 2, from HASHTABLE_INIT_SIZE on
Doubled[i \in Nat] == IF i = 0 THEN InitSize ELSE 2 * Doubled[i - 1]

\* The first of these sizes that is not below n.
NextPower(n) ==
  Doubled[CHOOSE i \in 0..n : Doubled[i] >= n /\ \A j \in 0..i - 1 : Doubled[j] < n]

\* DICT_ERR is never returned for the sizes expandIfNeeded asks for.
Expand(t, n) ==
  IF t.ht0.table = NullTable.table
  THEN [t EXCEPT !.ht0 = EmptyTable(NextPower(n))]
  ELSE [t EXCEPT !.ht1 = EmptyTable(NextPower(n)), !.idx = 0]

\* Mutant: the load may exceed maxLoadFactor by one.
ExpandTooLate(t) ==
  IF IsRehashing(t)                                  THEN t
  ELSE IF Size(t.ht0) = 0                            THEN Expand(t, InitSize)
  ELSE IF t.ht0.used \div Size(t.ht0) > MaxLoadFactor + 1 THEN Expand(t, t.ht0.used * 2)
  ELSE t

ExpandIfNeeded(t) ==
  IF IsRehashing(t)                                  THEN t
  ELSE IF Size(t.ht0) = 0                            THEN Expand(t, InitSize)
  ELSE IF t.ht0.used \div Size(t.ht0) > MaxLoadFactor THEN Expand(t, t.ht0.used * 2)
  ELSE t

-----------------------------------------------------------------------------
(* Incremental rehashing. *)

Pending(t) == {i \in Bucket(t.ht0) : i >= t.idx /\ t.ht0.table[i] # {}}

\* Mutant: the chain is moved as a whole, without looking at the new mask.
MoveChain(t, i) ==
  LET chain == t.ht0.table[i] IN
  [ht0 |-> [table |-> [t.ht0.table EXCEPT ![i] = {}],
            used  |-> t.ht0.used - Cardinality(chain)],
   ht1 |-> [table |-> [t.ht1.table EXCEPT ![i] = @ \cup chain],
            used  |-> t.ht1.used + Cardinality(chain)],
   idx |-> i + 1]

\* Move every entry of bucket i to its place in the new table.
MoveBucket(t, i) ==
  LET chain == t.ht0.table[i] IN
  [ht0 |-> [table |-> [t.ht0.table EXCEPT ![i] = {}],
            used  |-> t.ht0.used - Cardinality(chain)],
   ht1 |-> [table |-> [j \in Bucket(t.ht1) |->
                         t.ht1.table[j] \cup {e \in chain : Slot(t.ht1, e.key) = j}],
            used  |-> t.ht1.used + Cardinality(chain)],
   idx |-> i + 1]

\* Once the old table is empty the new one takes its place.
Finish(t) ==
  IF t.ht0.used = 0 THEN [ht0 |-> t.ht1, ht1 |-> NullTable, idx |-> -1] ELSE t

\* Mutant: the empty buckets that were passed are passed again the next time.
StallingStep(t) ==
  LET next == CHOOSE i \in Pending(t) : \A j \in Pending(t) : i <= j IN
  IF ~IsRehashing(t)                    THEN t
  ELSE IF t.ht0.used = 0                THEN Finish(t)
  ELSE IF next - t.idx >= EmptyVisits   THEN t
  ELSE Finish(MoveBucket(t, next))

\* rehash(1)
RehashStep(t) ==
  LET next == CHOOSE i \in Pending(t) : \A j \in Pending(t) : i <= j IN
  IF ~IsRehashing(t)                    THEN t
  ELSE IF t.ht0.used = 0                THEN Finish(t)
  ELSE IF next - t.idx >= EmptyVisits   THEN [t EXCEPT !.idx = @ + EmptyVisits]
  ELSE Finish(MoveBucket(t, next))

-----------------------------------------------------------------------------
(* The operations. *)

Update(h, k, chain) == [h.table EXCEPT ![Slot(h, k)] = chain]

AddTo(h, e) ==
  [table |-> Update(h, e.key, h.table[Slot(h, e.key)] \cup {e}), used |-> h.used + 1]

DropFrom(h, e) ==
  [table |-> Update(h, e.key, h.table[Slot(h, e.key)] \ {e}), used |-> h.used - 1]

\* Mutant: new entries always go to the first table.
InsertIntoFirst(t, k, v) ==
  LET s == ExpandIfNeeded(RehashStep(t)) IN
  IF Found(s, k) # {} THEN s
  ELSE [s EXCEPT !.ht0 = AddTo(@, [key |-> k, value |-> v])]

\* insertRaw: the table in which the key now is, with value v if it is new.
InsertRaw(t, k, v) ==
  LET s == ExpandIfNeeded(RehashStep(t))
      e == [key |-> k, value |-> v]
  IN
  IF Found(s, k) # {} THEN s
  ELSE IF IsRehashing(s) THEN [s EXCEPT !.ht1 = AddTo(@, e)]
  ELSE [s EXCEPT !.ht0 = AddTo(@, e)]

\* Store v in the entry of k that is there.
SetValue(t, k, v) ==
  LET Set(h) == [h EXCEPT !.table =
        [i \in Bucket(h) |-> {IF e.key = k THEN [e EXCEPT !.value = v] ELSE e : e \in h.table[i]}]]
  IN  [t EXCEPT !.ht0 = Set(@), !.ht1 = Set(@)]

Init ==
  /\ d = EmptyDict
  /\ result = NoValue

\* operator[], read
Get(k) ==
  /\ d' = InsertRaw(d, k, NoValue)
  /\ \E e \in Found(d', k) : result' = e.value

\* operator[], assigned to
Assign(k, v) ==
  /\ d' = SetValue(InsertRaw(d, k, NoValue), k, v)
  /\ result' = v

Insert(k, v) ==
  /\ d' = InsertRaw(d, k, v)
  /\ result' = (Found(ExpandIfNeeded(RehashStep(d)), k) = {})

Erase(k) ==
  /\ d' = IF UsedBy(d) = 0 THEN d
          ELSE LET t == RehashStep(d)
                   In(h) == h.table # NullTable.table /\ \E e \in h.table[Slot(h, k)] : e.key = k
                   Drop(h) == DropFrom(h, CHOOSE e \in h.table[Slot(h, k)] : e.key = k)
               IN  IF In(t.ht0) THEN [t EXCEPT !.ht0 = Drop(@)]
                   ELSE IF IsRehashing(t) /\ In(t.ht1) THEN [t EXCEPT !.ht1 = Drop(@)]
                   ELSE t
  /\ UNCHANGED result

Exist(k) ==
  /\ d' = IF UsedBy(d) = 0 THEN d ELSE RehashStep(d)
  /\ result' = (UsedBy(d) # 0 /\ Found(d', k) # {})

\* getRandomEntry draws buckets until it meets one that is not empty: from the
\* old table's rehashidx on, and from the new table.
Drawable(t) ==
  IF IsRehashing(t)
  THEN (UNION {t.ht0.table[i] : i \in Pending(t)}) \cup Entries(t.ht1)
  ELSE Entries(t.ht0)

GetRandom ==
  /\ UsedBy(d) # 0
  /\ d' = RehashStep(d)
  /\ \E e \in Drawable(d') : result' = e.value

Clear ==
  /\ d' = EmptyDict
  /\ UNCHANGED result

Next ==
  \/ \E k \in Keys : Get(k) \/ Erase(k) \/ Exist(k)
  \/ \E k \in Keys, v \in Values : Assign(k, v) \/ Insert(k, v)
  \/ GetRandom
  \/ Clear

Spec == Init /\ [][Next]_vars

-----------------------------------------------------------------------------
(* Invariants. *)

Table(h) ==
  /\ Bucket(h) = 0..Size(h) - 1
  /\ h.table \in [Bucket(h) -> SUBSET Entry]
  /\ h.used \in Nat

\* The type of the dictionary.
TypeOK ==
  /\ d = [ht0 |-> d.ht0, ht1 |-> d.ht1, idx |-> d.idx]
  /\ Table(d.ht0) /\ Table(d.ht1)
  /\ d.idx \in {-1} \cup Bucket(d.ht0) \cup {Size(d.ht0)}
  /\ result \in Stored \cup BOOLEAN

\* Whatever was inserted, erased and moved in between: every entry is in the
\* bucket its key hashes to, no key has two entries, not even one in each table,
\* and the counters that size() and empty() report are exact.
Consistent ==
  /\ TypeOK
  /\ \A h \in {d.ht0, d.ht1} :
       /\ \A i \in Bucket(h), e \in Entries(h) : e \in h.table[i] <=> i = Slot(h, e.key)
       /\ h.used = Cardinality(Entries(h))
  /\ \A e, f \in Entries(d.ht0) \cup Entries(d.ht1) : e.key = f.key => e = f
  /\ Entries(d.ht0) \cap Entries(d.ht1) = {}
  /\ d.idx = -1 <=> d.ht1 = NullTable

\* "rehashidx can't overflow", "no elements in indexes from 0 to rehashidx-1"
\* (hash.h:436 and 608): all that is left in the old table is at rehashidx or
\* beyond it.  Otherwise rehash would run past the table, and getRandomEntry
\* draw for ever.
NothingBehindIndex ==
  IsRehashing(d) => \A i \in Bucket(d.ht0) : i < d.idx => d.ht0.table[i] = {}

\* Inserting does not outrun rehashing: before the new table has as many entries
\* as buckets the old one is empty, and no table holds more than MaxLoadFactor + 1
\* entries per bucket.
LoadIsBounded ==
  UsedBy(d) <= IF IsRehashing(d) THEN Size(d.ht1)
                                 ELSE (MaxLoadFactor + 1) * Size(d.ht0)

\* Every operation on a table that is being rehashed brings that forward, so that
\* no more operations than the old table has buckets end it.
RehashAdvances ==
  [][IsRehashing(d) /\ IsRehashing(d') /\ Size(d'.ht0) = Size(d.ht0) => d'.idx > d.idx]_vars

\* Through all of this the table is a finite map (KeyedStore).
StoredMap ==
  LET all == Entries(d.ht0) \cup Entries(d.ht1) IN
  [k \in {e.key : e \in all} |-> (CHOOSE e \in all : e.key = k).value]

Store == INSTANCE KeyedStore WITH map <- StoredMap

\* Every operation returns and leaves what it would with the map.
ImplementsStore == Store!Spec
=============================================================================
