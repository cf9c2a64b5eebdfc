-------------------------- MODULE HashTable_proofs --------------------------
(***************************************************************************)
(* Proofs about HashTable, for any keys, values, hash function and load    *)
(* factor: the tables stay consistent, rehashing ends before the new table *)
(* is full, and through all of it the table is a finite map.               *)
(***************************************************************************)
EXTENDS HashTable, NatInduction, FiniteSetTheorems

-----------------------------------------------------------------------------
(* Sizes. *)

\* The recursive definition defines a function.
LEMMA DoubledProperties ==
  /\ Doubled \in [Nat -> Nat]
  /\ Doubled[0] = InitSize
  /\ \A i \in Nat : Doubled[i + 1] = 2 * Doubled[i]
<1> DEFINE step == [n \in Nat |-> 2 * n]
<1>1. InitSize \in Nat /\ step \in [Nat -> Nat]
  BY HashTableAssumption
<1> HIDE DEF step
<1>2. PICK f \in [Nat -> Nat] : f[0] = InitSize /\ \A n \in Nat : f[n + 1] = step[f[n]]
  BY <1>1, Iteration
<1>3. \A n \in Nat : f[n + 1] = 2 * f[n]
  BY <1>2 DEF step
<1>4. f = [i \in Nat |-> IF i = 0 THEN InitSize ELSE 2 * f[i - 1]]
  <2>1. ASSUME NEW i \in Nat
        PROVE  f[i] = IF i = 0 THEN InitSize ELSE 2 * f[i - 1]
    <3>1. CASE i = 0
      BY <1>2, <3>1
    <3>2. CASE i # 0
      <4>1. i - 1 \in Nat /\ i - 1 + 1 = i
        BY <3>2
      <4>2. f[i - 1 + 1] = 2 * f[i - 1]
        BY <1>3, <4>1
      <4> QED BY <3>2, <4>1, <4>2
    <3> QED BY <3>1, <3>2
  <2> QED BY <1>2, <2>1
<1>5. Doubled = [i \in Nat |-> IF i = 0 THEN InitSize ELSE 2 * Doubled[i - 1]]
  BY <1>4 DEF Doubled
<1>6. Doubled[0] = InitSize
  BY <1>5
<1>7. \A i \in Nat : Doubled[i + 1] = 2 * Doubled[i]
  <2> SUFFICES ASSUME NEW i \in Nat PROVE Doubled[i + 1] = 2 * Doubled[i]
    OBVIOUS
  <2>1. i + 1 \in Nat /\ i + 1 # 0 /\ i + 1 - 1 = i
    OBVIOUS
  <2>2. Doubled[i + 1] = IF i + 1 = 0 THEN InitSize ELSE 2 * Doubled[i + 1 - 1]
    BY <1>5, <2>1
  <2> QED BY <2>1, <2>2
<1>8. Doubled \in [Nat -> Nat]
  <2> DEFINE S == {i \in Nat : Doubled[i] \in Nat}
  <2>1. 0 \in S
    BY <1>1, <1>6
  <2>2. ASSUME NEW i \in Nat, i \in S PROVE i + 1 \in S
    <3>1. 2 * Doubled[i] \in Nat
      BY <2>2
    <3> QED BY <1>7, <3>1
  <2> HIDE DEF S
  <2>3. Nat \subseteq S
    BY <2>1, <2>2, SetInduction
  <2>4. \A i \in Nat : Doubled[i] \in Nat
    BY <2>3 DEF S
  <2>5. Doubled = [i \in Nat |-> Doubled[i]]
    BY <1>5
  <2> QED BY <2>4, <2>5
<1> QED BY <1>6, <1>7, <1>8

\* nextPower returns a size that is large enough.
LEMMA NextPowerProperties ==
  ASSUME NEW n \in Nat
  PROVE  NextPower(n) \in Nat /\ NextPower(n) > 0 /\ NextPower(n) >= n
<1>1. \A i \in Nat : Doubled[i] \in Nat /\ Doubled[i] > i
  <2> DEFINE S == {i \in Nat : Doubled[i] \in Nat /\ Doubled[i] > i}
  <2>1. 0 \in S
    BY DoubledProperties, HashTableAssumption
  <2>2. ASSUME NEW i \in Nat, i \in S PROVE i + 1 \in S
    <3>1. Doubled[i + 1] = 2 * Doubled[i]
      BY DoubledProperties
    <3> QED BY <2>2, <3>1
  <2> HIDE DEF S
  <2>3. Nat \subseteq S
    BY <2>1, <2>2, SetInduction
  <2> QED BY <2>3 DEF S
<1> DEFINE T == {i \in Nat : Doubled[i] >= n}
<1>2. n \in T
  BY <1>1
<1>3. PICK k \in T : \A j \in T : k <= j
  <2> HIDE DEF T
  <2>1. T # {}
    BY <1>2
  <2>2. T \subseteq Nat
    BY DEF T
  <2> QED BY <2>1, <2>2, LeastNat
<1>4. k \in 0..n /\ Doubled[k] >= n
  BY <1>2, <1>3
<1>5. \A j \in 0..k - 1 : Doubled[j] < n
  <2> SUFFICES ASSUME NEW j \in 0..k - 1 PROVE Doubled[j] < n
    OBVIOUS
  <2>1. j \in Nat /\ ~(k <= j)
    BY <1>4
  <2> QED BY <1>1, <1>3, <2>1
<1> DEFINE c == CHOOSE i \in 0..n : Doubled[i] >= n /\ \A j \in 0..i - 1 : Doubled[j] < n
<1>6. c \in 0..n /\ Doubled[c] >= n
  BY <1>4, <1>5
<1>7. NextPower(n) = Doubled[c]
  BY DEF NextPower
<1> HIDE DEF c
<1>8. Doubled[c] \in Nat /\ Doubled[c] > c /\ c \in Nat
  BY <1>1, <1>6
<1> QED BY <1>6, <1>7, <1>8

\* As many entries as buckets of the given size may hold.
Limit(size) == (MaxLoadFactor + 1) * size

LEMMA LimitProperties ==
  ASSUME NEW size \in Nat
  PROVE  /\ Limit(size) \in Nat /\ Limit(size) >= size
         /\ \A used \in Nat : size > 0 =>
              /\ used \div size > MaxLoadFactor => used >= size
              /\ ~(used \div size > MaxLoadFactor) => used + 1 <= Limit(size)
<1>1. MaxLoadFactor \in Nat
  BY HashTableAssumption
<1>2. Limit(size) \in Nat /\ Limit(size) >= size
  BY <1>1 DEF Limit
<1>3. ASSUME NEW used \in Nat, size > 0, used \div size > MaxLoadFactor
      PROVE  used >= size
  BY <1>1, <1>3
<1>4. ASSUME NEW used \in Nat, size > 0, ~(used \div size > MaxLoadFactor)
      PROVE  used + 1 <= Limit(size)
  <2>1. used < (MaxLoadFactor + 1) * size
    BY <1>1, <1>4
  <2> QED BY <1>2, <2>1 DEF Limit
<1> QED BY <1>2, <1>3, <1>4

-----------------------------------------------------------------------------
(* Tables: what an operation does to a table it does to its set of entries. *)

\* The bucket of key k in a table of n buckets, kept folded for the solver.
At(n, k) == Hash[k] % n

LEMMA AtType ==
  ASSUME NEW n \in Nat, n > 0, NEW k \in Keys
  PROVE  At(n, k) \in 0..n - 1
<1>1. Hash[k] \in Nat
  BY HashTableAssumption
<1> QED BY <1>1 DEF At

\* The table of n buckets that holds the entries of E.
TableOf(n, E) ==
  [table |-> [i \in 0..n - 1 |-> {e \in E : At(n, e.key) = i}], used |-> Cardinality(E)]

Sound(h) ==
  /\ Size(h) \in Nat
  /\ Entries(h) \subseteq Entry /\ IsFiniteSet(Entries(h))
  /\ Size(h) = 0 => Entries(h) = {}
  /\ h = TableOf(Size(h), Entries(h))

LEMMA TableOfSound ==
  ASSUME NEW n \in Nat, NEW E, E \subseteq Entry, IsFiniteSet(E), n = 0 => E = {}
  PROVE  /\ Size(TableOf(n, E)) = n /\ Entries(TableOf(n, E)) = E
         /\ TableOf(n, E).used = Cardinality(E) /\ Cardinality(E) \in Nat
         /\ Sound(TableOf(n, E))
<1> DEFINE h == TableOf(n, E)
<1>1. /\ h.table = [i \in 0..n - 1 |-> {e \in E : At(n, e.key) = i}]
      /\ h.used = Cardinality(E) /\ Bucket(h) = 0..n - 1
  BY DEF TableOf, Bucket
<1>2. Size(h) = n
  <2>1. Cardinality(0..n - 1) = IF 0 > n - 1 THEN 0 ELSE n - 1 - 0 + 1
    BY FS_Interval
  <2> QED BY <1>1, <2>1 DEF Size
<1>3. \A e \in E : n > 0 /\ At(n, e.key) \in 0..n - 1
  BY AtType DEF Entry
<1> HIDE DEF h
<1>4. Entries(h) = E
  <2>1. Entries(h) = UNION {{e \in E : At(n, e.key) = i} : i \in 0..n - 1}
    BY <1>1 DEF Entries
  <2>2. ASSUME NEW e \in E PROVE e \in Entries(h)
    <3>1. At(n, e.key) \in 0..n - 1 /\ e \in {f \in E : At(n, f.key) = At(n, e.key)}
      BY <1>3
    <3> QED BY <2>1, <3>1
  <2>3. ASSUME NEW e \in Entries(h) PROVE e \in E
    BY <2>1
  <2> QED BY <2>2, <2>3
<1>5. Cardinality(E) \in Nat
  BY FS_CardinalityType
<1> QED BY <1>1, <1>2, <1>4, <1>5 DEF h, Sound

LEMMA SoundProperties ==
  ASSUME NEW h, Sound(h)
  PROVE  /\ Bucket(h) = 0..Size(h) - 1 /\ DOMAIN h.table = 0..Size(h) - 1
         /\ \A i \in 0..Size(h) - 1 :
              h.table[i] = {e \in Entries(h) : At(Size(h), e.key) = i}
         /\ h.used = Cardinality(Entries(h)) /\ h.used \in Nat
         /\ \A k \in Keys : Slot(h, k) = At(Size(h), k)
                            /\ (Size(h) > 0 => Slot(h, k) \in 0..Size(h) - 1)
         /\ \A e \in Entries(h) : e.key \in Keys
<1> DEFINE n == Size(h)
           E == Entries(h)
<1>1. /\ h = TableOf(n, E) /\ n \in Nat /\ E \subseteq Entry /\ IsFiniteSet(E)
  BY DEF Sound
<1> HIDE DEF n, E
<1>2. /\ h.table = [i \in 0..n - 1 |-> {e \in E : At(n, e.key) = i}]
      /\ h.used = Cardinality(E)
  BY <1>1 DEF TableOf
<1>3. h.used \in Nat
  BY <1>1, <1>2, FS_CardinalityType
<1>4. \A k \in Keys : Slot(h, k) = At(n, k) /\ (n > 0 => Slot(h, k) \in 0..n - 1)
  BY <1>1, AtType DEF Slot, At, n
<1>5. \A e \in E : e.key \in Keys
  BY <1>1 DEF Entry
<1> QED BY <1>2, <1>3, <1>4, <1>5 DEF Bucket, n, E

LEMMA EmptyTableSound ==
  ASSUME NEW size \in Nat
  PROVE  /\ Sound(EmptyTable(size)) /\ Size(EmptyTable(size)) = size
         /\ Entries(EmptyTable(size)) = {} /\ EmptyTable(size).used = 0
<1>1. IsFiniteSet({}) /\ Cardinality({}) = 0
  BY FS_EmptySet
<1>2. EmptyTable(size) = TableOf(size, {})
  BY <1>1 DEF EmptyTable, TableOf
<1> QED BY <1>1, <1>2, TableOfSound

LEMMA NullTableSound ==
  /\ Sound(NullTable) /\ Size(NullTable) = 0 /\ Entries(NullTable) = {} /\ NullTable.used = 0
BY EmptyTableSound DEF NullTable

\* A chain holds what the table holds under the keys that hash to it.
LEMMA Lookup ==
  ASSUME NEW h, Sound(h), Size(h) > 0, NEW k \in Keys
  PROVE  {e \in h.table[Slot(h, k)] : e.key = k} = {e \in Entries(h) : e.key = k}
<1>1. h.table[Slot(h, k)] = {e \in Entries(h) : At(Size(h), e.key) = At(Size(h), k)}
  BY SoundProperties
<1> QED BY <1>1

LEMMA AddToTable ==
  ASSUME NEW h, Sound(h), Size(h) > 0, NEW e \in Entry, e \notin Entries(h)
  PROVE  /\ Sound(AddTo(h, e)) /\ Size(AddTo(h, e)) = Size(h)
         /\ Entries(AddTo(h, e)) = Entries(h) \cup {e}
         /\ AddTo(h, e).used = h.used + 1
<1> DEFINE n == Size(h)
           E == Entries(h)
           s == Slot(h, e.key)
<1>1. /\ n \in Nat /\ E \subseteq Entry /\ IsFiniteSet(E) /\ e.key \in Keys
  BY DEF Sound, Entry
<1>2. /\ DOMAIN h.table = 0..n - 1 /\ h.used = Cardinality(E)
      /\ \A i \in 0..n - 1 : h.table[i] = {f \in E : At(n, f.key) = i}
      /\ s = At(n, e.key) /\ s \in 0..n - 1
  BY <1>1, SoundProperties
<1>3. h.table = [i \in 0..n - 1 |-> h.table[i]]
  <2>1. h = TableOf(n, E)
    BY DEF Sound
  <2> HIDE DEF n, E
  <2> QED BY <2>1 DEF TableOf
<1>4. AddTo(h, e) = [table |-> [h.table EXCEPT ![s] = h.table[s] \cup {e}], used |-> h.used + 1]
  BY DEF AddTo, Update
<1> HIDE DEF n, E, s
<1>5. IsFiniteSet(E \cup {e}) /\ Cardinality(E \cup {e}) = Cardinality(E) + 1
  BY <1>1, FS_AddElement DEF E
<1>6. [h.table EXCEPT ![s] = h.table[s] \cup {e}]
        = [i \in 0..n - 1 |-> {f \in E \cup {e} : At(n, f.key) = i}]
  <2>1. ASSUME NEW i \in 0..n - 1
        PROVE  (IF i = s THEN h.table[s] \cup {e} ELSE h.table[i])
                 = {f \in E \cup {e} : At(n, f.key) = i}
    BY <1>2
  <2>2. [h.table EXCEPT ![s] = h.table[s] \cup {e}]
          = [i \in 0..n - 1 |-> IF i = s THEN h.table[s] \cup {e} ELSE h.table[i]]
    BY <1>2, <1>3
  <2> QED BY <2>1, <2>2
<1>7. AddTo(h, e) = TableOf(n, E \cup {e})
  BY <1>2, <1>4, <1>5, <1>6 DEF TableOf
<1>8. E \cup {e} \subseteq Entry /\ (n = 0 => E \cup {e} = {})
  BY <1>1 DEF n
<1> QED BY <1>1, <1>2, <1>5, <1>7, <1>8, TableOfSound DEF n, E

LEMMA DropFromTable ==
  ASSUME NEW h, Sound(h), NEW e \in Entries(h)
  PROVE  /\ Sound(DropFrom(h, e)) /\ Size(DropFrom(h, e)) = Size(h)
         /\ Entries(DropFrom(h, e)) = Entries(h) \ {e}
         /\ DropFrom(h, e).used = h.used - 1
<1> DEFINE n == Size(h)
           E == Entries(h)
           s == Slot(h, e.key)
<1>1. /\ n \in Nat /\ n > 0 /\ E \subseteq Entry /\ IsFiniteSet(E) /\ e.key \in Keys /\ e \in E
  BY SoundProperties DEF Sound
<1>2. /\ DOMAIN h.table = 0..n - 1 /\ h.used = Cardinality(E)
      /\ \A i \in 0..n - 1 : h.table[i] = {f \in E : At(n, f.key) = i}
      /\ s = At(n, e.key) /\ s \in 0..n - 1
  BY <1>1, SoundProperties
<1>3. h.table = [i \in 0..n - 1 |-> h.table[i]]
  <2>1. h = TableOf(n, E)
    BY DEF Sound
  <2> HIDE DEF n, E
  <2> QED BY <2>1 DEF TableOf
<1>4. DropFrom(h, e) = [table |-> [h.table EXCEPT ![s] = h.table[s] \ {e}], used |-> h.used - 1]
  BY DEF DropFrom, Update
<1> HIDE DEF n, E, s
<1>5. IsFiniteSet(E \ {e}) /\ Cardinality(E \ {e}) = Cardinality(E) - 1
  BY <1>1, FS_RemoveElement
<1>6. [h.table EXCEPT ![s] = h.table[s] \ {e}]
        = [i \in 0..n - 1 |-> {f \in E \ {e} : At(n, f.key) = i}]
  <2>1. ASSUME NEW i \in 0..n - 1
        PROVE  (IF i = s THEN h.table[s] \ {e} ELSE h.table[i])
                 = {f \in E \ {e} : At(n, f.key) = i}
    BY <1>2
  <2>2. [h.table EXCEPT ![s] = h.table[s] \ {e}]
          = [i \in 0..n - 1 |-> IF i = s THEN h.table[s] \ {e} ELSE h.table[i]]
    BY <1>2, <1>3
  <2> QED BY <2>1, <2>2
<1>7. DropFrom(h, e) = TableOf(n, E \ {e})
  BY <1>2, <1>4, <1>5, <1>6 DEF TableOf
<1>8. E \ {e} \subseteq Entry /\ (n = 0 => E \ {e} = {})
  BY <1>1
<1> QED BY <1>1, <1>2, <1>5, <1>7, <1>8, TableOfSound DEF n, E

\* Entries that are told apart by their keys.
Unique(E) == \A e, f \in E : e.key = f.key => e = f

\* The entries of E, with value v under key k.
Revalued(E, k, v) == {IF e.key = k THEN [e EXCEPT !.value = v] ELSE e : e \in E}

LEMMA RevaluedProperties ==
  ASSUME NEW E, E \subseteq Entry, Unique(E), IsFiniteSet(E), NEW k \in Keys, NEW v \in Stored
  PROVE  /\ Revalued(E, k, v) \subseteq Entry /\ IsFiniteSet(Revalued(E, k, v))
         /\ Cardinality(Revalued(E, k, v)) = Cardinality(E)
         /\ \A e \in E : e.key = k => Revalued(E, k, v) = (E \ {e}) \cup {[key |-> k, value |-> v]}
         /\ (\A e \in E : e.key # k) => Revalued(E, k, v) = E
<1> DEFINE new == [key |-> k, value |-> v]
           R == Revalued(E, k, v)
<1>1. new \in Entry
  BY DEF Entry
<1>2. ASSUME NEW e \in E, e.key = k
      PROVE  R = (E \ {e}) \cup {new}
  <2>1. [e EXCEPT !.value = v] = new
    BY <1>2 DEF Entry
  <2>2. \A f \in E : f.key = k => f = e
    BY <1>2 DEF Unique
  <2>3. \A f \in E : (IF f.key = k THEN [f EXCEPT !.value = v] ELSE f) = IF f = e THEN new ELSE f
    BY <1>2, <2>1, <2>2
  <2>4. R = {IF f = e THEN new ELSE f : f \in E}
    BY <2>3 DEF Revalued
  <2> HIDE DEF R, new
  <2> QED BY <2>4
<1>3. ASSUME \A e \in E : e.key # k
      PROVE  R = E
  <2>1. R = {e : e \in E}
    BY <1>3 DEF Revalued
  <2> QED BY <2>1
<1> HIDE DEF R, new
<1>4. R \subseteq Entry /\ IsFiniteSet(R) /\ Cardinality(R) = Cardinality(E)
  <2>1. CASE \A e \in E : e.key # k
    BY <1>3, <2>1
  <2>2. CASE \E e \in E : e.key = k
    <3>1. PICK e \in E : e.key = k
      BY <2>2
    <3>2. R = (E \ {e}) \cup {new}
      BY <1>2, <3>1
    <3>3. IsFiniteSet(E \ {e}) /\ Cardinality(E \ {e}) = Cardinality(E) - 1 /\ Cardinality(E) \in Nat
      BY FS_RemoveElement, FS_CardinalityType
    <3>4. new \notin E \ {e}
      BY <3>1 DEF new, Unique
    <3>5. IsFiniteSet((E \ {e}) \cup {new}) /\ Cardinality((E \ {e}) \cup {new}) = Cardinality(E \ {e}) + 1
      BY <3>3, <3>4, FS_AddElement
    <3> QED BY <1>1, <3>2, <3>3, <3>5
  <2> QED BY <2>1, <2>2
<1> QED BY <1>2, <1>3, <1>4 DEF R, new

LEMMA SetInTable ==
  ASSUME NEW h, Sound(h), Unique(Entries(h)), NEW k \in Keys, NEW v \in Stored,
         NEW g, g = [h EXCEPT !.table =
           [i \in Bucket(h) |-> {IF e.key = k THEN [e EXCEPT !.value = v] ELSE e : e \in h.table[i]}]]
  PROVE  Sound(g) /\ Size(g) = Size(h) /\ Entries(g) = Revalued(Entries(h), k, v) /\ g.used = h.used
<1> DEFINE n == Size(h)
           E == Entries(h)
           R == Revalued(E, k, v)
<1>1. /\ n \in Nat /\ E \subseteq Entry /\ IsFiniteSet(E) /\ Unique(E) /\ (n = 0 => E = {})
      /\ h = TableOf(n, E)
  BY DEF Sound
<1>2. /\ Bucket(h) = 0..n - 1 /\ h.used = Cardinality(E)
      /\ \A i \in 0..n - 1 : h.table[i] = {e \in E : At(n, e.key) = i}
  BY SoundProperties
<1> HIDE DEF n, E
<1>3. R \subseteq Entry /\ IsFiniteSet(R) /\ Cardinality(R) = Cardinality(E)
  BY <1>1, RevaluedProperties
<1>4. n = 0 => R = {}
  BY <1>1 DEF Revalued
<1>5. \A i \in 0..n - 1 :
        {IF e.key = k THEN [e EXCEPT !.value = v] ELSE e : e \in h.table[i]}
          = {e \in R : At(n, e.key) = i}
  <2> SUFFICES ASSUME NEW i \in 0..n - 1
               PROVE  {IF e.key = k THEN [e EXCEPT !.value = v] ELSE e : e \in h.table[i]}
                        = {e \in R : At(n, e.key) = i}
    OBVIOUS
  <2> DEFINE new(e) == IF e.key = k THEN [e EXCEPT !.value = v] ELSE e
  <2>1. \A e \in E : new(e).key = e.key
    BY <1>1 DEF Entry
  <2>2. R = {new(e) : e \in E}
    BY DEF Revalued
  <2> HIDE DEF new, R
  <2>3. {new(e) : e \in {f \in E : At(n, f.key) = i}} = {e \in R : At(n, e.key) = i}
    BY <2>1, <2>2
  <2> QED BY <1>2, <2>3 DEF new
<1>6. g = [table |-> [i \in 0..n - 1 |-> {IF e.key = k THEN [e EXCEPT !.value = v] ELSE e : e \in h.table[i]}],
           used |-> Cardinality(E)]
  <2>1. h = [table |-> h.table, used |-> Cardinality(E)]
    BY <1>1 DEF TableOf
  <2> QED BY <1>2, <2>1
<1> HIDE DEF R
<1>7. g = TableOf(n, R)
  BY <1>3, <1>5, <1>6 DEF TableOf
<1>8. /\ Size(TableOf(n, R)) = n /\ Entries(TableOf(n, R)) = R
      /\ TableOf(n, R).used = Cardinality(R) /\ Sound(TableOf(n, R))
  BY <1>1, <1>3, <1>4, TableOfSound
<1> QED BY <1>2, <1>3, <1>7, <1>8 DEF n, E, R

-----------------------------------------------------------------------------
(* Dictionaries. *)

All(t) == Entries(t.ht0) \cup Entries(t.ht1)

\* The entries left in the old table are at rehashidx or beyond it, and the new table
\* is at least twice as large.
Shape(t) ==
  /\ t = [ht0 |-> t.ht0, ht1 |-> t.ht1, idx |-> t.idx]
  /\ Sound(t.ht0) /\ Sound(t.ht1)
  /\ Unique(All(t)) /\ Entries(t.ht0) \cap Entries(t.ht1) = {}
  /\ t.idx = -1 => t.ht1 = NullTable
  /\ t.idx # -1 => /\ t.idx \in Nat /\ t.idx < Size(t.ht0)
                   /\ 2 * Size(t.ht0) <= Size(t.ht1)
                   /\ \A e \in Entries(t.ht0) : At(Size(t.ht0), e.key) >= t.idx

\* How many entries there may be: in more can come, and out go, before the next step of
\* rehashing.  Too few would not keep it going to the end of the old table.
Bounds(t, in, out) ==
  IF t.idx = -1 THEN UsedBy(t) + in <= Limit(Size(t.ht0))
  ELSE /\ UsedBy(t) + in + Size(t.ht0) <= Size(t.ht1) + t.idx + 1
       /\ Size(t.ht0) + out <= UsedBy(t) + t.idx

Good(t) == Shape(t) /\ Bounds(t, 0, 0)

LEMMA UsedProperties ==
  ASSUME NEW t, Sound(t.ht0), Sound(t.ht1)
  PROVE  /\ t.ht0.used \in Nat /\ t.ht1.used \in Nat /\ UsedBy(t) \in Nat
         /\ UsedBy(t) = t.ht0.used + t.ht1.used
         /\ Size(t.ht0) \in Nat /\ Size(t.ht1) \in Nat
         /\ t.ht0.used = 0 <=> Entries(t.ht0) = {}
         /\ t.ht1.used = 0 <=> Entries(t.ht1) = {}
<1>1. /\ t.ht0.used \in Nat /\ t.ht1.used \in Nat
      /\ t.ht0.used = Cardinality(Entries(t.ht0)) /\ t.ht1.used = Cardinality(Entries(t.ht1))
  BY SoundProperties
<1>2. /\ Size(t.ht0) \in Nat /\ Size(t.ht1) \in Nat
      /\ IsFiniteSet(Entries(t.ht0)) /\ IsFiniteSet(Entries(t.ht1))
  BY DEF Sound
<1> QED BY <1>1, <1>2, FS_EmptySet DEF UsedBy

LEMMA MoveBucketProperties ==
  ASSUME NEW t, Sound(t.ht0), Sound(t.ht1), Size(t.ht1) > 0,
         Entries(t.ht0) \cap Entries(t.ht1) = {}, NEW i \in 0..Size(t.ht0) - 1,
         NEW m, m = MoveBucket(t, i), NEW C, C = t.ht0.table[i]
  PROVE  /\ m = [ht0 |-> m.ht0, ht1 |-> m.ht1, idx |-> i + 1]
         /\ Sound(m.ht0) /\ Size(m.ht0) = Size(t.ht0) /\ Entries(m.ht0) = Entries(t.ht0) \ C
         /\ Sound(m.ht1) /\ Size(m.ht1) = Size(t.ht1) /\ Entries(m.ht1) = Entries(t.ht1) \cup C
         /\ UsedBy(m) = UsedBy(t)
<1> DEFINE n0 == Size(t.ht0)
           n1 == Size(t.ht1)
           E0 == Entries(t.ht0)
           E1 == Entries(t.ht1)
<1>1. /\ n0 \in Nat /\ E0 \subseteq Entry /\ IsFiniteSet(E0) /\ (n0 = 0 => E0 = {})
      /\ n1 \in Nat /\ E1 \subseteq Entry /\ IsFiniteSet(E1) /\ n1 > 0 /\ E0 \cap E1 = {}
      /\ i \in 0..n0 - 1
  BY DEF Sound
<1>2. /\ DOMAIN t.ht0.table = 0..n0 - 1 /\ t.ht0.used = Cardinality(E0)
      /\ \A j \in 0..n0 - 1 : t.ht0.table[j] = {e \in E0 : At(n0, e.key) = j}
      /\ t.ht0.table = [j \in 0..n0 - 1 |-> t.ht0.table[j]]
  <2>1. t.ht0 = TableOf(n0, E0)
    BY DEF Sound
  <2>2. t.ht0.table = [j \in 0..n0 - 1 |-> t.ht0.table[j]]
    <3> HIDE DEF n0, E0
    <3> QED BY <2>1 DEF TableOf
  <2> QED BY <2>2, SoundProperties
<1>3. /\ Bucket(t.ht1) = 0..n1 - 1 /\ t.ht1.used = Cardinality(E1)
      /\ \A j \in 0..n1 - 1 : t.ht1.table[j] = {e \in E1 : At(n1, e.key) = j}
      /\ \A k \in Keys : Slot(t.ht1, k) = At(n1, k)
  BY SoundProperties
<1> HIDE DEF n0, n1, E0, E1
<1>4. C = {e \in E0 : At(n0, e.key) = i} /\ C \subseteq E0 /\ \A e \in C : e.key \in Keys
  BY <1>1, <1>2 DEF Entry
<1>5. IsFiniteSet(C) /\ Cardinality(C) \in Nat
  BY <1>1, <1>4, FS_Subset, FS_CardinalityType
<1>6. /\ IsFiniteSet(E0 \ C) /\ Cardinality(E0 \ C) = Cardinality(E0) - Cardinality(C)
      /\ IsFiniteSet(E1 \cup C) /\ Cardinality(E1 \cup C) = Cardinality(E1) + Cardinality(C)
      /\ Cardinality(E0) \in Nat /\ Cardinality(E1) \in Nat
  <2>1. E0 \cap C = C /\ E1 \cap C = {}
    BY <1>1, <1>4
  <2>2. Cardinality({}) = 0
    BY FS_EmptySet
  <2>3. Cardinality(E0) \in Nat /\ Cardinality(E1) \in Nat
    BY <1>1, FS_CardinalityType
  <2>4. IsFiniteSet(E0 \ C) /\ Cardinality(E0 \ C) = Cardinality(E0) - Cardinality(E0 \cap C)
    BY <1>1, FS_Difference
  <2>5. /\ IsFiniteSet(E1 \cup C)
        /\ Cardinality(E1 \cup C) = Cardinality(E1) + Cardinality(C) - Cardinality(E1 \cap C)
    BY <1>1, <1>5, FS_Union
  <2>6. Cardinality(E0 \ C) = Cardinality(E0) - Cardinality(C)
    BY <2>1, <2>4
  <2>7. Cardinality(E1 \cup C) = Cardinality(E1) + Cardinality(C)
    <3>1. Cardinality(E1 \cap C) = 0
      BY <2>1, <2>2
    <3> QED BY <1>5, <2>3, <2>5, <3>1
  <2> QED BY <2>3, <2>4, <2>5, <2>6, <2>7
<1>7. m = [ht0 |-> [table |-> [t.ht0.table EXCEPT ![i] = {}], used |-> Cardinality(E0) - Cardinality(C)],
           ht1 |-> [table |-> [j \in 0..n1 - 1 |->
                                 t.ht1.table[j] \cup {e \in C : Slot(t.ht1, e.key) = j}],
                    used |-> Cardinality(E1) + Cardinality(C)],
           idx |-> i + 1]
  BY <1>2, <1>3 DEF MoveBucket
<1>8. [t.ht0.table EXCEPT ![i] = {}] = [j \in 0..n0 - 1 |-> {e \in E0 \ C : At(n0, e.key) = j}]
  <2>1. ASSUME NEW j \in 0..n0 - 1
        PROVE  (IF j = i THEN {} ELSE t.ht0.table[j]) = {e \in E0 \ C : At(n0, e.key) = j}
    BY <1>2, <1>4
  <2>2. [t.ht0.table EXCEPT ![i] = {}] = [j \in 0..n0 - 1 |-> IF j = i THEN {} ELSE t.ht0.table[j]]
    BY <1>2
  <2> QED BY <2>1, <2>2
<1>9. ASSUME NEW j \in 0..n1 - 1
      PROVE  t.ht1.table[j] \cup {e \in C : Slot(t.ht1, e.key) = j}
               = {e \in E1 \cup C : At(n1, e.key) = j}
  BY <1>3, <1>4
<1>10. m.ht0 = TableOf(n0, E0 \ C)
  <2>1. m.ht0 = [table |-> [t.ht0.table EXCEPT ![i] = {}], used |-> Cardinality(E0) - Cardinality(C)]
    BY <1>7
  <2> QED BY <1>6, <1>8, <2>1 DEF TableOf
<1>11. m.ht1 = TableOf(n1, E1 \cup C)
  <2>1. m.ht1 = [table |-> [j \in 0..n1 - 1 |->
                              t.ht1.table[j] \cup {e \in C : Slot(t.ht1, e.key) = j}],
                 used |-> Cardinality(E1) + Cardinality(C)]
    BY <1>7
  <2>2. [j \in 0..n1 - 1 |-> t.ht1.table[j] \cup {e \in C : Slot(t.ht1, e.key) = j}]
          = [j \in 0..n1 - 1 |-> {e \in E1 \cup C : At(n1, e.key) = j}]
    BY <1>9
  <2> QED BY <1>6, <2>1, <2>2 DEF TableOf
<1>12. /\ Sound(m.ht0) /\ Size(m.ht0) = n0 /\ Entries(m.ht0) = E0 \ C
       /\ m.ht0.used = Cardinality(E0 \ C)
  <2> DEFINE E == E0 \ C
  <2>1. E \subseteq Entry /\ IsFiniteSet(E) /\ (n0 = 0 => E = {})
    BY <1>1, <1>6
  <2> HIDE DEF E
  <2>2. /\ Size(TableOf(n0, E)) = n0 /\ Entries(TableOf(n0, E)) = E
        /\ TableOf(n0, E).used = Cardinality(E) /\ Sound(TableOf(n0, E))
    BY <1>1, <2>1, TableOfSound
  <2> QED BY <1>10, <2>2 DEF E
<1>13. /\ Sound(m.ht1) /\ Size(m.ht1) = n1 /\ Entries(m.ht1) = E1 \cup C
       /\ m.ht1.used = Cardinality(E1 \cup C)
  <2> DEFINE E == E1 \cup C
  <2>1. E \subseteq Entry /\ IsFiniteSet(E) /\ (n1 = 0 => E = {})
    BY <1>1, <1>4, <1>6
  <2> HIDE DEF E
  <2>2. /\ Size(TableOf(n1, E)) = n1 /\ Entries(TableOf(n1, E)) = E
        /\ TableOf(n1, E).used = Cardinality(E) /\ Sound(TableOf(n1, E))
    BY <1>1, <2>1, TableOfSound
  <2> QED BY <1>11, <2>2 DEF E
<1>14. UsedBy(m) = UsedBy(t)
  <2>1. UsedBy(m) = Cardinality(E0) - Cardinality(C) + (Cardinality(E1) + Cardinality(C))
    BY <1>6, <1>12, <1>13 DEF UsedBy
  <2>2. UsedBy(t) = Cardinality(E0) + Cardinality(E1)
    BY <1>2, <1>3 DEF UsedBy
  <2> QED BY <1>5, <1>6, <2>1, <2>2
<1>15. m = [ht0 |-> m.ht0, ht1 |-> m.ht1, idx |-> i + 1]
  BY <1>7
<1> QED BY <1>12, <1>13, <1>14, <1>15 DEF n0, n1, E0, E1

\* The first bucket of the old table from rehashidx on that is not empty.
LEMMA FirstPending ==
  ASSUME NEW t, Shape(t), t.idx # -1, t.ht0.used # 0,
         NEW next, next = CHOOSE i \in Pending(t) : \A j \in Pending(t) : i <= j
  PROVE  /\ next \in 0..Size(t.ht0) - 1 /\ next >= t.idx
         /\ \A e \in Entries(t.ht0) : At(Size(t.ht0), e.key) >= next
<1> DEFINE n0 == Size(t.ht0)
           E0 == Entries(t.ht0)
<1>1. /\ Bucket(t.ht0) = 0..n0 - 1 /\ n0 \in Nat /\ t.idx \in Nat
      /\ \A i \in 0..n0 - 1 : t.ht0.table[i] = {e \in E0 : At(n0, e.key) = i}
      /\ \A e \in E0 : At(n0, e.key) >= t.idx /\ e.key \in Keys
      /\ n0 = 0 => E0 = {}
      /\ E0 # {}
  BY SoundProperties, UsedProperties DEF Shape, Sound
<1> HIDE DEF n0, E0
<1>2. Pending(t) = {i \in 0..n0 - 1 : i >= t.idx /\ t.ht0.table[i] # {}}
  BY <1>1 DEF Pending
<1>3. \A e \in E0 : At(n0, e.key) \in Pending(t)
  <2> SUFFICES ASSUME NEW e \in E0 PROVE At(n0, e.key) \in Pending(t)
    OBVIOUS
  <2>1. n0 > 0
    BY <1>1
  <2>2. At(n0, e.key) \in 0..n0 - 1
    BY <1>1, <2>1, AtType
  <2>3. e \in t.ht0.table[At(n0, e.key)]
    BY <1>1, <2>2
  <2> QED BY <1>1, <1>2, <2>2, <2>3
<1>4. \E i \in Pending(t) : \A j \in Pending(t) : i <= j
  <2>1. Pending(t) \subseteq Nat /\ Pending(t) # {}
    BY <1>1, <1>2, <1>3
  <2> QED BY <2>1, LeastNat
<1>5. next \in Pending(t) /\ \A j \in Pending(t) : next <= j
  BY <1>4
<1> QED BY <1>1, <1>2, <1>3, <1>5 DEF n0, E0

\* When the old table is empty the new one takes its place, and is not too full.
LEMMA FinishProperties ==
  ASSUME NEW t, Sound(t.ht0), Sound(t.ht1), Unique(All(t)), t.ht0.used = 0,
         UsedBy(t) <= Size(t.ht1), NEW s, s = Finish(t)
  PROVE  /\ Good(s) /\ All(s) = All(t) /\ UsedBy(s) = UsedBy(t)
         /\ s.idx = -1 /\ Size(s.ht0) = Size(t.ht1)
<1>1. s = [ht0 |-> t.ht1, ht1 |-> NullTable, idx |-> -1]
  BY DEF Finish
<1>2. Entries(t.ht0) = {} /\ Size(t.ht1) \in Nat /\ t.ht1.used \in Nat
  BY UsedProperties
<1>3. All(s) = All(t) /\ UsedBy(s) = UsedBy(t)
  BY <1>1, <1>2, NullTableSound DEF All, UsedBy
<1>4. Bounds(s, 0, 0)
  <2>1. UsedBy(t) \in Nat /\ Limit(Size(t.ht1)) \in Nat /\ Size(t.ht1) <= Limit(Size(t.ht1))
    BY <1>2, UsedProperties, LimitProperties
  <2>2. UsedBy(t) + 0 <= Limit(Size(t.ht1))
    BY <1>2, <2>1
  <2> QED BY <1>1, <1>3, <2>2 DEF Bounds
<1>5. Shape(s)
  BY <1>1, <1>3, NullTableSound DEF Shape
<1> QED BY <1>1, <1>3, <1>4, <1>5 DEF Good

\* A step of rehashing moves entries and rehashidx, and makes room for one more.
LEMMA RehashStepProperties ==
  ASSUME NEW t, Good(t), NEW s, s = RehashStep(t)
  PROVE  /\ Good(s) /\ All(s) = All(t) /\ UsedBy(s) = UsedBy(t)
         /\ s.idx # -1 => Bounds(s, 1, 1)
         /\ t.idx = -1 => s = t
         /\ t.idx # -1 => \/ s.idx = -1 /\ Size(s.ht0) = Size(t.ht1)
                          \/ s.idx # -1 /\ s.idx > t.idx /\ Size(s.ht0) = Size(t.ht0)
<1> DEFINE n0 == Size(t.ht0)
           n1 == Size(t.ht1)
           next == CHOOSE i \in Pending(t) : \A j \in Pending(t) : i <= j
<1>1. /\ Sound(t.ht0) /\ Sound(t.ht1) /\ Unique(All(t)) /\ Entries(t.ht0) \cap Entries(t.ht1) = {}
      /\ t = [ht0 |-> t.ht0, ht1 |-> t.ht1, idx |-> t.idx]
  BY DEF Good, Shape
<1>2. n0 \in Nat /\ n1 \in Nat /\ UsedBy(t) \in Nat
  BY <1>1, UsedProperties
<1>3. CASE t.idx = -1
  BY <1>3 DEF RehashStep, IsRehashing
<1>4. CASE t.idx # -1
  <2>1. /\ t.idx \in Nat /\ t.idx < n0 /\ 2 * n0 <= n1
        /\ UsedBy(t) + n0 <= n1 + t.idx + 1 /\ n0 <= UsedBy(t) + t.idx
        /\ \A e \in Entries(t.ht0) : At(n0, e.key) >= t.idx
    BY <1>2, <1>4 DEF Good, Shape, Bounds
  <2>2. UsedBy(t) <= n1
    <3> HIDE DEF n0, n1
    <3> QED BY <1>2, <2>1
  <2>3. CASE t.ht0.used = 0
    <3>1. s = Finish(t)
      BY <1>4, <2>3 DEF RehashStep, IsRehashing
    <3> QED BY <1>1, <1>4, <2>2, <2>3, <3>1, FinishProperties
  <2>4. CASE t.ht0.used # 0
    <3>1. /\ next \in 0..n0 - 1 /\ next >= t.idx
          /\ \A e \in Entries(t.ht0) : At(n0, e.key) >= next
      BY <1>4, <2>4, FirstPending DEF Good
    <3>2. EmptyVisits \in Nat /\ EmptyVisits > 0
      BY HashTableAssumption
    <3>3. s = IF next - t.idx >= EmptyVisits THEN [t EXCEPT !.idx = @ + EmptyVisits]
              ELSE Finish(MoveBucket(t, next))
      BY <1>4, <2>4 DEF RehashStep, IsRehashing
    <3> HIDE DEF next
    <3>4. CASE next - t.idx >= EmptyVisits
      <4>1. /\ s = [ht0 |-> t.ht0, ht1 |-> t.ht1, idx |-> t.idx + EmptyVisits]
        BY <1>1, <3>3, <3>4
      <4>2. s.ht0 = t.ht0 /\ s.ht1 = t.ht1 /\ s.idx = t.idx + EmptyVisits
        BY <4>1
      <4>3. /\ s.idx \in Nat /\ s.idx > t.idx /\ s.idx < n0 /\ s.idx # -1 /\ s.idx <= next
        <5> HIDE DEF n0
        <5> QED BY <1>2, <2>1, <3>1, <3>2, <3>4, <4>2
      <4>4. \A e \in Entries(s.ht0) : At(Size(s.ht0), e.key) >= s.idx
        <5> SUFFICES ASSUME NEW e \in Entries(t.ht0) PROVE At(n0, e.key) >= s.idx
          BY <4>2
        <5>1. At(n0, e.key) >= next /\ At(n0, e.key) \in Int
          <6>1. e.key \in Keys
            BY <1>1, SoundProperties
          <6>2. n0 > 0
            BY <1>2, <2>1
          <6>3. At(n0, e.key) \in 0..n0 - 1
            BY <1>2, <6>1, <6>2, AtType
          <6> QED BY <3>1, <6>3
        <5> HIDE DEF n0
        <5> QED BY <3>1, <4>3, <5>1
      <4>5. All(s) = All(t) /\ UsedBy(s) = UsedBy(t)
        BY <4>2 DEF All, UsedBy
      <4>6. Bounds(s, 1, 1) /\ Bounds(s, 0, 0)
        <5>1. /\ UsedBy(s) + 1 + n0 <= n1 + s.idx + 1 /\ n0 + 1 <= UsedBy(s) + s.idx
              /\ UsedBy(s) + 0 + n0 <= n1 + s.idx + 1 /\ n0 + 0 <= UsedBy(s) + s.idx
          <6> HIDE DEF n0, n1
          <6> QED BY <1>2, <2>1, <4>3, <4>5
        <5> QED BY <4>2, <4>3, <5>1 DEF Bounds
      <4>7. Shape(s)
        BY <1>1, <2>1, <4>1, <4>2, <4>3, <4>4, <4>5 DEF Shape
      <4> QED BY <1>4, <4>2, <4>3, <4>5, <4>6, <4>7 DEF Good
    <3>5. CASE ~(next - t.idx >= EmptyVisits)
      <4> DEFINE m == MoveBucket(t, next)
                 C == t.ht0.table[next]
      <4>1. n1 > 0
        BY <1>2, <2>1
      <4>2. /\ m = [ht0 |-> m.ht0, ht1 |-> m.ht1, idx |-> next + 1]
            /\ Sound(m.ht0) /\ Size(m.ht0) = n0 /\ Entries(m.ht0) = Entries(t.ht0) \ C
            /\ Sound(m.ht1) /\ Size(m.ht1) = n1 /\ Entries(m.ht1) = Entries(t.ht1) \cup C
            /\ UsedBy(m) = UsedBy(t)
        BY <1>1, <3>1, <4>1, MoveBucketProperties
      <4>3. C = {e \in Entries(t.ht0) : At(n0, e.key) = next}
        BY <1>1, <3>1, SoundProperties
      <4>4. s = Finish(m)
        BY <3>3, <3>5
      <4> HIDE DEF m, C
      <4>5. All(m) = All(t) /\ Entries(m.ht0) \cap Entries(m.ht1) = {} /\ m.idx = next + 1
        <5>1. m.idx = next + 1
          BY <4>2
        <5> QED BY <1>1, <4>2, <4>3, <5>1 DEF All
      <4>6. CASE m.ht0.used = 0
        <5>1. Unique(All(m)) /\ UsedBy(m) <= Size(m.ht1)
          BY <1>1, <2>2, <4>2, <4>5
        <5> QED BY <1>4, <4>2, <4>4, <4>5, <4>6, <5>1, FinishProperties
      <4>7. CASE m.ht0.used # 0
        <5>1. s = m
          BY <4>4, <4>7 DEF Finish
        <5>2. \A e \in Entries(m.ht0) : At(n0, e.key) >= m.idx /\ At(n0, e.key) \in 0..n0 - 1
          <6> SUFFICES ASSUME NEW e \in Entries(m.ht0)
                       PROVE  At(n0, e.key) >= m.idx /\ At(n0, e.key) \in 0..n0 - 1
            OBVIOUS
          <6>1. e \in Entries(t.ht0) /\ At(n0, e.key) # next
            BY <4>2, <4>3
          <6>2. e.key \in Keys /\ At(n0, e.key) >= next
            BY <1>1, <3>1, <6>1, SoundProperties
          <6>3. n0 > 0
            BY <1>2, <2>1
          <6>4. At(n0, e.key) \in 0..n0 - 1
            BY <1>2, <6>2, <6>3, AtType
          <6> HIDE DEF n0
          <6> QED BY <1>2, <3>1, <4>5, <6>1, <6>2, <6>4
        <5>3. m.idx < n0
          <6>1. PICK e \in Entries(m.ht0) : TRUE
            BY <4>2, <4>7, UsedProperties
          <6> HIDE DEF n0
          <6> QED BY <1>2, <3>1, <4>5, <5>2, <6>1
        <5>4. m.idx \in Nat /\ m.idx > t.idx /\ m.idx # -1
          <6> HIDE DEF n0
          <6> QED BY <1>2, <2>1, <3>1, <4>5
        <5>5. Bounds(m, 1, 1) /\ Bounds(m, 0, 0)
          <6>1. /\ UsedBy(m) + 1 + n0 <= n1 + m.idx + 1 /\ n0 + 1 <= UsedBy(m) + m.idx
                /\ UsedBy(m) + 0 + n0 <= n1 + m.idx + 1 /\ n0 + 0 <= UsedBy(m) + m.idx
            <7> HIDE DEF n0, n1
            <7> QED BY <1>2, <2>1, <4>2, <5>4
          <6> QED BY <4>2, <5>4, <6>1 DEF Bounds
        <5>6. m = [ht0 |-> m.ht0, ht1 |-> m.ht1, idx |-> m.idx]
          BY <4>2, <4>5
        <5>7. Shape(m)
          BY <1>1, <2>1, <4>2, <4>5, <5>2, <5>3, <5>4, <5>6 DEF Shape
        <5> QED BY <1>4, <4>2, <4>5, <5>1, <5>4, <5>5, <5>7 DEF Good
      <4> QED BY <4>6, <4>7
    <3> QED BY <3>4, <3>5
  <2> QED BY <2>3, <2>4
<1> QED BY <1>3, <1>4

\* Expanding leaves room for one entry more.
LEMMA ExpandProperties ==
  ASSUME NEW t, Good(t), t.idx # -1 => Bounds(t, 1, 1), NEW s, s = ExpandIfNeeded(t)
  PROVE  /\ Shape(s) /\ Bounds(s, 1, 0) /\ Good(s)
         /\ All(s) = All(t) /\ UsedBy(s) = UsedBy(t) /\ Size(s.ht0) > 0
         /\ t.idx # -1 => s = t
         /\ Size(t.ht0) > 0 => s.ht0 = t.ht0
<1> DEFINE n0 == Size(t.ht0)
<1>1. /\ Sound(t.ht0) /\ Sound(t.ht1) /\ Unique(All(t)) /\ Entries(t.ht0) \cap Entries(t.ht1) = {}
      /\ t = [ht0 |-> t.ht0, ht1 |-> t.ht1, idx |-> t.idx]
  BY DEF Good, Shape
<1>2. n0 \in Nat /\ UsedBy(t) \in Nat /\ t.ht0.used \in Nat
  BY <1>1, UsedProperties
<1>3. CASE t.idx # -1
  <2>1. s = t /\ t.idx \in Nat /\ t.idx < n0
    BY <1>3 DEF ExpandIfNeeded, IsRehashing, Good, Shape
  <2>2. Bounds(t, 1, 0)
    <3>1. Size(t.ht1) \in Nat
      BY <1>1, UsedProperties
    <3>2. UsedBy(t) + 1 + n0 <= Size(t.ht1) + t.idx + 1 /\ n0 + 1 <= UsedBy(t) + t.idx
      BY <1>3 DEF Bounds
    <3>3. n0 + 0 <= UsedBy(t) + t.idx
      BY <1>2, <2>1, <3>2
    <3> QED BY <1>3, <3>2, <3>3 DEF Bounds
  <2>3. n0 > 0
    BY <1>2, <2>1
  <2> QED BY <2>1, <2>2, <2>3 DEF Good
<1>4. CASE t.idx = -1
  <2>1. t.ht1 = NullTable /\ UsedBy(t) = t.ht0.used /\ UsedBy(t) <= Limit(n0)
    <3>1. t.ht1 = NullTable
      BY <1>4 DEF Good, Shape
    <3>2. UsedBy(t) + 0 <= Limit(n0)
      BY <1>4 DEF Good, Bounds
    <3>3. Limit(n0) \in Nat
      BY <1>2, LimitProperties
    <3>4. UsedBy(t) = t.ht0.used + 0
      BY <3>1, NullTableSound DEF UsedBy
    <3> QED BY <1>2, <3>1, <3>2, <3>3, <3>4
  <2>2. CASE n0 = 0
    <3> DEFINE size == NextPower(InitSize)
    <3>1. Entries(t.ht0) = {} /\ t.ht0.used = 0 /\ t.ht0.table = NullTable.table
      <4>1. Entries(t.ht0) = {}
        BY <1>1, <2>2 DEF Sound
      <4>2. t.ht0 = TableOf(0, {})
        BY <1>1, <2>2, <4>1 DEF Sound
      <4>3. t.ht0.table = NullTable.table
        BY <4>2 DEF TableOf, NullTable, EmptyTable
      <4> QED BY <1>1, <4>1, <4>3, UsedProperties
    <3>2. s = [ht0 |-> EmptyTable(size), ht1 |-> t.ht1, idx |-> -1]
      BY <1>1, <1>4, <2>2, <3>1 DEF ExpandIfNeeded, IsRehashing, Expand
    <3>3. size \in Nat /\ size > 0
      BY NextPowerProperties, HashTableAssumption
    <3> HIDE DEF size
    <3>4. /\ Sound(EmptyTable(size)) /\ Size(EmptyTable(size)) = size
          /\ Entries(EmptyTable(size)) = {} /\ EmptyTable(size).used = 0
      BY <3>3, EmptyTableSound
    <3>5. s.ht0 = EmptyTable(size) /\ s.ht1 = t.ht1 /\ s.idx = -1
      BY <3>2
    <3>6. All(s) = All(t) /\ UsedBy(s) = UsedBy(t) /\ UsedBy(t) = 0
      BY <2>1, <3>1, <3>4, <3>5, NullTableSound DEF All, UsedBy
    <3>7. Bounds(s, 1, 0) /\ Bounds(s, 0, 0)
      <4>1. Limit(size) \in Nat /\ size <= Limit(size)
        BY <3>3, LimitProperties
      <4>2. UsedBy(s) + 1 <= Limit(size) /\ UsedBy(s) + 0 <= Limit(size)
        BY <3>3, <3>6, <4>1
      <4> QED BY <3>4, <3>5, <4>2 DEF Bounds
    <3>8. Shape(s)
      BY <1>1, <2>1, <3>2, <3>4, <3>5, <3>6 DEF Shape
    <3> QED BY <1>4, <2>2, <3>3, <3>4, <3>5, <3>6, <3>7, <3>8 DEF Good
  <2>3. CASE n0 # 0 /\ t.ht0.used \div n0 > MaxLoadFactor
    <3> DEFINE size == NextPower(t.ht0.used * 2)
    <3>1. t.ht0.table # NullTable.table
      <4>1. DOMAIN t.ht0.table = 0..n0 - 1 /\ DOMAIN NullTable.table = 0..0 - 1
        BY <1>1, SoundProperties DEF NullTable, EmptyTable
      <4>2. 0 \in 0..n0 - 1 /\ 0 \notin 0..0 - 1
        BY <1>2, <2>3
      <4> QED BY <4>1, <4>2
    <3>2. s = [ht0 |-> t.ht0, ht1 |-> EmptyTable(size), idx |-> 0]
      BY <1>1, <1>4, <2>3, <3>1 DEF ExpandIfNeeded, IsRehashing, Expand
    <3>3. t.ht0.used >= n0
      BY <1>2, <2>3, LimitProperties
    <3>4. size \in Nat /\ size >= t.ht0.used * 2
      BY <1>2, NextPowerProperties
    <3> HIDE DEF size
    <3>5. /\ Sound(EmptyTable(size)) /\ Size(EmptyTable(size)) = size
          /\ Entries(EmptyTable(size)) = {} /\ EmptyTable(size).used = 0
      BY <3>4, EmptyTableSound
    <3>6. s.ht0 = t.ht0 /\ s.ht1 = EmptyTable(size) /\ s.idx = 0
      BY <3>2
    <3>7. All(s) = All(t) /\ UsedBy(s) = UsedBy(t)
      BY <2>1, <3>5, <3>6, NullTableSound DEF All, UsedBy
    <3>8. Bounds(s, 1, 0) /\ Bounds(s, 0, 0)
      <4>1. /\ UsedBy(s) + 1 + n0 <= size + 0 + 1 /\ n0 + 0 <= UsedBy(s) + 0
            /\ UsedBy(s) + 0 + n0 <= size + 0 + 1
        <5> HIDE DEF n0
        <5> QED BY <1>2, <2>1, <3>3, <3>4, <3>7
      <4>2. s.idx # -1
        BY <3>6
      <4> QED BY <3>5, <3>6, <4>1, <4>2 DEF Bounds
    <3>9. \A e \in Entries(s.ht0) : At(Size(s.ht0), e.key) >= s.idx
      <4> SUFFICES ASSUME NEW e \in Entries(t.ht0) PROVE At(n0, e.key) >= 0
        BY <3>6
      <4>1. e.key \in Keys /\ n0 > 0
        BY <1>1, <1>2, <2>3, SoundProperties
      <4>2. At(n0, e.key) \in 0..n0 - 1
        BY <1>2, <4>1, AtType
      <4> HIDE DEF n0
      <4> QED BY <1>2, <4>2
    <3>10. s.idx \in Nat /\ s.idx < n0 /\ 2 * n0 <= size /\ n0 > 0
      <4> HIDE DEF n0
      <4> QED BY <1>2, <2>3, <3>3, <3>4, <3>6
    <3>11. Shape(s)
      <4>1. Entries(s.ht0) \cap Entries(s.ht1) = {} /\ Unique(All(s)) /\ s.idx # -1
        BY <1>1, <3>5, <3>6, <3>7
      <4>2. s = [ht0 |-> s.ht0, ht1 |-> s.ht1, idx |-> s.idx]
        BY <3>2
      <4> QED BY <1>1, <3>5, <3>6, <3>9, <3>10, <4>1, <4>2 DEF Shape
    <3> QED BY <1>4, <3>6, <3>7, <3>8, <3>10, <3>11 DEF Good
  <2>4. CASE n0 # 0 /\ ~(t.ht0.used \div n0 > MaxLoadFactor)
    <3>1. s = t
      BY <1>4, <2>4 DEF ExpandIfNeeded, IsRehashing
    <3>2. n0 > 0
      BY <1>2, <2>4
    <3>3. UsedBy(t) + 1 <= Limit(n0)
      BY <1>2, <2>1, <2>4, <3>2, LimitProperties
    <3>4. Bounds(t, 1, 0)
      BY <1>4, <3>3 DEF Bounds
    <3> QED BY <1>4, <3>1, <3>2, <3>4 DEF Good
  <2> QED BY <2>2, <2>3, <2>4
<1> QED BY <1>3, <1>4

-----------------------------------------------------------------------------
(* Operations. *)

\* From t to u rehashing went on, if it is still the same.
Advanced(t, u) ==
  t.idx # -1 /\ u.idx # -1 /\ Size(u.ht0) = Size(t.ht0) => u.idx > t.idx

\* The entries of E under key k.
Under(E, k) == {e \in E : e.key = k}

\* E once there is an entry under k: a new one with value v if there was none.
Inserted(E, k, v) ==
  IF Under(E, k) # {} THEN E ELSE E \cup {[key |-> k, value |-> v]}

LEMMA FoundProperties ==
  ASSUME NEW t, Shape(t), Size(t.ht0) > 0, NEW k \in Keys
  PROVE  Found(t, k) = Under(All(t), k)
<1>1. Sound(t.ht0) /\ Sound(t.ht1)
  BY DEF Shape
<1>2. {e \in t.ht0.table[Slot(t.ht0, k)] : e.key = k} = {e \in Entries(t.ht0) : e.key = k}
  BY <1>1, Lookup
<1>3. CASE t.idx = -1
  <2>1. Entries(t.ht1) = {}
    BY <1>3, NullTableSound DEF Shape
  <2> QED BY <1>2, <1>3, <2>1 DEF Found, IsRehashing, All, Under
<1>4. CASE t.idx # -1
  <2>1. Size(t.ht1) > 0
    BY <1>1, <1>4, UsedProperties DEF Shape
  <2>2. {e \in t.ht1.table[Slot(t.ht1, k)] : e.key = k} = {e \in Entries(t.ht1) : e.key = k}
    BY <1>1, <2>1, Lookup
  <2> QED BY <1>2, <1>4, <2>2 DEF Found, IsRehashing, All, Under
<1> QED BY <1>3, <1>4

LEMMA InsertRawProperties ==
  ASSUME NEW t, Good(t), NEW k \in Keys, NEW v \in Stored, NEW u, u = InsertRaw(t, k, v)
  PROVE  /\ Good(u) /\ Advanced(t, u)
         /\ Found(ExpandIfNeeded(RehashStep(t)), k) = Under(All(t), k)
         /\ Found(u, k) = Under(All(u), k)
         /\ All(u) = Inserted(All(t), k, v)
<1> DEFINE r == RehashStep(t)
           s == ExpandIfNeeded(r)
           e == [key |-> k, value |-> v]
<1>1. /\ Good(r) /\ All(r) = All(t) /\ UsedBy(r) = UsedBy(t)
      /\ r.idx # -1 => Bounds(r, 1, 1)
      /\ t.idx = -1 => r = t
      /\ t.idx # -1 => \/ r.idx = -1 /\ Size(r.ht0) = Size(t.ht1)
                       \/ r.idx # -1 /\ r.idx > t.idx /\ Size(r.ht0) = Size(t.ht0)
  BY RehashStepProperties
<1> HIDE DEF r
<1>2. /\ Shape(s) /\ Bounds(s, 1, 0) /\ Good(s)
      /\ All(s) = All(r) /\ UsedBy(s) = UsedBy(r) /\ Size(s.ht0) > 0
      /\ r.idx # -1 => s = r
      /\ Size(r.ht0) > 0 => s.ht0 = r.ht0
  BY <1>1, ExpandProperties
<1> HIDE DEF s
<1>3. Advanced(t, s)
  <2> SUFFICES ASSUME t.idx # -1, Size(s.ht0) = Size(t.ht0) PROVE s.idx > t.idx
    BY DEF Advanced
  <2>1. /\ Size(t.ht0) \in Nat /\ Size(t.ht1) \in Nat /\ t.idx \in Nat /\ t.idx < Size(t.ht0)
        /\ 2 * Size(t.ht0) <= Size(t.ht1)
    BY UsedProperties DEF Good, Shape
  <2>2. Size(t.ht1) > 0 /\ Size(t.ht1) # Size(t.ht0)
    BY <2>1
  <2> QED BY <1>1, <1>2, <2>2
<1>4. Found(s, k) = Under(All(t), k)
  BY <1>1, <1>2, FoundProperties
<1>5. Found(ExpandIfNeeded(RehashStep(t)), k) = Under(All(t), k)
  BY <1>4 DEF r, s
<1>6. CASE Under(All(t), k) # {}
  <2>1. u = s
    BY <1>4, <1>6 DEF InsertRaw, r, s
  <2> QED BY <1>1, <1>2, <1>3, <1>4, <1>5, <1>6, <2>1 DEF Inserted
<1>7. CASE Under(All(t), k) = {}
  <2>1. u = IF s.idx # -1 THEN [s EXCEPT !.ht1 = AddTo(@, e)] ELSE [s EXCEPT !.ht0 = AddTo(@, e)]
    BY <1>4, <1>7 DEF InsertRaw, IsRehashing, r, s
  <2>2. /\ Sound(s.ht0) /\ Sound(s.ht1) /\ s = [ht0 |-> s.ht0, ht1 |-> s.ht1, idx |-> s.idx]
        /\ Unique(All(s)) /\ Entries(s.ht0) \cap Entries(s.ht1) = {}
    BY <1>2 DEF Shape
  <2>3. e \in Entry /\ e.key = k /\ \A f \in All(s) : f.key # k
    BY <1>1, <1>2, <1>7 DEF Entry, Under
  <2> HIDE DEF e
  <2>4. e \notin Entries(s.ht0) /\ e \notin Entries(s.ht1) /\ Unique(All(s) \cup {e})
    BY <2>2, <2>3 DEF All, Unique
  <2>5. s.ht0.used \in Nat /\ s.ht1.used \in Nat /\ UsedBy(s) \in Nat
        /\ Size(s.ht0) \in Nat /\ Size(s.ht1) \in Nat
    BY <2>2, UsedProperties
  <2>6. Good(u) /\ All(u) = All(s) \cup {e} /\ u.idx = s.idx /\ Size(u.ht0) = Size(s.ht0)
    <3>1. CASE s.idx = -1
      <4> DEFINE h == AddTo(s.ht0, e)
      <4>1. u = [ht0 |-> h, ht1 |-> s.ht1, idx |-> -1]
        BY <2>1, <2>2, <3>1
      <4>2. /\ Sound(h) /\ Size(h) = Size(s.ht0) /\ Entries(h) = Entries(s.ht0) \cup {e}
            /\ h.used = s.ht0.used + 1
        BY <1>2, <2>2, <2>3, <2>4, AddToTable
      <4> HIDE DEF h
      <4>3. u.ht0 = h /\ u.ht1 = s.ht1 /\ u.idx = -1
        BY <4>1
      <4>4. s.ht1 = NullTable /\ Entries(s.ht1) = {}
        BY <1>2, <3>1, NullTableSound DEF Shape
      <4>5. All(u) = All(s) \cup {e} /\ Entries(u.ht0) \cap Entries(u.ht1) = {}
        BY <4>2, <4>3, <4>4 DEF All
      <4>6. UsedBy(u) = UsedBy(s) + 1
        BY <2>5, <4>2, <4>3 DEF UsedBy
      <4>7. Bounds(u, 0, 0)
        <5>1. UsedBy(s) + 1 <= Limit(Size(s.ht0))
          BY <1>2, <3>1 DEF Bounds
        <5>2. UsedBy(u) + 0 <= Limit(Size(s.ht0))
          BY <2>5, <4>6, <5>1
        <5> QED BY <4>2, <4>3, <5>2 DEF Bounds
      <4>8. Shape(u)
        BY <2>2, <2>4, <4>1, <4>2, <4>3, <4>4, <4>5 DEF Shape
      <4> QED BY <3>1, <4>2, <4>3, <4>5, <4>7, <4>8 DEF Good
    <3>2. CASE s.idx # -1
      <4> DEFINE h == AddTo(s.ht1, e)
      <4>1. u = [ht0 |-> s.ht0, ht1 |-> h, idx |-> s.idx]
        BY <2>1, <2>2, <3>2
      <4>2. /\ s.idx \in Nat /\ s.idx < Size(s.ht0) /\ 2 * Size(s.ht0) <= Size(s.ht1)
            /\ \A f \in Entries(s.ht0) : At(Size(s.ht0), f.key) >= s.idx
        BY <1>2, <3>2 DEF Shape
      <4>3. Size(s.ht1) > 0
        BY <1>2, <2>5, <4>2
      <4>4. /\ Sound(h) /\ Size(h) = Size(s.ht1) /\ Entries(h) = Entries(s.ht1) \cup {e}
            /\ h.used = s.ht1.used + 1
        BY <2>2, <2>3, <2>4, <4>3, AddToTable
      <4> HIDE DEF h
      <4>5. u.ht0 = s.ht0 /\ u.ht1 = h /\ u.idx = s.idx
        BY <4>1
      <4>6. All(u) = All(s) \cup {e} /\ Entries(u.ht0) \cap Entries(u.ht1) = {}
        BY <2>2, <2>4, <4>4, <4>5 DEF All
      <4>7. UsedBy(u) = UsedBy(s) + 1
        BY <2>5, <4>4, <4>5 DEF UsedBy
      <4>8. Bounds(u, 0, 0)
        <5>1. /\ UsedBy(s) + 1 + Size(s.ht0) <= Size(s.ht1) + s.idx + 1
              /\ Size(s.ht0) + 0 <= UsedBy(s) + s.idx
          BY <1>2, <3>2 DEF Bounds
        <5>2. /\ UsedBy(u) + 0 + Size(s.ht0) <= Size(s.ht1) + s.idx + 1
              /\ Size(s.ht0) + 0 <= UsedBy(u) + s.idx
          BY <2>5, <4>2, <4>7, <5>1
        <5> QED BY <3>2, <4>4, <4>5, <5>2 DEF Bounds
      <4>9. Shape(u)
        BY <2>2, <2>4, <3>2, <4>1, <4>2, <4>4, <4>5, <4>6 DEF Shape
      <4> QED BY <4>4, <4>5, <4>6, <4>8, <4>9 DEF Good
    <3> QED BY <3>1, <3>2
  <2>7. Advanced(t, u)
    BY <1>3, <2>6 DEF Advanced
  <2>8. Found(u, k) = Under(All(u), k)
    BY <1>2, <2>6, FoundProperties DEF Good
  <2> QED BY <1>1, <1>2, <1>5, <1>7, <2>6, <2>7, <2>8 DEF e, Inserted
<1> QED BY <1>6, <1>7

LEMMA SetValueProperties ==
  ASSUME NEW t, Good(t), NEW k \in Keys, NEW v \in Stored, NEW u, u = SetValue(t, k, v)
  PROVE  /\ Good(u) /\ All(u) = Revalued(All(t), k, v)
         /\ u.idx = t.idx /\ Size(u.ht0) = Size(t.ht0)
<1> DEFINE Set(h) == [h EXCEPT !.table =
      [i \in Bucket(h) |-> {IF e.key = k THEN [e EXCEPT !.value = v] ELSE e : e \in h.table[i]}]]
<1>1. /\ Sound(t.ht0) /\ Sound(t.ht1) /\ Unique(All(t)) /\ Entries(t.ht0) \cap Entries(t.ht1) = {}
      /\ t = [ht0 |-> t.ht0, ht1 |-> t.ht1, idx |-> t.idx]
      /\ Entries(t.ht0) \subseteq Entry /\ Entries(t.ht1) \subseteq Entry
  BY DEF Good, Shape, Sound
<1>2. Unique(Entries(t.ht0)) /\ Unique(Entries(t.ht1))
  BY <1>1 DEF Unique, All
<1>3. u = [ht0 |-> Set(t.ht0), ht1 |-> Set(t.ht1), idx |-> t.idx]
  BY <1>1 DEF SetValue
<1>4. ASSUME NEW h, Sound(h), Unique(Entries(h))
      PROVE  /\ Sound(Set(h)) /\ Size(Set(h)) = Size(h)
             /\ Entries(Set(h)) = Revalued(Entries(h), k, v) /\ Set(h).used = h.used
  BY <1>4, SetInTable
<1> HIDE DEF Set
<1>5. /\ Sound(Set(t.ht0)) /\ Size(Set(t.ht0)) = Size(t.ht0)
      /\ Entries(Set(t.ht0)) = Revalued(Entries(t.ht0), k, v) /\ Set(t.ht0).used = t.ht0.used
      /\ Sound(Set(t.ht1)) /\ Size(Set(t.ht1)) = Size(t.ht1)
      /\ Entries(Set(t.ht1)) = Revalued(Entries(t.ht1), k, v) /\ Set(t.ht1).used = t.ht1.used
  BY <1>1, <1>2, <1>4
<1>6. u.ht0 = Set(t.ht0) /\ u.ht1 = Set(t.ht1) /\ u.idx = t.idx
  BY <1>3
<1>7. All(u) = Revalued(All(t), k, v)
  BY <1>5, <1>6 DEF All, Revalued
<1>8. \A E : E \subseteq Entry => \A f \in Revalued(E, k, v) : \E e \in E : f.key = e.key
                                      /\ f = IF e.key = k THEN [e EXCEPT !.value = v] ELSE e
  <2> SUFFICES ASSUME NEW E, E \subseteq Entry, NEW f \in Revalued(E, k, v)
               PROVE  \E e \in E : f.key = e.key
                                   /\ f = IF e.key = k THEN [e EXCEPT !.value = v] ELSE e
    OBVIOUS
  <2>1. PICK e \in E : f = IF e.key = k THEN [e EXCEPT !.value = v] ELSE e
    BY DEF Revalued
  <2>2. f.key = e.key
    BY <2>1 DEF Entry
  <2> QED BY <2>1, <2>2
<1>9. Unique(All(u))
  <2> SUFFICES ASSUME NEW e \in Revalued(All(t), k, v), NEW f \in Revalued(All(t), k, v), e.key = f.key
               PROVE  e = f
    BY <1>7 DEF Unique
  <2>1. All(t) \subseteq Entry
    BY <1>1 DEF All
  <2>2. PICK e0 \in All(t) : e.key = e0.key /\ e = IF e0.key = k THEN [e0 EXCEPT !.value = v] ELSE e0
    BY <1>8, <2>1
  <2>3. PICK f0 \in All(t) : f.key = f0.key /\ f = IF f0.key = k THEN [f0 EXCEPT !.value = v] ELSE f0
    BY <1>8, <2>1
  <2>4. e0 = f0
    BY <1>1, <2>2, <2>3 DEF Unique
  <2> QED BY <2>2, <2>3, <2>4
<1>10. Entries(u.ht0) \cap Entries(u.ht1) = {}
  <2> SUFFICES ASSUME NEW f \in Revalued(Entries(t.ht0), k, v), f \in Revalued(Entries(t.ht1), k, v)
               PROVE  FALSE
    BY <1>5, <1>6
  <2>1. PICK e0 \in Entries(t.ht0) : f.key = e0.key
    BY <1>1, <1>8
  <2>2. PICK e1 \in Entries(t.ht1) : f.key = e1.key
    BY <1>1, <1>8
  <2>3. e0 = e1
    BY <1>1, <2>1, <2>2 DEF Unique, All
  <2> QED BY <1>1, <2>3
<1>11. UsedBy(u) = UsedBy(t)
  BY <1>5, <1>6 DEF UsedBy
<1>12. Bounds(u, 0, 0)
  BY <1>5, <1>6, <1>11 DEF Good, Bounds
<1>13. t.idx = -1 => u.ht1 = NullTable
  <2> SUFFICES ASSUME t.idx = -1 PROVE Set(t.ht1) = NullTable
    BY <1>6
  <2>1. t.ht1 = NullTable
    BY DEF Good, Shape
  <2>2. Size(Set(t.ht1)) = 0 /\ Entries(Set(t.ht1)) = {}
    BY <1>5, <2>1, NullTableSound DEF Revalued
  <2>3. Set(t.ht1) = TableOf(0, {}) /\ t.ht1 = TableOf(0, {})
    BY <1>1, <1>5, <2>1, <2>2, NullTableSound DEF Sound
  <2> QED BY <2>1, <2>3
<1>14. t.idx # -1 => /\ u.idx \in Nat /\ u.idx < Size(u.ht0) /\ 2 * Size(u.ht0) <= Size(u.ht1)
                     /\ \A f \in Entries(u.ht0) : At(Size(u.ht0), f.key) >= u.idx
  <2> SUFFICES ASSUME t.idx # -1
               PROVE  /\ u.idx \in Nat /\ u.idx < Size(u.ht0) /\ 2 * Size(u.ht0) <= Size(u.ht1)
                      /\ \A f \in Entries(u.ht0) : At(Size(u.ht0), f.key) >= u.idx
    OBVIOUS
  <2>1. /\ t.idx \in Nat /\ t.idx < Size(t.ht0) /\ 2 * Size(t.ht0) <= Size(t.ht1)
        /\ \A e \in Entries(t.ht0) : At(Size(t.ht0), e.key) >= t.idx
    BY DEF Good, Shape
  <2>2. ASSUME NEW f \in Entries(u.ht0) PROVE At(Size(u.ht0), f.key) >= u.idx
    <3>1. PICK e \in Entries(t.ht0) : f.key = e.key
      BY <1>1, <1>5, <1>6, <1>8
    <3> QED BY <1>5, <1>6, <2>1, <3>1
  <2> QED BY <1>5, <1>6, <2>1, <2>2
<1>15. Shape(u)
  BY <1>3, <1>5, <1>6, <1>9, <1>10, <1>13, <1>14 DEF Shape
<1> QED BY <1>5, <1>6, <1>7, <1>12, <1>15 DEF Good

\* A table that holds something has buckets, and what is being rehashed holds something.
LEMMA Occupied ==
  ASSUME NEW t, Good(t)
  PROVE  /\ UsedBy(t) \in Nat /\ All(t) \subseteq Entry /\ IsFiniteSet(All(t)) /\ Unique(All(t))
         /\ UsedBy(t) = 0 => t.idx = -1 /\ All(t) = {}
         /\ UsedBy(t) # 0 => Size(t.ht0) > 0
         /\ Entries(t.ht0) # {} => Size(t.ht0) > 0
         /\ t.idx # -1 => Size(t.ht1) > 0
<1>1. /\ Sound(t.ht0) /\ Sound(t.ht1) /\ Unique(All(t))
      /\ Entries(t.ht0) \subseteq Entry /\ Entries(t.ht1) \subseteq Entry
      /\ IsFiniteSet(Entries(t.ht0)) /\ IsFiniteSet(Entries(t.ht1))
      /\ Size(t.ht0) = 0 => Entries(t.ht0) = {}
  BY DEF Good, Shape, Sound
<1>2. /\ t.ht0.used \in Nat /\ t.ht1.used \in Nat /\ UsedBy(t) \in Nat
      /\ UsedBy(t) = t.ht0.used + t.ht1.used
      /\ Size(t.ht0) \in Nat /\ Size(t.ht1) \in Nat
      /\ t.ht0.used = 0 <=> Entries(t.ht0) = {}
      /\ t.ht1.used = 0 <=> Entries(t.ht1) = {}
  BY <1>1, UsedProperties
<1>3. All(t) \subseteq Entry /\ IsFiniteSet(All(t))
  BY <1>1, FS_Union DEF All
<1>4. t.idx # -1 => /\ t.idx \in Nat /\ t.idx < Size(t.ht0) /\ 2 * Size(t.ht0) <= Size(t.ht1)
                    /\ Size(t.ht0) + 0 <= UsedBy(t) + t.idx
  BY DEF Good, Shape, Bounds
<1>5. t.idx # -1 => Size(t.ht0) > 0 /\ Size(t.ht1) > 0 /\ UsedBy(t) # 0
  BY <1>2, <1>4
<1>6. ASSUME UsedBy(t) = 0
      PROVE  t.idx = -1 /\ All(t) = {}
  <2>1. t.ht0.used = 0 /\ t.ht1.used = 0
    BY <1>2, <1>6
  <2> QED BY <1>2, <1>5, <1>6, <2>1 DEF All
<1>7. ASSUME UsedBy(t) # 0, t.idx = -1
      PROVE  Size(t.ht0) > 0
  <2>1. t.ht1.used = 0
    BY <1>7, NullTableSound DEF Good, Shape
  <2>2. t.ht0.used # 0
    BY <1>2, <1>7, <2>1
  <2> QED BY <1>1, <1>2, <2>2
<1>8. Entries(t.ht0) # {} => Size(t.ht0) > 0
  BY <1>1, <1>2
<1> QED BY <1>1, <1>2, <1>3, <1>5, <1>6, <1>7, <1>8

\* What erase leaves of t.
Erased(t, k) ==
  LET In(h) == h.table # NullTable.table /\ \E e \in h.table[Slot(h, k)] : e.key = k
      Drop(h) == DropFrom(h, CHOOSE e \in h.table[Slot(h, k)] : e.key = k)
  IN  IF In(t.ht0) THEN [t EXCEPT !.ht0 = Drop(@)]
      ELSE IF IsRehashing(t) /\ In(t.ht1) THEN [t EXCEPT !.ht1 = Drop(@)]
      ELSE t

\* Whether and where a table holds a key.
LEMMA HoldsKey ==
  ASSUME NEW h, Sound(h), Size(h) > 0, NEW k \in Keys
  PROVE  /\ h.table # NullTable.table /\ (\E e \in h.table[Slot(h, k)] : e.key = k)
              <=> Under(Entries(h), k) # {}
         /\ Under(Entries(h), k) # {} =>
              /\ (CHOOSE e \in h.table[Slot(h, k)] : e.key = k) \in Entries(h)
              /\ (CHOOSE e \in h.table[Slot(h, k)] : e.key = k).key = k
<1>1. {e \in h.table[Slot(h, k)] : e.key = k} = {e \in Entries(h) : e.key = k}
  BY Lookup
<1>2. h.table # NullTable.table
  <2>1. DOMAIN h.table = 0..Size(h) - 1 /\ Size(h) \in Nat /\ DOMAIN NullTable.table = 0..0 - 1
    BY SoundProperties DEF NullTable, EmptyTable, Sound
  <2>2. 0 \in 0..Size(h) - 1 /\ 0 \notin 0..0 - 1
    BY <2>1
  <2> QED BY <2>1, <2>2
<1>3. (\E e \in h.table[Slot(h, k)] : e.key = k) <=> Under(Entries(h), k) # {}
  BY <1>1 DEF Under
<1>4. ASSUME \E e \in h.table[Slot(h, k)] : e.key = k
      PROVE  /\ (CHOOSE e \in h.table[Slot(h, k)] : e.key = k) \in Entries(h)
             /\ (CHOOSE e \in h.table[Slot(h, k)] : e.key = k).key = k
  <2> DEFINE c == CHOOSE e \in h.table[Slot(h, k)] : e.key = k
  <2>1. c \in h.table[Slot(h, k)] /\ c.key = k
    BY <1>4
  <2> HIDE DEF c
  <2>2. c \in {e \in h.table[Slot(h, k)] : e.key = k}
    BY <2>1
  <2> QED BY <1>1, <2>1, <2>2 DEF c
<1> QED BY <1>2, <1>3, <1>4

LEMMA ErasedProperties ==
  ASSUME NEW t, Good(t), t.idx # -1 => Bounds(t, 1, 1), Size(t.ht0) > 0, NEW k \in Keys,
         NEW u, u = Erased(t, k)
  PROVE  /\ Good(u) /\ All(u) = All(t) \ Under(All(t), k)
         /\ u.idx = t.idx /\ Size(u.ht0) = Size(t.ht0)
<1> DEFINE In(h) == h.table # NullTable.table /\ \E e \in h.table[Slot(h, k)] : e.key = k
           c(h) == CHOOSE e \in h.table[Slot(h, k)] : e.key = k
           Drop(h) == DropFrom(h, c(h))
<1>1. /\ Sound(t.ht0) /\ Sound(t.ht1) /\ Unique(All(t)) /\ Entries(t.ht0) \cap Entries(t.ht1) = {}
      /\ t = [ht0 |-> t.ht0, ht1 |-> t.ht1, idx |-> t.idx]
  BY DEF Good, Shape
<1>2. u = IF In(t.ht0) THEN [t EXCEPT !.ht0 = Drop(@)]
          ELSE IF t.idx # -1 /\ In(t.ht1) THEN [t EXCEPT !.ht1 = Drop(@)]
          ELSE t
  BY DEF Erased, IsRehashing
<1>3. ASSUME NEW h, Sound(h), Size(h) > 0
      PROVE  /\ In(h) <=> Under(Entries(h), k) # {}
             /\ In(h) => /\ c(h) \in Entries(h) /\ c(h).key = k
                         /\ Sound(Drop(h)) /\ Size(Drop(h)) = Size(h)
                         /\ Entries(Drop(h)) = Entries(h) \ {c(h)} /\ Drop(h).used = h.used - 1
  <2>1. In(h) <=> Under(Entries(h), k) # {}
    BY <1>3, HoldsKey
  <2>2. In(h) => c(h) \in Entries(h) /\ c(h).key = k
    BY <1>3, <2>1, HoldsKey
  <2> HIDE DEF In, c
  <2> QED BY <1>3, <2>1, <2>2, DropFromTable
<1> HIDE DEF In, c, Drop
<1>4. /\ t.ht0.used \in Nat /\ t.ht1.used \in Nat /\ UsedBy(t) \in Nat
      /\ Size(t.ht0) \in Nat /\ Size(t.ht1) \in Nat
  BY <1>1, UsedProperties
<1>5. t.idx # -1 => /\ t.idx \in Nat /\ t.idx < Size(t.ht0) /\ 2 * Size(t.ht0) <= Size(t.ht1)
                    /\ \A f \in Entries(t.ht0) : At(Size(t.ht0), f.key) >= t.idx
                    /\ UsedBy(t) + 1 + Size(t.ht0) <= Size(t.ht1) + t.idx + 1
                    /\ Size(t.ht0) + 1 <= UsedBy(t) + t.idx
  BY DEF Good, Shape, Bounds
<1>6. t.idx = -1 => t.ht1 = NullTable /\ UsedBy(t) + 0 <= Limit(Size(t.ht0)) /\ Limit(Size(t.ht0)) \in Nat
  BY <1>4, LimitProperties DEF Good, Shape, Bounds
<1>7. CASE In(t.ht0)
  <2>1. u = [ht0 |-> Drop(t.ht0), ht1 |-> t.ht1, idx |-> t.idx]
    BY <1>1, <1>2, <1>7
  <2>2. u.ht0 = Drop(t.ht0) /\ u.ht1 = t.ht1 /\ u.idx = t.idx
    BY <2>1
  <2>3. /\ c(t.ht0) \in Entries(t.ht0) /\ c(t.ht0).key = k
        /\ Sound(u.ht0) /\ Size(u.ht0) = Size(t.ht0)
        /\ Entries(u.ht0) = Entries(t.ht0) \ {c(t.ht0)} /\ u.ht0.used = t.ht0.used - 1
    BY <1>1, <1>3, <1>7, <2>2
  <2>4. Under(All(t), k) = {c(t.ht0)}
    BY <1>1, <2>3 DEF Under, Unique, All
  <2>5. All(u) = All(t) \ Under(All(t), k)
    BY <1>1, <2>2, <2>3, <2>4 DEF All
  <2>6. UsedBy(u) = UsedBy(t) - 1
    BY <1>4, <2>2, <2>3 DEF UsedBy
  <2>7. Bounds(u, 0, 0)
    <3>1. CASE t.idx = -1
      <4>1. UsedBy(u) + 0 <= Limit(Size(t.ht0))
        BY <1>4, <1>6, <2>6, <3>1
      <4> QED BY <2>2, <2>3, <3>1, <4>1 DEF Bounds
    <3>2. CASE t.idx # -1
      <4>1. /\ UsedBy(u) + 0 + Size(t.ht0) <= Size(t.ht1) + t.idx + 1
            /\ Size(t.ht0) + 0 <= UsedBy(u) + t.idx
        BY <1>4, <1>5, <2>6, <3>2
      <4> QED BY <2>2, <2>3, <3>2, <4>1 DEF Bounds
    <3> QED BY <3>1, <3>2
  <2>8. Unique(All(u)) /\ Entries(u.ht0) \cap Entries(u.ht1) = {}
    BY <1>1, <2>2, <2>3, <2>5 DEF Unique
  <2>9. Shape(u)
    BY <1>1, <1>5, <1>6, <2>1, <2>2, <2>3, <2>8 DEF Shape
  <2> QED BY <2>2, <2>3, <2>5, <2>7, <2>9 DEF Good
<1>8. CASE ~In(t.ht0) /\ t.idx # -1 /\ In(t.ht1)
  <2>1. u = [ht0 |-> t.ht0, ht1 |-> Drop(t.ht1), idx |-> t.idx]
    BY <1>1, <1>2, <1>8
  <2>2. u.ht0 = t.ht0 /\ u.ht1 = Drop(t.ht1) /\ u.idx = t.idx
    BY <2>1
  <2>3. Size(t.ht1) > 0
    BY <1>4, <1>5, <1>8
  <2>4. /\ c(t.ht1) \in Entries(t.ht1) /\ c(t.ht1).key = k
        /\ Sound(u.ht1) /\ Size(u.ht1) = Size(t.ht1)
        /\ Entries(u.ht1) = Entries(t.ht1) \ {c(t.ht1)} /\ u.ht1.used = t.ht1.used - 1
    BY <1>1, <1>3, <1>8, <2>2, <2>3
  <2>5. Under(All(t), k) = {c(t.ht1)}
    BY <1>1, <2>4 DEF Under, Unique, All
  <2>6. All(u) = All(t) \ Under(All(t), k)
    BY <1>1, <2>2, <2>4, <2>5 DEF All
  <2>7. UsedBy(u) = UsedBy(t) - 1
    BY <1>4, <2>2, <2>4 DEF UsedBy
  <2>8. Bounds(u, 0, 0)
    <3>1. /\ UsedBy(u) + 0 + Size(t.ht0) <= Size(t.ht1) + t.idx + 1
          /\ Size(t.ht0) + 0 <= UsedBy(u) + t.idx
      BY <1>4, <1>5, <1>8, <2>7
    <3> QED BY <1>8, <2>2, <2>4, <3>1 DEF Bounds
  <2>9. Unique(All(u)) /\ Entries(u.ht0) \cap Entries(u.ht1) = {}
    BY <1>1, <2>2, <2>4, <2>6 DEF Unique
  <2>10. Shape(u)
    BY <1>1, <1>5, <1>8, <2>1, <2>2, <2>4, <2>9 DEF Shape
  <2> QED BY <2>2, <2>6, <2>8, <2>10 DEF Good
<1>9. CASE ~In(t.ht0) /\ ~(t.idx # -1 /\ In(t.ht1))
  <2>1. u = t
    BY <1>2, <1>9
  <2>2. Under(Entries(t.ht0), k) = {}
    BY <1>1, <1>3, <1>9
  <2>3. Under(Entries(t.ht1), k) = {}
    <3>1. CASE t.idx = -1
      BY <1>6, <3>1, NullTableSound DEF Under
    <3>2. CASE t.idx # -1
      <4>1. Size(t.ht1) > 0
        BY <1>4, <1>5, <3>2
      <4> QED BY <1>1, <1>3, <1>9, <3>2, <4>1
    <3> QED BY <3>1, <3>2
  <2>4. Under(All(t), k) = {}
    BY <2>2, <2>3 DEF Under, All
  <2> QED BY <2>1, <2>4
<1> QED BY <1>7, <1>8, <1>9

LEMMA StepAdvances ==
  ASSUME NEW t, Good(t)
  PROVE  Advanced(t, RehashStep(t))
<1>1. t.idx # -1 => \/ RehashStep(t).idx = -1 /\ Size(RehashStep(t).ht0) = Size(t.ht1)
                    \/ RehashStep(t).idx # -1 /\ RehashStep(t).idx > t.idx
                         /\ Size(RehashStep(t).ht0) = Size(t.ht0)
  BY RehashStepProperties
<1> QED BY <1>1 DEF Advanced

-----------------------------------------------------------------------------
(* The map that the entries stand for. *)

KeysOf(A) == {e.key : e \in A}
MapOf(A) == [k \in KeysOf(A) |-> (CHOOSE e \in A : e.key = k).value]

LEMMA StoredMapIsMapOf == StoredMap = MapOf(All(d)) /\ StoredMap' = MapOf(All(d'))
BY DEF StoredMap, MapOf, KeysOf, All

LEMMA MapProperties ==
  ASSUME NEW A, Unique(A)
  PROVE  /\ DOMAIN MapOf(A) = KeysOf(A)
         /\ \A e \in A : e.key \in KeysOf(A) /\ MapOf(A)[e.key] = e.value
         /\ \A k : k \in KeysOf(A) <=> Under(A, k) # {}
<1>1. DOMAIN MapOf(A) = KeysOf(A)
  BY DEF MapOf
<1>2. ASSUME NEW e \in A
      PROVE  e.key \in KeysOf(A) /\ MapOf(A)[e.key] = e.value
  <2>1. e.key \in KeysOf(A)
    BY DEF KeysOf
  <2> DEFINE c == CHOOSE f \in A : f.key = e.key
  <2>2. c \in A /\ c.key = e.key
    OBVIOUS
  <2>3. MapOf(A)[e.key] = c.value
    BY <2>1 DEF MapOf
  <2> HIDE DEF c
  <2>4. c = e
    BY <2>2 DEF Unique
  <2> QED BY <2>1, <2>3, <2>4
<1>3. \A k : k \in KeysOf(A) <=> Under(A, k) # {}
  BY DEF KeysOf, Under
<1> QED BY <1>1, <1>2, <1>3

LEMMA MapIs ==
  ASSUME NEW A, Unique(A), NEW m, m = [k \in KeysOf(A) |-> m[k]],
         \A e \in A : m[e.key] = e.value
  PROVE  m = MapOf(A)
<1>1. ASSUME NEW k \in KeysOf(A)
      PROVE  m[k] = MapOf(A)[k]
  <2>1. PICK e \in A : e.key = k
    BY DEF KeysOf
  <2>2. MapOf(A)[e.key] = e.value
    BY MapProperties
  <2> QED BY <2>1, <2>2
<1>2. MapOf(A) = [k \in KeysOf(A) |-> MapOf(A)[k]]
  BY DEF MapOf
<1> QED BY <1>1, <1>2

\* E with a new entry in place of what was under its key.
Replaced(E, k, v) == (E \ Under(E, k)) \cup {[key |-> k, value |-> v]}

LEMMA MapPut ==
  ASSUME NEW A, Unique(A), NEW k, NEW v
  PROVE  /\ Unique(Replaced(A, k, v))
         /\ MapOf(Replaced(A, k, v)) = Store!Put(MapOf(A), k, v)
<1> DEFINE m == Store!Put(MapOf(A), k, v)
           e == [key |-> k, value |-> v]
           B == Replaced(A, k, v)
<1>8. e.key = k /\ e.value = v
  OBVIOUS
<1>9. B = (A \ Under(A, k)) \cup {e}
  BY DEF Replaced
<1> HIDE DEF e, B
<1>1. Unique(B)
  BY <1>8, <1>9 DEF Unique, Under
<1>2. KeysOf(B) = KeysOf(A) \cup {k}
  BY <1>8, <1>9 DEF KeysOf, Under
<1>7. DOMAIN MapOf(A) = KeysOf(A)
  BY MapProperties
<1>3. m = [j \in KeysOf(A) \cup {k} |-> IF j = k THEN v ELSE MapOf(A)[j]]
  BY <1>7 DEF Store!Put
<1> HIDE DEF m
<1>4. m = [j \in KeysOf(B) |-> m[j]]
  BY <1>2, <1>3
<1>5. ASSUME NEW f \in B
      PROVE  m[f.key] = f.value
  <2>1. CASE f = e
    BY <1>3, <1>8, <2>1
  <2>2. CASE f # e
    <3>1. f \in A /\ f.key # k
      BY <1>9, <2>2 DEF Under
    <3>2. f.key \in KeysOf(A) /\ MapOf(A)[f.key] = f.value
      BY <3>1, MapProperties
    <3> QED BY <1>3, <3>1, <3>2
  <2> QED BY <2>1, <2>2
<1>6. m = MapOf(B)
  BY <1>1, <1>4, <1>5, MapIs
<1> QED BY <1>1, <1>6 DEF m, B

LEMMA MapRemove ==
  ASSUME NEW A, Unique(A), NEW k, NEW B, B = A \ Under(A, k)
  PROVE  MapOf(B) = [j \in DOMAIN MapOf(A) \ {k} |-> MapOf(A)[j]]
<1> DEFINE m == [j \in DOMAIN MapOf(A) \ {k} |-> MapOf(A)[j]]
<1>1. Unique(B)
  BY DEF Unique
<1>2. DOMAIN MapOf(A) = KeysOf(A)
  BY MapProperties
<1>6. KeysOf(B) = KeysOf(A) \ {k}
  BY DEF KeysOf, Under
<1>3. m = [j \in KeysOf(B) |-> m[j]]
  BY <1>2, <1>6
<1>4. ASSUME NEW f \in B
      PROVE  m[f.key] = f.value
  <2>1. f \in A /\ f.key # k
    BY DEF Under
  <2>2. f.key \in KeysOf(A) /\ MapOf(A)[f.key] = f.value
    BY <2>1, MapProperties
  <2> QED BY <1>2, <2>1, <2>2
<1> HIDE DEF m
<1>5. m = MapOf(B)
  BY <1>1, <1>3, <1>4, MapIs
<1> QED BY <1>5 DEF m

\* The map with value v under k, if it had none.
PutIfNew(m, k, v) == IF k \in DOMAIN m THEN m ELSE Store!Put(m, k, v)

\* operator[] and insert come for a key.
LEMMA MapInsert ==
  ASSUME NEW A, Unique(A), NEW k, NEW v
  PROVE  /\ MapOf(Inserted(A, k, v)) = PutIfNew(MapOf(A), k, v)
         /\ Under(Inserted(A, k, v), k) # {}
<1> DEFINE e == [key |-> k, value |-> v]
           B == Inserted(A, k, v)
<1>1. e.key = k /\ e.value = v
  OBVIOUS
<1>2. B = IF Under(A, k) # {} THEN A ELSE A \cup {e}
  BY DEF Inserted
<1> HIDE DEF e, B
<1>3. k \in DOMAIN MapOf(A) <=> Under(A, k) # {}
  BY MapProperties
<1>4. CASE Under(A, k) # {}
  BY <1>2, <1>3, <1>4 DEF B, PutIfNew
<1>5. CASE Under(A, k) = {}
  <2>1. B = Replaced(A, k, v)
    BY <1>2, <1>5 DEF Replaced, e
  <2>2. MapOf(B) = Store!Put(MapOf(A), k, v)
    BY <2>1, MapPut
  <2>3. e \in B
    BY <1>2, <1>5
  <2>4. Under(B, k) # {}
    BY <1>1, <2>3 DEF Under
  <2> QED BY <1>3, <1>5, <2>2, <2>4 DEF B, PutIfNew
<1> QED BY <1>4, <1>5

-----------------------------------------------------------------------------
(* Every operation. *)

Inv == Good(d) /\ result \in Stored \cup BOOLEAN

\* An operation keeps the invariant, brings rehashing forward and does to the map what
\* it is called for.
LEMMA GetStep ==
  ASSUME Inv, NEW k \in Keys, Get(k)
  PROVE  Inv' /\ Advanced(d, d') /\ Store!Get(k)
<1>1. Good(d) /\ NoValue \in Stored /\ d' = InsertRaw(d, k, NoValue)
  BY DEF Inv, Get, Stored
<1>2. /\ Good(d') /\ Advanced(d, d') /\ Found(d', k) = Under(All(d'), k)
      /\ All(d') = Inserted(All(d), k, NoValue)
  BY <1>1, InsertRawProperties
<1>3. PICK e \in Under(All(d'), k) : result' = e.value
  BY <1>2 DEF Get
<1>4. e \in All(d') /\ e.key = k
  BY DEF Under
<1>5. All(d') \subseteq Entry /\ Unique(All(d'))
  BY <1>2, Occupied
<1>6. result' \in Stored
  BY <1>3, <1>4, <1>5 DEF Entry
<1>7. result' = StoredMap'[k]
  BY <1>3, <1>4, <1>5, MapProperties, StoredMapIsMapOf
<1>8. StoredMap' = PutIfNew(StoredMap, k, NoValue)
  <2>1. Unique(All(d))
    BY <1>1, Occupied
  <2>2. MapOf(Inserted(All(d), k, NoValue)) = PutIfNew(MapOf(All(d)), k, NoValue)
    BY <2>1, MapInsert
  <2> QED BY <1>2, <2>2, StoredMapIsMapOf
<1> QED BY <1>2, <1>6, <1>7, <1>8 DEF Inv, Store!Get, PutIfNew

LEMMA PutTwice ==
  ASSUME NEW m, NEW k, NEW v, NEW w
  PROVE  Store!Put(PutIfNew(m, k, w), k, v) = Store!Put(m, k, v)
BY DEF Store!Put, PutIfNew

LEMMA AssignStep ==
  ASSUME Inv, NEW k \in Keys, NEW v \in Values, Assign(k, v)
  PROVE  Inv' /\ Advanced(d, d') /\ Store!Assign(k, v)
<1> DEFINE u == InsertRaw(d, k, NoValue)
<1>1. Good(d) /\ NoValue \in Stored /\ v \in Stored
  BY DEF Inv, Stored
<1>2. /\ Good(u) /\ Advanced(d, u)
      /\ All(u) = Inserted(All(d), k, NoValue)
  BY <1>1, InsertRawProperties
<1>3. d' = SetValue(u, k, v) /\ result' = v
  BY DEF Assign
<1> HIDE DEF u
<1> DEFINE w == SetValue(u, k, v)
<1>4. /\ Good(w) /\ All(w) = Revalued(All(u), k, v)
      /\ w.idx = u.idx /\ Size(w.ht0) = Size(u.ht0)
  <2>1. Good(u)
    BY <1>2
  <2>2. v \in Stored
    BY <1>1
  <2> QED BY <2>1, <2>2, SetValueProperties
<1> HIDE DEF w
<1>9. d' = w
  BY <1>3 DEF w
<1>5. Advanced(d, w)
  BY <1>2, <1>4 DEF Advanced
<1>6. /\ MapOf(All(u)) = PutIfNew(MapOf(All(d)), k, NoValue)
      /\ Under(All(u), k) # {}
  <2>1. Unique(All(d))
    BY <1>1, Occupied
  <2> QED BY <1>2, <2>1, MapInsert
<1>7. MapOf(All(w)) = Store!Put(MapOf(All(u)), k, v)
  <2> DEFINE new == [key |-> k, value |-> v]
  <2>1. All(u) \subseteq Entry /\ Unique(All(u)) /\ IsFiniteSet(All(u))
    BY <1>2, Occupied
  <2>2. PICK e \in All(u) : e.key = k
    BY <1>6 DEF Under
  <2>3. All(w) = (All(u) \ {e}) \cup {new}
    BY <1>1, <1>4, <2>1, <2>2, RevaluedProperties
  <2>4. Under(All(u), k) = {e}
    BY <2>1, <2>2 DEF Under, Unique
  <2>5. All(w) = Replaced(All(u), k, v)
    BY <2>3, <2>4 DEF Replaced
  <2>6. Unique(All(u))
    BY <2>1
  <2> QED BY <2>5, <2>6, MapPut
<1>8. StoredMap' = Store!Put(StoredMap, k, v)
  BY <1>6, <1>7, <1>9, PutTwice, StoredMapIsMapOf
<1> QED BY <1>1, <1>3, <1>4, <1>5, <1>8, <1>9 DEF Inv, Store!Assign

LEMMA InsertStep ==
  ASSUME Inv, NEW k \in Keys, NEW v \in Values, Insert(k, v)
  PROVE  Inv' /\ Advanced(d, d') /\ Store!Insert(k, v)
<1>1. Good(d) /\ v \in Stored /\ d' = InsertRaw(d, k, v)
      /\ result' = (Found(ExpandIfNeeded(RehashStep(d)), k) = {})
  BY DEF Inv, Insert, Stored
<1>2. /\ Good(d') /\ Advanced(d, d')
      /\ Found(ExpandIfNeeded(RehashStep(d)), k) = Under(All(d), k)
      /\ All(d') = Inserted(All(d), k, v)
  BY <1>1, InsertRawProperties
<1>3. StoredMap' = PutIfNew(StoredMap, k, v)
  <2>1. Unique(All(d))
    BY <1>1, Occupied
  <2>2. MapOf(Inserted(All(d), k, v)) = PutIfNew(MapOf(All(d)), k, v)
    BY <2>1, MapInsert
  <2> QED BY <1>2, <2>2, StoredMapIsMapOf
<1>4. k \in DOMAIN StoredMap <=> Under(All(d), k) # {}
  BY <1>1, Occupied, MapProperties, StoredMapIsMapOf
<1>5. result' = (k \notin DOMAIN StoredMap) /\ result' \in BOOLEAN
  BY <1>1, <1>2, <1>4
<1> QED BY <1>2, <1>3, <1>5 DEF Inv, Store!Insert, PutIfNew

LEMMA EraseStep ==
  ASSUME Inv, NEW k \in Keys, Erase(k)
  PROVE  Inv' /\ Advanced(d, d') /\ Store!Erase(k)
<1> DEFINE t == RehashStep(d)
<1>1. Good(d) /\ result' = result
  BY DEF Inv, Erase
<1>2. d' = IF UsedBy(d) = 0 THEN d ELSE Erased(t, k)
  BY DEF Erase, Erased
<1>3. /\ Good(t) /\ All(t) = All(d) /\ UsedBy(t) = UsedBy(d) /\ (t.idx # -1 => Bounds(t, 1, 1))
      /\ Advanced(d, t)
  BY <1>1, RehashStepProperties, StepAdvances
<1> HIDE DEF t
<1>4. Good(d') /\ Advanced(d, d') /\ All(d') = All(d) \ Under(All(d), k)
  <2>1. CASE UsedBy(d) = 0
    <3>1. d' = d /\ d.idx = -1 /\ All(d) = {}
      BY <1>1, <1>2, <2>1, Occupied
    <3> QED BY <1>1, <3>1 DEF Advanced
  <2>2. CASE UsedBy(d) # 0
    <3>1. d' = Erased(t, k) /\ Size(t.ht0) > 0
      BY <1>2, <1>3, <2>2, Occupied
    <3>2. /\ Good(d') /\ All(d') = All(t) \ Under(All(t), k)
          /\ d'.idx = t.idx /\ Size(d'.ht0) = Size(t.ht0)
      BY <1>3, <3>1, ErasedProperties
    <3> QED BY <1>3, <3>2 DEF Advanced
  <2> QED BY <2>1, <2>2
<1>5. StoredMap' = [j \in DOMAIN StoredMap \ {k} |-> StoredMap[j]]
  <2>1. Unique(All(d))
    BY <1>1, Occupied
  <2> DEFINE A == All(d)
             B == All(d')
  <2>2. Unique(A) /\ B = A \ Under(A, k)
    BY <1>4, <2>1
  <2>3. StoredMap = MapOf(A) /\ StoredMap' = MapOf(B)
    BY StoredMapIsMapOf
  <2> HIDE DEF A, B
  <2>4. MapOf(B) = [j \in DOMAIN MapOf(A) \ {k} |-> MapOf(A)[j]]
    BY <2>2, MapRemove
  <2> QED BY <2>3, <2>4
<1> QED BY <1>1, <1>4, <1>5 DEF Inv, Store!Erase

LEMMA ExistStep ==
  ASSUME Inv, NEW k \in Keys, Exist(k)
  PROVE  Inv' /\ Advanced(d, d') /\ Store!Exist(k)
<1>1. Good(d) /\ d' = IF UsedBy(d) = 0 THEN d ELSE RehashStep(d)
  BY DEF Inv, Exist
<1>6. result' = (UsedBy(d) # 0 /\ Found(d', k) # {})
  BY DEF Exist
<1>2. k \in DOMAIN StoredMap <=> Under(All(d), k) # {}
  BY <1>1, Occupied, MapProperties, StoredMapIsMapOf
<1>3. /\ Good(d') /\ Advanced(d, d') /\ All(d') = All(d)
      /\ (UsedBy(d) # 0 /\ Found(d', k) # {}) <=> k \in DOMAIN StoredMap
  <2>1. CASE UsedBy(d) = 0
    <3>1. d' = d /\ d.idx = -1 /\ All(d) = {}
      BY <1>1, <2>1, Occupied
    <3> QED BY <1>1, <1>2, <2>1, <3>1 DEF Advanced, Under
  <2>2. CASE UsedBy(d) # 0
    <3> DEFINE u == RehashStep(d)
    <3>4. d' = u
      BY <1>1, <2>2
    <3>5. Good(u) /\ Advanced(d, u) /\ All(u) = All(d) /\ UsedBy(u) = UsedBy(d)
      BY <1>1, RehashStepProperties, StepAdvances
    <3> HIDE DEF u
    <3>1. Good(d') /\ Advanced(d, d') /\ All(d') = All(d) /\ UsedBy(d') = UsedBy(d)
      BY <3>4, <3>5
    <3>2. Size(d'.ht0) > 0
      BY <2>2, <3>1, Occupied
    <3>3. Found(d', k) = Under(All(d'), k)
      BY <3>1, <3>2, FoundProperties DEF Good
    <3> QED BY <1>2, <2>2, <3>1, <3>3
  <2> QED BY <2>1, <2>2
<1>4. result' = (k \in DOMAIN StoredMap) /\ result' \in BOOLEAN
  <2>1. (UsedBy(d) # 0 /\ Found(d', k) # {}) = (k \in DOMAIN StoredMap)
    BY <1>3
  <2>2. (k \in DOMAIN StoredMap) \in BOOLEAN
    OBVIOUS
  <2> QED BY <1>6, <2>1, <2>2
<1>5. StoredMap' = StoredMap
  BY <1>3, StoredMapIsMapOf
<1> QED BY <1>3, <1>4, <1>5 DEF Inv, Store!Exist

LEMMA GetRandomStep ==
  ASSUME Inv, GetRandom
  PROVE  Inv' /\ Advanced(d, d') /\ Store!GetRandom
<1>1. Good(d) /\ d' = RehashStep(d)
  BY DEF Inv, GetRandom
<1>2. Good(d') /\ Advanced(d, d') /\ All(d') = All(d)
  BY <1>1, RehashStepProperties, StepAdvances
<1>3. PICK e \in Drawable(d') : result' = e.value
  BY DEF GetRandom
<1>4. e \in All(d')
  <2>1. \A i \in Pending(d') : i \in Bucket(d'.ht0)
    BY DEF Pending
  <2>2. Drawable(d') \subseteq Entries(d'.ht0) \cup Entries(d'.ht1)
    <3>1. CASE IsRehashing(d')
      <4> DEFINE P == Pending(d')
                 tab == d'.ht0.table
                 drawn == UNION {tab[i] : i \in P}
      <4>1. Drawable(d') = drawn \cup Entries(d'.ht1)
        BY <3>1 DEF Drawable
      <4>2. P \subseteq DOMAIN tab
        BY <2>1 DEF Bucket
      <4>3. Entries(d'.ht0) = UNION {tab[i] : i \in DOMAIN tab}
        BY DEF Entries, Bucket
      <4> HIDE DEF P, tab
      <4>4. drawn \subseteq UNION {tab[i] : i \in DOMAIN tab}
        BY <4>2
      <4> HIDE DEF drawn
      <4>5. drawn \subseteq Entries(d'.ht0)
        BY <4>3, <4>4
      <4> QED BY <4>1, <4>5
    <3>2. CASE ~IsRehashing(d')
      BY <3>2 DEF Drawable
    <3> QED BY <3>1, <3>2
  <2> QED BY <2>2 DEF All
<1>5. All(d') \subseteq Entry /\ Unique(All(d'))
  BY <1>2, Occupied
<1>6. result' \in Stored
  BY <1>3, <1>4, <1>5 DEF Entry
<1>7. StoredMap' = StoredMap
  BY <1>2, StoredMapIsMapOf
<1>8. e.key \in DOMAIN StoredMap /\ result' = StoredMap[e.key]
  BY <1>2, <1>3, <1>4, <1>5, MapProperties, StoredMapIsMapOf
<1> QED BY <1>2, <1>6, <1>7, <1>8 DEF Inv, Store!GetRandom

LEMMA EmptyDictProperties ==
  Good(EmptyDict) /\ All(EmptyDict) = {} /\ EmptyDict.idx = -1
  /\ MapOf(All(EmptyDict)) = [k \in {} |-> NoValue]
<1>1. EmptyDict = [ht0 |-> NullTable, ht1 |-> NullTable, idx |-> -1]
  BY DEF EmptyDict
<1>2. EmptyDict.ht0 = NullTable /\ EmptyDict.ht1 = NullTable /\ EmptyDict.idx = -1
  BY <1>1
<1>3. All(EmptyDict) = {} /\ UsedBy(EmptyDict) = 0
  BY <1>2, NullTableSound DEF All, UsedBy
<1>4. Bounds(EmptyDict, 0, 0)
  <2>1. Limit(0) \in Nat /\ 0 + 0 <= Limit(0)
    BY LimitProperties
  <2> QED BY <1>2, <1>3, <2>1, NullTableSound DEF Bounds
<1>5. Shape(EmptyDict)
  BY <1>1, <1>2, <1>3, NullTableSound DEF Shape, Unique
<1>6. MapOf({}) = [k \in {} |-> NoValue]
  BY DEF MapOf, KeysOf
<1> QED BY <1>2, <1>3, <1>4, <1>5, <1>6 DEF Good

LEMMA ClearStep ==
  ASSUME Inv, Clear
  PROVE  Inv' /\ Advanced(d, d') /\ Store!Clear
<1>1. d' = EmptyDict /\ result' = result
  BY DEF Clear
<1>2. StoredMap' = [k \in {} |-> NoValue]
  BY <1>1, EmptyDictProperties, StoredMapIsMapOf
<1> QED BY <1>1, <1>2, EmptyDictProperties DEF Inv, Advanced, Store!Clear

LEMMA NextStep ==
  ASSUME Inv, Next
  PROVE  Inv' /\ Advanced(d, d') /\ Store!Next
<1>1. ASSUME NEW k \in Keys, Get(k) \/ Erase(k) \/ Exist(k)
      PROVE  Inv' /\ Advanced(d, d') /\ Store!Next
  BY <1>1, GetStep, EraseStep, ExistStep DEF Store!Next
<1>2. ASSUME NEW k \in Keys, NEW v \in Values, Assign(k, v) \/ Insert(k, v)
      PROVE  Inv' /\ Advanced(d, d') /\ Store!Next
  BY <1>2, AssignStep, InsertStep DEF Store!Next
<1>3. CASE GetRandom
  BY <1>3, GetRandomStep DEF Store!Next
<1>4. CASE Clear
  BY <1>4, ClearStep DEF Store!Next
<1> QED BY <1>1, <1>2, <1>3, <1>4 DEF Next

LEMMA InvHolds == Spec => []Inv
<1>1. Init => Inv
  BY EmptyDictProperties DEF Init, Inv, Stored
<1>2. Inv /\ [Next]_vars => Inv'
  <2> SUFFICES ASSUME Inv, [Next]_vars PROVE Inv'
    OBVIOUS
  <2>1. CASE Next
    BY <2>1, NextStep
  <2>2. CASE UNCHANGED vars
    BY <2>2 DEF vars, Inv
  <2> QED BY <2>1, <2>2
<1> QED BY <1>1, <1>2, PTL DEF Spec

-----------------------------------------------------------------------------
(* The results. *)

\* A sound table has the type and the consistency of HashTable.
LEMMA SoundTable ==
  ASSUME NEW h, Sound(h)
  PROVE  /\ Table(h)
         /\ \A i \in Bucket(h), e \in Entries(h) : e \in h.table[i] <=> i = Slot(h, e.key)
         /\ h.used = Cardinality(Entries(h))
<1> DEFINE n == Size(h)
           E == Entries(h)
<1>1. n \in Nat /\ E \subseteq Entry /\ h = TableOf(n, E)
  BY DEF Sound
<1>2. /\ Bucket(h) = 0..n - 1 /\ h.used = Cardinality(E) /\ h.used \in Nat
      /\ \A i \in 0..n - 1 : h.table[i] = {e \in E : At(n, e.key) = i}
      /\ \A e \in E : Slot(h, e.key) = At(n, e.key)
  BY SoundProperties
<1> HIDE DEF n, E
<1>3. h.table \in [0..n - 1 -> SUBSET Entry]
  <2>1. h.table = [i \in 0..n - 1 |-> {e \in E : At(n, e.key) = i}]
    BY <1>1 DEF TableOf
  <2> QED BY <1>1, <2>1
<1>4. \A i \in 0..n - 1 : \A e \in E : e \in h.table[i] <=> i = Slot(h, e.key)
  BY <1>2
<1> QED BY <1>2, <1>3, <1>4 DEF Table, n, E

\* Every entry is where its key hashes to, no key has two, and the counters are exact.
THEOREM TablesAreConsistent == Spec => []Consistent
<1>1. Inv => Consistent
  <2> SUFFICES ASSUME Inv PROVE Consistent
    OBVIOUS
  <2>1. /\ d = [ht0 |-> d.ht0, ht1 |-> d.ht1, idx |-> d.idx]
        /\ Sound(d.ht0) /\ Sound(d.ht1) /\ Unique(All(d))
        /\ Entries(d.ht0) \cap Entries(d.ht1) = {}
        /\ result \in Stored \cup BOOLEAN
    BY DEF Inv, Good, Shape
  <2>2. /\ d.idx = -1 => d.ht1 = NullTable
        /\ d.idx # -1 => d.idx \in Nat /\ d.idx < Size(d.ht0) /\ 2 * Size(d.ht0) <= Size(d.ht1)
    BY DEF Inv, Good, Shape
  <2>3. \A h \in {d.ht0, d.ht1} :
          /\ Table(h)
          /\ \A i \in Bucket(h), e \in Entries(h) : e \in h.table[i] <=> i = Slot(h, e.key)
          /\ h.used = Cardinality(Entries(h))
    BY <2>1, SoundTable
  <2>4. Size(d.ht0) \in Nat /\ Size(d.ht1) \in Nat /\ Bucket(d.ht0) = 0..Size(d.ht0) - 1
    BY <2>1, SoundProperties DEF Sound
  <2>5. d.idx \in {-1} \cup Bucket(d.ht0) \cup {Size(d.ht0)}
    BY <2>2, <2>4
  <2>6. d.idx # -1 => d.ht1 # NullTable
    <3>1. d.idx # -1 => Size(d.ht1) > 0
      BY <2>2, <2>4
    <3> QED BY <3>1, NullTableSound
  <2>7. \A e, f \in Entries(d.ht0) \cup Entries(d.ht1) : e.key = f.key => e = f
    BY <2>1 DEF Unique, All
  <2>8. TypeOK
    BY <2>1, <2>3, <2>5 DEF TypeOK
  <2> QED BY <2>1, <2>2, <2>3, <2>6, <2>7, <2>8 DEF Consistent
<1> QED BY <1>1, InvHolds, PTL

\* Nothing is left in the old table before rehashidx.
THEOREM IndexIsReached == Spec => []NothingBehindIndex
<1>1. Inv => NothingBehindIndex
  <2> SUFFICES ASSUME Inv, IsRehashing(d), NEW i \in Bucket(d.ht0), i < d.idx
               PROVE  d.ht0.table[i] = {}
    BY DEF NothingBehindIndex
  <2> DEFINE n == Size(d.ht0)
             E == Entries(d.ht0)
  <2>1. Sound(d.ht0) /\ d.idx \in Nat /\ \A e \in E : At(n, e.key) >= d.idx
    BY DEF Inv, Good, Shape, IsRehashing
  <2>2. i \in 0..n - 1 /\ d.ht0.table[i] = {e \in E : At(n, e.key) = i} /\ n \in Nat
    BY <2>1, SoundProperties DEF Sound
  <2> HIDE DEF n, E
  <2>3. \A e \in E : At(n, e.key) # i
    BY <2>1, <2>2
  <2> QED BY <2>2, <2>3
<1> QED BY <1>1, InvHolds, PTL

\* Rehashing is over before the new table is full, and no table is overloaded.
THEOREM LoadStaysBounded == Spec => []LoadIsBounded
<1>1. Inv => LoadIsBounded
  <2> SUFFICES ASSUME Inv PROVE LoadIsBounded
    OBVIOUS
  <2>1. Good(d) /\ Sound(d.ht0) /\ Sound(d.ht1)
    BY DEF Inv, Good, Shape
  <2>2. UsedBy(d) \in Nat /\ Size(d.ht0) \in Nat /\ Size(d.ht1) \in Nat
    BY <2>1, UsedProperties
  <2>3. CASE d.idx = -1
    <3>1. UsedBy(d) + 0 <= Limit(Size(d.ht0))
      BY <2>1, <2>3 DEF Good, Bounds
    <3>2. Limit(Size(d.ht0)) \in Nat
      BY <2>2, LimitProperties
    <3>3. UsedBy(d) <= Limit(Size(d.ht0))
      BY <2>2, <3>1, <3>2
    <3> QED BY <2>3, <3>3 DEF LoadIsBounded, IsRehashing, Limit
  <2>4. CASE d.idx # -1
    <3>1. d.idx \in Nat /\ d.idx < Size(d.ht0)
      BY <2>1, <2>4 DEF Good, Shape
    <3>2. UsedBy(d) + 0 + Size(d.ht0) <= Size(d.ht1) + d.idx + 1
      BY <2>1, <2>4 DEF Good, Bounds
    <3>3. UsedBy(d) <= Size(d.ht1)
      BY <2>2, <3>1, <3>2
    <3> QED BY <2>4, <3>3 DEF LoadIsBounded, IsRehashing
  <2> QED BY <2>3, <2>4
<1> QED BY <1>1, InvHolds, PTL

\* Every operation during rehashing brings it forward.
THEOREM RehashingAdvances == Spec => RehashAdvances
<1> DEFINE Forward == IsRehashing(d) /\ IsRehashing(d') /\ Size(d'.ht0) = Size(d.ht0)
                        => d'.idx > d.idx
<1>1. Inv /\ Next => Forward
  BY NextStep DEF Advanced, IsRehashing
<1>2. Inv /\ [Next]_vars => [Forward]_vars
  BY <1>1
<1> QED BY <1>2, InvHolds, PTL DEF Spec, RehashAdvances

\* The table is a finite map: every operation leaves and returns what it would there.
THEOREM TableIsMap == Spec => ImplementsStore
<1>1. Init => Store!Init
  BY EmptyDictProperties, StoredMapIsMapOf DEF Init, Store!Init
<1>2. Inv /\ [Next]_vars => [Store!Next]_(Store!vars)
  <2> SUFFICES ASSUME Inv, [Next]_vars PROVE [Store!Next]_(Store!vars)
    OBVIOUS
  <2>1. CASE Next
    BY <2>1, NextStep
  <2>2. CASE UNCHANGED vars
    BY <2>2, StoredMapIsMapOf DEF vars, Store!vars
  <2> QED BY <2>1, <2>2
<1> QED BY <1>1, <1>2, InvHolds, PTL DEF Spec, ImplementsStore, Store!Spec
=============================================================================
