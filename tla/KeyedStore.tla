----------------------------- MODULE KeyedStore -----------------------------
(***************************************************************************)
(* What HashTable promises: a finite map from keys to values.  operator[]  *)
(* inserts a default value under a key that is missing.                    *)
(***************************************************************************)
CONSTANTS
  Keys,
  Values,
  NoValue  \* what a value constructed by default is: a null TcpConnectionPtr

VARIABLES
  map,     \* the values stored, a function on the keys present
  result   \* what the last operation returned

vars == <<map, result>>

Stored == Values \cup {NoValue}

Put(m, k, v) == [j \in DOMAIN m \cup {k} |-> IF j = k THEN v ELSE m[j]]

Init ==
  /\ map = [k \in {} |-> NoValue]
  /\ result = NoValue

\* table[key], read
Get(k) ==
  /\ map' = IF k \in DOMAIN map THEN map ELSE Put(map, k, NoValue)
  /\ result' = map'[k]

\* table[key] = value
Assign(k, v) ==
  /\ map' = Put(map, k, v)
  /\ result' = v

\* insert: TRUE when the key was new
Insert(k, v) ==
  /\ map' = IF k \in DOMAIN map THEN map ELSE Put(map, k, v)
  /\ result' = (k \notin DOMAIN map)

Erase(k) ==
  /\ map' = [j \in DOMAIN map \ {k} |-> map[j]]
  /\ UNCHANGED result

Exist(k) ==
  /\ result' = (k \in DOMAIN map)
  /\ UNCHANGED map

\* Any entry, when there is one.
GetRandom ==
  /\ DOMAIN map # {}
  /\ \E k \in DOMAIN map : result' = map[k]
  /\ UNCHANGED map

Clear ==
  /\ map' = [k \in {} |-> NoValue]
  /\ UNCHANGED result

Next ==
  \/ \E k \in Keys : Get(k) \/ Erase(k) \/ Exist(k)
  \/ \E k \in Keys, v \in Values : Assign(k, v) \/ Insert(k, v)
  \/ GetRandom
  \/ Clear

Spec == Init /\ [][Next]_vars
=============================================================================
