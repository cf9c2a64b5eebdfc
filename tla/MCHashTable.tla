---------------------------- MODULE MCHashTable ----------------------------
(* HashTable with five keys, two of which share a bucket in every table. *)
EXTENDS HashTable

CONSTANTS v1, v2

FewKeys == 0..4
Colliding == [k \in FewKeys |-> IF k = 4 THEN 0 ELSE k]
=============================================================================
