---------------------------- MODULE MCHashTable ----------------------------
(* A small instance of HashTable: the table of src/src/proto.c with the    *)
(* minimum capacity 1 in place of 8.  The keys collide in arrays of 1 and  *)
(* 2 slots, and not in larger ones.                                        *)
EXTENDS HashTable

HashOf == [k \in Keys |-> IF k = "a" THEN 0 ELSE 2]
=============================================================================
