----------------------------- MODULE HashTable -----------------------------
(***************************************************************************)
(* hashtable/hashtable.c, the chained hash table in which proto.c keeps    *)
(* its contexts and the paths of the sender.                               *)
(*                                                                         *)
(* A chain is the set of its nodes: their order would matter only to a     *)
(* search that passes two nodes of one key.  An array that was not         *)
(* allocated (nodes == NULL) is a function without slots.                  *)
(***************************************************************************)
EXTENDS Integers, FiniteSets

CONSTANTS Tables, Keys, Vals,
          Hash,      \* [Keys -> Nat], table->hash of a key
          MinCap,    \* HT_MINIMUM_CAPACITY
          Setups,    \* the capacities ht_setup is asked for
          Reserves,  \* the numbers of elements ht_reserve is asked for
          AnySwap,   \* whether tables of different capacities are swapped
          MaxCap     \* bound of the model: no table grows past it

ASSUME HashAssumption == Hash \in [Keys -> Nat]
ASSUME CapAssumption == MinCap \in Nat \ {0} /\ Setups \subseteq Nat /\ Reserves \subseteq Nat

LoadFactor == 5             \* HT_LOAD_FACTOR
GrowthFactor == 2           \* HT_GROWTH_FACTOR
ShrinkThreshold == 1 \div 4 \* HT_SHRINK_THRESHOLD, an integer division

(* The codes of hashtable.h.  Some share a value: an erase that finds no   *)
(* node, a search that finds none, and a success are the same to a caller. *)
HT_ERROR == -1
HT_SUCCESS == 0
HT_UPDATED == 1
HT_INSERTED == 0
HT_NOT_FOUND == 0
HT_FOUND == 1

VARIABLES table,    \* [Tables -> struct HashTable]
          held,     \* the tables the caller has set up
          starved,  \* an allocation has failed
          up,       \* FALSE after a failed assertion or an access outside nodes
          ret       \* what the last call returned: a code, and nodes

hvars == <<table, held, starved, up, ret>>

Node == [key : Keys, val : Vals]
NewNode(k, v) == [key |-> k, val |-> v]

Slots(c) == 0..(c - 1)
NULL == [i \in {} |-> {}]
NodesOf(T) == UNION {T.nodes[i] : i \in DOMAIN T.nodes}
OfKey(S, k) == {n \in S : n.key = k}

(* _ht_allocate, with the size a caller gives it.                          *)
Allocated(c, n) == [nodes |-> [i \in Slots(c) |-> {}], capacity |-> c,
                    threshold |-> c * LoadFactor, size |-> n]
Holding(T, ns, n) == [nodes |-> ns, capacity |-> T.capacity,
                      threshold |-> T.threshold, size |-> n]
WithoutArray(T) == Holding(T, NULL, T.size)

(* A struct nobody uses as a table; what it holds is not looked at.        *)
Unused == [nodes |-> NULL, capacity |-> 0, threshold |-> 0, size |-> 0]

SlotOf(T, k) == Hash[k] % T.capacity

(* Nodes in the chains of their keys.                                      *)
Spread(S, T) == [i \in Slots(T.capacity) |-> {n \in S : SlotOf(T, n.key) = i}]

(* Mutant: the loop over the old array stops one slot early.               *)
RehashedShort(T, c) ==
  LET N == Allocated(c, T.size)
      old == UNION {T.nodes[i] : i \in DOMAIN T.nodes \cap Slots(T.capacity - 1)}
  IN [N EXCEPT !.nodes = Spread(old, N)]

(* Mutant: the slots are those of the old capacity.                        *)
RehashedOldSlots(T, c) ==
  LET N == Allocated(c, T.size)
  IN [N EXCEPT !.nodes = [i \in Slots(c) |-> {n \in NodesOf(T) : SlotOf(T, n.key) = i}]]

(* Mutant: the new capacity is not noted.                                  *)
RehashedSilently(T, c) ==
  [T EXCEPT !.nodes = Spread(NodesOf(T), Allocated(c, T.size))]

Rehashed(T, c) == LET N == Allocated(c, T.size)
                  IN [N EXCEPT !.nodes = Spread(NodesOf(T), N)]

(* What _ht_resize leaves: a capacity below the minimum is raised to it,   *)
(* or is no reason to do anything.                                         *)
Resizes(T, c) == c >= MinCap \/ T.capacity > MinCap
Resized(T, c) == IF Resizes(T, c) THEN Rehashed(T, IF c < MinCap THEN MinCap ELSE c)
                                  ELSE T
Adjusted(T) == Resized(T, T.size * GrowthFactor)
AdjustAllocates(T) == Resizes(T, T.size * GrowthFactor)

ShouldGrow(T) == T.size = T.capacity
ShouldShrink(T) == T.size = T.capacity * ShrinkThreshold

-----------------------------------------------------------------------------
HInit == /\ table = [t \in Tables |-> Unused]
         /\ held = {} /\ starved = FALSE /\ up = TRUE
         /\ ret = <<HT_SUCCESS, {}>>

Answer(code, ns) == ret' = <<code, ns>> /\ UNCHANGED <<starved, up>>
Becomes(t, T) == table' = [table EXCEPT ![t] = T]
BothBecome(s, S, t, T) == table' = [u \in Tables |-> CASE u = s -> S [] u = t -> T
                                                     [] OTHER -> table[u]]

(* An allocation fails: the call returns an error, or the process dies of  *)
(* what the call does next.                                                *)
Error == ret' = <<HT_ERROR, {}>> /\ starved' = TRUE /\ UNCHANGED up
Dies == up' = FALSE /\ UNCHANGED ret

Usable(T) == DOMAIN T.nodes # {}
Uses(t) == t \in held /\ Usable(table[t])
InArray(T, k) == SlotOf(T, k) \in DOMAIN T.nodes
Chain(T, k) == T.nodes[SlotOf(T, k)]

Setup(t, c) == /\ t \notin held
               /\ held' = held \cup {t}
               /\ Becomes(t, Allocated(IF c < MinCap THEN MinCap ELSE c, 0))
               /\ Answer(HT_SUCCESS, {})

SetupFails(t) == /\ t \notin held
                 /\ Error
                 /\ UNCHANGED <<table, held>>

(* The chains are freed; the caller has no table any more.                 *)
Destroy(t) == /\ Uses(t)
              /\ held' = held \ {t}
              /\ Becomes(t, Unused)
              /\ Answer(HT_SUCCESS, {})

-----------------------------------------------------------------------------
(* ht_insert: the table may grow before the key is looked for.             *)

GrownFor(t) == IF ShouldGrow(table[t]) THEN Adjusted(table[t]) ELSE table[t]

WithChain(T, k, C, n) == Holding(T, [T.nodes EXCEPT ![SlotOf(T, k)] = C], n)

InsertUpdates(t, k, v) ==
  LET T == GrownFor(t)
      C == Chain(T, k)
  IN /\ Uses(t) /\ T.capacity <= MaxCap /\ InArray(T, k)
     /\ \E n \in OfKey(C, k) :
          Becomes(t, WithChain(T, k, (C \ {n}) \cup {NewNode(k, v)}, T.size))
     /\ Answer(HT_UPDATED, {})
     /\ UNCHANGED held

(* Mutant: the node is pushed without a search of the chain.               *)
InsertAddsAlways(t, k, v) ==
  LET T == GrownFor(t)
      C == Chain(T, k)
  IN /\ Uses(t) /\ T.capacity <= MaxCap /\ InArray(T, k)
     /\ Becomes(t, WithChain(T, k, C \cup {NewNode(k, v)}, T.size + 1))
     /\ Answer(HT_INSERTED, {})
     /\ UNCHANGED held

InsertAdds(t, k, v) ==
  LET T == GrownFor(t)
      C == Chain(T, k)
  IN /\ Uses(t) /\ T.capacity <= MaxCap /\ InArray(T, k)
     /\ OfKey(C, k) = {}
     /\ Becomes(t, WithChain(T, k, C \cup {NewNode(k, v)}, T.size + 1))
     /\ Answer(HT_INSERTED, {})
     /\ UNCHANGED held

(* No memory for the node: its NULL becomes the head of the chain, which   *)
(* is lost.                                                                *)
InsertFails(t, k) ==
  LET T == GrownFor(t)
  IN /\ Uses(t) /\ T.capacity <= MaxCap /\ InArray(T, k)
     /\ OfKey(Chain(T, k), k) = {}
     /\ Becomes(t, WithChain(T, k, {}, T.size))
     /\ Error
     /\ UNCHANGED held

(* No memory to grow: the result is ignored, and nodes is NULL.            *)
InsertDies(t) ==
  /\ Uses(t) /\ ShouldGrow(table[t]) /\ AdjustAllocates(table[t])
  /\ Becomes(t, WithoutArray(table[t]))
  /\ Dies /\ starved' = TRUE
  /\ UNCHANGED held

-----------------------------------------------------------------------------
(* ht_contains and ht_lookup.                                              *)
Find(t, k) ==
  LET C == Chain(table[t], k)
  IN /\ Uses(t) /\ InArray(table[t], k)
     /\ \/ OfKey(C, k) = {} /\ Answer(HT_NOT_FOUND, {})
        \/ \E n \in OfKey(C, k) : Answer(HT_FOUND, {n})
     /\ UNCHANGED <<table, held>>

(* Mutant: the node is freed but the count stays.                          *)
UnlinkedUncounted(t, k, n) == LET T == table[t]
                              IN WithChain(T, k, Chain(T, k) \ {n}, T.size)

(* ht_erase: the first node of the key is taken out of its chain, and a    *)
(* table that is empty then is made smaller.                               *)
Unlinked(t, k, n) == LET T == table[t]
                     IN WithChain(T, k, Chain(T, k) \ {n}, T.size - 1)

ErasesNode(t, k) == Uses(t) /\ InArray(table[t], k)

EraseMisses(t, k) == /\ ErasesNode(t, k)
                     /\ OfKey(Chain(table[t], k), k) = {}
                     /\ Answer(HT_NOT_FOUND, {})
                     /\ UNCHANGED <<table, held>>

EraseRemoves(t, k) ==
  /\ ErasesNode(t, k)
  /\ \E n \in OfKey(Chain(table[t], k), k) :
       LET T == Unlinked(t, k, n)
       IN Becomes(t, IF ShouldShrink(T) THEN Adjusted(T) ELSE T)
  /\ Answer(HT_SUCCESS, {})
  /\ UNCHANGED held

EraseFails(t, k) ==
  /\ ErasesNode(t, k)
  /\ \E n \in OfKey(Chain(table[t], k), k) :
       LET T == Unlinked(t, k, n)
       IN ShouldShrink(T) /\ AdjustAllocates(T) /\ Becomes(t, WithoutArray(T))
  /\ Error
  /\ UNCHANGED held

-----------------------------------------------------------------------------
Clear(t) == /\ Uses(t)
            /\ Becomes(t, Allocated(MinCap, 0))
            /\ Answer(HT_SUCCESS, {})
            /\ UNCHANGED held

(* The result of the allocation is ignored, and success reported.          *)
ClearStarved(t) == /\ Uses(t)
                   /\ Becomes(t, Holding(table[t], NULL, 0))
                   /\ ret' = <<HT_SUCCESS, {}>> /\ starved' = TRUE
                   /\ UNCHANGED <<held, up>>

Reserve(t, m) ==
  LET T == table[t]
  IN /\ Uses(t)
     /\ Becomes(t, IF m > T.threshold THEN Resized(T, m \div LoadFactor) ELSE T)
     /\ Answer(HT_SUCCESS, {})
     /\ UNCHANGED held

ReserveFails(t, m) ==
  LET T == table[t]
  IN /\ Uses(t) /\ m > T.threshold /\ Resizes(T, m \div LoadFactor)
     /\ Becomes(t, WithoutArray(T))
     /\ Error
     /\ UNCHANGED held

IsEmpty(t) == /\ t \in held
              /\ Answer(IF table[t].size = 0 THEN 1 ELSE 0, {})
              /\ UNCHANGED <<table, held>>

Iterate(t) == /\ Uses(t)
              /\ Answer(HT_SUCCESS, UNION {table[t].nodes[i] : i \in Slots(table[t].capacity)})
              /\ UNCHANGED <<table, held>>

-----------------------------------------------------------------------------
(* Two tables.  What t held before a copy or move to it is not freed.      *)

Copy(s, t) == /\ Uses(s) /\ s # t
              /\ Becomes(t, table[s])
              /\ held' = held \cup {t}
              /\ Answer(HT_SUCCESS, {})

(* The chains are copied one after the other; the one that was under way   *)
(* is lost, like in InsertFails.                                           *)
CopyFails(s, t) ==
  LET S == table[s]
  IN /\ Uses(s) /\ s # t
     /\ \/ /\ Becomes(t, IF t \in held THEN WithoutArray(table[t]) ELSE Unused)
           /\ UNCHANGED held
        \/ /\ \E c \in DOMAIN S.nodes :
                /\ S.nodes[c] # {}
                /\ Becomes(t, [S EXCEPT !.nodes =
                                [i \in DOMAIN S.nodes |-> IF i < c THEN S.nodes[i] ELSE {}]])
           /\ held' = held \cup {t}
     /\ Error

Move(s, t) == /\ Uses(s) /\ s # t
              /\ BothBecome(s, Unused, t, table[s])
              /\ held' = (held \cup {t}) \ {s}
              /\ Answer(HT_SUCCESS, {})

(* Neither capacity nor threshold is swapped.                              *)
Swap(s, t) ==
  LET With(T, S) == Holding(T, S.nodes, S.size)
  IN /\ Uses(s) /\ Uses(t) /\ s # t
     /\ ~AnySwap => table[s].capacity = table[t].capacity
     /\ BothBecome(s, With(table[s], table[t]), t, With(table[t], table[s]))
     /\ Answer(HT_SUCCESS, {})
     /\ UNCHANGED held

(* A call on a table without an array, a search that leaves the array, or  *)
(* the assertion that there are no more elements than slots.               *)
Broken(T) == \/ ~Usable(T)
             \/ T.size > T.capacity
             \/ \E k \in Keys : ~InArray(T, k)

CallBreaks(t) == /\ t \in held /\ Broken(table[t])
                 /\ Dies
                 /\ UNCHANGED <<table, held, starved>>

HNext == /\ up
         /\ \/ \E t \in Tables :
                 \/ \E c \in Setups : Setup(t, c)
                 \/ SetupFails(t) \/ Destroy(t) \/ InsertDies(t)
                 \/ Clear(t) \/ ClearStarved(t) \/ IsEmpty(t) \/ Iterate(t)
                 \/ CallBreaks(t)
                 \/ \E m \in Reserves : Reserve(t, m) \/ ReserveFails(t, m)
                 \/ \E k \in Keys :
                      \/ InsertFails(t, k) \/ Find(t, k)
                      \/ EraseMisses(t, k) \/ EraseRemoves(t, k) \/ EraseFails(t, k)
                      \/ \E v \in Vals : InsertUpdates(t, k, v) \/ InsertAdds(t, k, v)
            \/ \E s, t \in Tables : Copy(s, t) \/ CopyFails(s, t) \/ Move(s, t) \/ Swap(s, t)

HSpec == HInit /\ [][HNext]_hvars

-----------------------------------------------------------------------------
(* Every variable keeps its type; the array of a table has its capacity,   *)
(* at least the minimum, or is missing.                                    *)
IsTable(T) ==
  /\ T = [nodes |-> T.nodes, capacity |-> T.capacity,
          threshold |-> T.threshold, size |-> T.size]
  /\ T.capacity \in Nat /\ T.threshold = T.capacity * LoadFactor /\ T.size \in Nat
  /\ \/ T.nodes = NULL
     \/ T.capacity >= MinCap /\ T.nodes \in [Slots(T.capacity) -> SUBSET Node]

HTypeOK ==
  /\ table = [t \in Tables |-> table[t]] /\ \A t \in Tables : IsTable(table[t])
  /\ held \subseteq Tables /\ starved \in BOOLEAN /\ up \in BOOLEAN

(* However a table grew, shrank, or was copied, a node is in the chain its *)
(* key is looked for in, and no key has two.                               *)
IsFiled(T) ==
  /\ \A i \in DOMAIN T.nodes : \A n \in T.nodes[i] : i = SlotOf(T, n.key)
  /\ \A m, n \in NodesOf(T) : m.key = n.key => m = n

Filed == \A t \in Tables : IsFiled(table[t])

(* The count of a table is never above its capacity, which growing and the *)
(* assertion in it go by, nor below the number of its nodes; and it is     *)
(* that number until an allocation fails.                                  *)
Counts(T) ==
  /\ T.size <= T.capacity
  /\ Cardinality(NodesOf(T)) <= T.size
  /\ starved \/ Cardinality(NodesOf(T)) = T.size

SizeCounts == \A t \in held : Counts(table[t])

(* Callers see a finite map, and lose bindings to want of memory only.     *)
M == INSTANCE FiniteMap WITH map <- [t \in Tables |-> NodesOf(table[t])]

IsMap == M!MSpec
=============================================================================
