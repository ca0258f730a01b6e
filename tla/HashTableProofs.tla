-------------------------- MODULE HashTableProofs --------------------------
(***************************************************************************)
(* Theorems about HashTable, for any hash function, keys, values and       *)
(* capacities, as long as only tables of one capacity are swapped.         *)
(***************************************************************************)
EXTENDS HashTable, FiniteSetTheorems, TLAPS

USE DEF HT_ERROR, HT_SUCCESS, HT_UPDATED, HT_INSERTED, HT_NOT_FOUND, HT_FOUND,
        M!HT_ERROR, M!HT_SUCCESS, M!HT_UPDATED, M!HT_INSERTED, M!HT_NOT_FOUND, M!HT_FOUND

(* What is true of each struct HashTable, and what the steps preserve.     *)
Good(T) == IsTable(T) /\ IsFiled(T) /\ IsFiniteSet(NodesOf(T))

HInv == /\ HTypeOK
        /\ \A t \in Tables : Good(table[t])
        /\ SizeCounts
        /\ \A t \in held : starved \/ Usable(table[t])

-----------------------------------------------------------------------------
(* Facts about tables.                                                     *)

LEMMA UnusedGood == Good(Unused) /\ NodesOf(Unused) = {} /\ ~Usable(Unused)
<1>1. NodesOf(Unused) = {} /\ DOMAIN Unused.nodes = {}
  BY DEF Unused, NULL, NodesOf
<1>2. IsTable(Unused)
  BY DEF Unused, IsTable, LoadFactor
<1> QED
  BY <1>1, <1>2, FS_EmptySet DEF Good, IsFiled, Usable

LEMMA WithoutArrayGood ==
  ASSUME NEW T, IsTable(T)
  PROVE  /\ Good(WithoutArray(T)) /\ NodesOf(WithoutArray(T)) = {}
         /\ ~Usable(WithoutArray(T))
         /\ WithoutArray(T).size = T.size /\ WithoutArray(T).capacity = T.capacity
<1>1. WithoutArray(T).nodes = NULL
  BY DEF WithoutArray, Holding, IsTable
<1>2. NodesOf(WithoutArray(T)) = {} /\ DOMAIN WithoutArray(T).nodes = {}
  BY <1>1 DEF NULL, NodesOf
<1>3. /\ IsTable(WithoutArray(T))
      /\ WithoutArray(T).size = T.size /\ WithoutArray(T).capacity = T.capacity
  BY <1>1 DEF WithoutArray, Holding, IsTable
<1> QED
  BY <1>2, <1>3, FS_EmptySet DEF Good, IsFiled, Usable

(* The array of a table has a slot for every key.                          *)
LEMMA SlotInArray ==
  ASSUME NEW T, IsTable(T), Usable(T), NEW k \in Keys
  PROVE  /\ T.capacity \in Nat \ {0} /\ T.nodes \in [Slots(T.capacity) -> SUBSET Node]
         /\ SlotOf(T, k) \in Slots(T.capacity) /\ InArray(T, k)
<1>1. T.capacity \in Nat \ {0} /\ T.nodes \in [Slots(T.capacity) -> SUBSET Node]
  BY CapAssumption DEF IsTable, Usable, NULL
<1>2. Hash[k] \in Nat
  BY HashAssumption
<1> QED
  BY <1>1, <1>2 DEF SlotOf, Slots, InArray

LEMMA NodesAreNodes ==
  ASSUME NEW T, IsTable(T)
  PROVE  NodesOf(T) \subseteq Node
BY DEF IsTable, NodesOf, NULL

LEMMA AllocatedGood ==
  ASSUME NEW c \in Nat, c >= MinCap, NEW n \in Nat
  PROVE  /\ Good(Allocated(c, n)) /\ NodesOf(Allocated(c, n)) = {}
         /\ Usable(Allocated(c, n))
         /\ Allocated(c, n).size = n /\ Allocated(c, n).capacity = c
<1> DEFINE A == Allocated(c, n)
<1>1. A.nodes = [i \in Slots(c) |-> {}] /\ A.size = n /\ A.capacity = c
  BY DEF Allocated
<1>2. NodesOf(A) = {}
  BY <1>1 DEF NodesOf
<1>3. IsTable(A)
  BY <1>1 DEF IsTable, Allocated, LoadFactor
<1>4. Usable(A)
  BY <1>1, CapAssumption DEF Usable, Slots
<1> QED
  BY <1>1, <1>2, <1>3, <1>4, FS_EmptySet DEF Good, IsFiled

LEMMA SpreadFacts ==
  ASSUME NEW S \in SUBSET Node, NEW T
  PROVE  /\ Spread(S, T) \in [Slots(T.capacity) -> SUBSET Node]
         /\ \A i \in Slots(T.capacity) : \A n :
              n \in Spread(S, T)[i] <=> n \in S /\ SlotOf(T, n.key) = i
BY DEF Spread

(* A rehash moves every node, and each to the chain of its key.            *)
LEMMA RehashedGood ==
  ASSUME NEW T, Good(T), NEW c \in Nat, c >= MinCap
  PROVE  /\ Good(Rehashed(T, c)) /\ NodesOf(Rehashed(T, c)) = NodesOf(T)
         /\ Usable(Rehashed(T, c))
         /\ Rehashed(T, c).size = T.size /\ Rehashed(T, c).capacity = c
<1> DEFINE N == Allocated(c, T.size)
           R == Rehashed(T, c)
<1>1. /\ N = [nodes |-> [i \in Slots(c) |-> {}], capacity |-> c,
              threshold |-> c * LoadFactor, size |-> T.size]
      /\ c > 0 /\ T.size \in Nat
  BY CapAssumption DEF Allocated, Good, IsTable
<1>2. R = [nodes |-> Spread(NodesOf(T), N), capacity |-> c,
           threshold |-> c * LoadFactor, size |-> T.size]
  BY <1>1 DEF Rehashed
<1>3. NodesOf(T) \in SUBSET Node
  BY NodesAreNodes DEF Good
<1>4. /\ R.nodes \in [Slots(c) -> SUBSET Node]
      /\ \A i \in Slots(c) : \A n :
           n \in R.nodes[i] <=> n \in NodesOf(T) /\ SlotOf(N, n.key) = i
  <2>1. N.capacity = c /\ R.nodes = Spread(NodesOf(T), N)
    BY <1>1, <1>2
  <2> HIDE DEF N, R
  <2>2. /\ Spread(NodesOf(T), N) \in [Slots(N.capacity) -> SUBSET Node]
        /\ \A i \in Slots(N.capacity) : \A n :
             n \in Spread(NodesOf(T), N)[i] <=> n \in NodesOf(T) /\ SlotOf(N, n.key) = i
    BY <1>3, SpreadFacts
  <2> QED
    BY <2>1, <2>2
<1>5. \A k : SlotOf(N, k) = Hash[k] % c /\ SlotOf(R, k) = Hash[k] % c
  BY <1>1, <1>2 DEF SlotOf
<1>6. \A n \in NodesOf(T) : SlotOf(N, n.key) \in Slots(c)
  <2>1. ASSUME NEW k \in Keys PROVE Hash[k] % c \in Slots(c)
    <3>1. Hash[k] \in Nat
      BY HashAssumption
    <3> QED
      BY <3>1, <1>1 DEF Slots
  <2> QED
    BY <2>1, <1>3, <1>5 DEF Node
<1>7. NodesOf(R) = NodesOf(T)
  <2> HIDE DEF N, R
  <2> QED
    BY <1>4, <1>6 DEF NodesOf
<1>8. IsTable(R)
  <2>1. /\ R = [nodes |-> R.nodes, capacity |-> R.capacity,
                threshold |-> R.threshold, size |-> R.size]
        /\ R.capacity = c /\ R.threshold = c * LoadFactor /\ R.size = T.size
    BY <1>2
  <2> HIDE DEF N, R
  <2> QED
    BY <1>1, <1>4, <2>1 DEF IsTable
<1>9. IsFiled(R)
  <2> HIDE DEF N, R
  <2>1. \A i \in DOMAIN R.nodes : \A n \in R.nodes[i] : i = SlotOf(R, n.key)
    BY <1>4, <1>5
  <2> QED
    BY <2>1, <1>7 DEF IsFiled, Good
<1>10. Usable(R)
  <2> HIDE DEF N, R
  <2> QED
    BY <1>1, <1>4 DEF Usable, Slots
<1>11. R.size = T.size /\ R.capacity = c
  BY <1>2
<1> QED
  BY <1>7, <1>8, <1>9, <1>10, <1>11 DEF Good

LEMMA ResizedGood ==
  ASSUME NEW T, Good(T), Usable(T), NEW c \in Nat
  PROVE  /\ Good(Resized(T, c)) /\ NodesOf(Resized(T, c)) = NodesOf(T)
         /\ Usable(Resized(T, c))
         /\ Resized(T, c).size = T.size
         /\ Resizes(T, c) => Resized(T, c).capacity >= c
         /\ ~Resizes(T, c) => Resized(T, c) = T
<1>1. CASE Resizes(T, c)
  <2> DEFINE d == IF c < MinCap THEN MinCap ELSE c
  <2>1. d \in Nat /\ d >= MinCap /\ d >= c
    BY CapAssumption
  <2>2. Resized(T, c) = Rehashed(T, d)
    BY <1>1 DEF Resized
  <2> HIDE DEF d
  <2> QED
    BY <1>1, <2>1, <2>2, RehashedGood
<1>2. CASE ~Resizes(T, c)
  BY <1>2 DEF Resized
<1> QED
  BY <1>1, <1>2

(* One chain is replaced by another of nodes that belong there.            *)
LEMMA WithChainGood ==
  ASSUME NEW T, Good(T), Usable(T), NEW k \in Keys,
         NEW C \in SUBSET Node, \A n \in C : SlotOf(T, n.key) = SlotOf(T, k),
         \A m, n \in C : m.key = n.key => m = n,
         IsFiniteSet(C), NEW s \in Nat
  PROVE  /\ Good(WithChain(T, k, C, s)) /\ Usable(WithChain(T, k, C, s))
         /\ NodesOf(WithChain(T, k, C, s)) = (NodesOf(T) \ Chain(T, k)) \cup C
         /\ WithChain(T, k, C, s).size = s
         /\ WithChain(T, k, C, s).capacity = T.capacity
<1> DEFINE W == WithChain(T, k, C, s)
           i == SlotOf(T, k)
<1>1. /\ T.nodes \in [Slots(T.capacity) -> SUBSET Node]
      /\ i \in Slots(T.capacity)
  BY SlotInArray DEF Good
<1>2. /\ W = [nodes |-> [T.nodes EXCEPT ![i] = C], capacity |-> T.capacity,
              threshold |-> T.threshold, size |-> s]
      /\ DOMAIN W.nodes = Slots(T.capacity)
  BY <1>1 DEF WithChain, Holding
<1>3. \A j \in Slots(T.capacity) : W.nodes[j] = IF j = i THEN C ELSE T.nodes[j]
  BY <1>1, <1>2
<1>4. \A q : SlotOf(W, q) = SlotOf(T, q)
  BY <1>2 DEF SlotOf
<1>5. \A j \in Slots(T.capacity) : \A n \in T.nodes[j] : j = SlotOf(T, n.key)
  BY <1>1 DEF Good, IsFiled
<1>6. NodesOf(W) = (NodesOf(T) \ Chain(T, k)) \cup C
  <2>1. ASSUME NEW n, n \in NodesOf(W) PROVE n \in (NodesOf(T) \ Chain(T, k)) \cup C
    <3>1. PICK j \in Slots(T.capacity) : n \in W.nodes[j]
      BY <2>1, <1>2 DEF NodesOf
    <3>2. CASE j = i
      BY <3>1, <3>2, <1>3
    <3>3. CASE j # i
      <4>1. n \in T.nodes[j]
        BY <3>1, <3>3, <1>3
      <4>2. n \notin T.nodes[i]
        BY <4>1, <3>3, <1>1, <1>5
      <4> QED
        BY <4>1, <4>2, <1>1 DEF NodesOf, Chain
    <3> QED
      BY <3>2, <3>3
  <2>2. ASSUME NEW n, n \in (NodesOf(T) \ Chain(T, k)) \cup C PROVE n \in NodesOf(W)
    <3>1. CASE n \in C
      <4>1. n \in W.nodes[i]
        BY <3>1, <1>1, <1>3
      <4> QED
        BY <4>1, <1>1, <1>2 DEF NodesOf
    <3>2. CASE n \in NodesOf(T) \ Chain(T, k)
      <4>1. PICK j \in Slots(T.capacity) : n \in T.nodes[j]
        BY <3>2, <1>1 DEF NodesOf
      <4>2. j # i
        BY <3>2, <4>1 DEF Chain
      <4>3. n \in W.nodes[j]
        BY <4>1, <4>2, <1>3
      <4> QED
        BY <4>3, <1>2 DEF NodesOf
    <3> QED
      BY <2>2, <3>1, <3>2
  <2> QED
    BY <2>1, <2>2
<1>7. IsTable(W)
  <2>1. W.nodes \in [Slots(T.capacity) -> SUBSET Node]
    BY <1>1, <1>2
  <2>2. T.capacity \in Nat /\ T.threshold = T.capacity * LoadFactor
    BY DEF Good, IsTable
  <2>3. T.capacity >= MinCap
    BY DEF Good, IsTable, Usable, NULL
  <2> QED
    BY <1>2, <2>1, <2>2, <2>3 DEF IsTable
<1>8. IsFiled(W)
  <2>1. \A j \in DOMAIN W.nodes : \A n \in W.nodes[j] : j = SlotOf(W, n.key)
    BY <1>2, <1>3, <1>4, <1>5
  <2>2. ASSUME NEW m \in NodesOf(W), NEW n \in NodesOf(W), m.key = n.key
        PROVE  m = n
    <3>1. CASE m \in C /\ n \in C
      BY <3>1, <2>2
    <3>2. CASE m \notin C /\ n \notin C
      BY <3>2, <2>2, <1>6 DEF Good, IsFiled
    <3>3. \A a \in NodesOf(T) : SlotOf(T, a.key) = i => a \in Chain(T, k)
      BY <1>1, <1>5 DEF NodesOf, Chain
    <3>4. CASE m \in C /\ n \notin C
      BY <3>3, <3>4, <2>2, <1>6
    <3>5. CASE m \notin C /\ n \in C
      BY <3>3, <3>5, <2>2, <1>6
    <3> QED
      BY <3>1, <3>2, <3>4, <3>5
  <2> QED
    BY <2>1, <2>2 DEF IsFiled
<1>9. IsFiniteSet(NodesOf(W))
  <2>1. IsFiniteSet(NodesOf(T) \ Chain(T, k))
    BY FS_Difference DEF Good
  <2>2. IsFiniteSet((NodesOf(T) \ Chain(T, k)) \cup C)
    BY <2>1, FS_Union
  <2> QED
    BY <2>2, <1>6
<1>10. Usable(W)
  BY <1>1, <1>2 DEF Usable
<1> QED
  BY <1>2, <1>6, <1>7, <1>8, <1>9, <1>10 DEF Good

(* A chain holds all nodes of the keys of its slot.                        *)
LEMMA ChainFacts ==
  ASSUME NEW T, Good(T), Usable(T), NEW k \in Keys
  PROVE  /\ Chain(T, k) \subseteq NodesOf(T) /\ Chain(T, k) \subseteq Node
         /\ IsFiniteSet(Chain(T, k))
         /\ \A n \in Chain(T, k) : SlotOf(T, n.key) = SlotOf(T, k)
         /\ OfKey(Chain(T, k), k) = OfKey(NodesOf(T), k)
         /\ \A n \in OfKey(NodesOf(T), k) : OfKey(NodesOf(T), k) = {n}
<1>1. /\ T.nodes \in [Slots(T.capacity) -> SUBSET Node]
      /\ SlotOf(T, k) \in Slots(T.capacity)
  BY SlotInArray DEF Good
<1>2. Chain(T, k) \subseteq NodesOf(T) /\ Chain(T, k) \subseteq Node
  BY <1>1 DEF Chain, NodesOf
<1>3. IsFiniteSet(Chain(T, k))
  BY <1>2, FS_Subset DEF Good
<1>4. \A j \in Slots(T.capacity) : \A n \in T.nodes[j] : j = SlotOf(T, n.key)
  BY <1>1 DEF Good, IsFiled
<1>5. \A n \in NodesOf(T) : n.key = k => n \in Chain(T, k)
  BY <1>1, <1>4 DEF NodesOf, Chain
<1>6. OfKey(Chain(T, k), k) = OfKey(NodesOf(T), k)
  BY <1>2, <1>5 DEF OfKey
<1>7. \A n \in OfKey(NodesOf(T), k) : OfKey(NodesOf(T), k) = {n}
  BY DEF OfKey, Good, IsFiled
<1> QED
  BY <1>1, <1>2, <1>3, <1>4, <1>6, <1>7 DEF Chain

-----------------------------------------------------------------------------
(* The shape of a step: one table changes, or none.                        *)

(* What is asked of the count of a table, s being whether memory ran out.  *)
Counted(T, s) == /\ T.size <= T.capacity
                 /\ Cardinality(NodesOf(T)) <= T.size
                 /\ s \/ Cardinality(NodesOf(T)) = T.size
                 /\ s \/ Usable(T)

Flags == /\ starved' \in BOOLEAN /\ (starved => starved')
         /\ up' \in BOOLEAN

LEMMA OneTableChanges ==
  ASSUME HInv, NEW t \in Tables, NEW T, Good(T), Becomes(t, T), Flags,
         held' \subseteq held \cup {t},
         t \in held' => Counted(T, starved')
  PROVE  HInv' /\ M!Becomes(t, NodesOf(T))
<1>1. table = [u \in Tables |-> table[u]] /\ held \subseteq Tables
  BY DEF HInv, HTypeOK
<1>2. \A u \in Tables : table'[u] = IF u = t THEN T ELSE table[u]
  BY <1>1 DEF Becomes
<1>3. table' = [u \in Tables |-> table'[u]]
  BY <1>1 DEF Becomes
<1>4. \A u \in Tables : Good(table'[u])
  BY <1>2 DEF HInv
<1>5. \A u \in held' : Counted(table'[u], starved')
  <2>1. ASSUME NEW u \in held', u # t PROVE Counted(table'[u], starved')
    <3>1. table'[u] = table[u] /\ u \in held
      BY <2>1, <1>1, <1>2
    <3> QED
      BY <3>1 DEF HInv, SizeCounts, Counts, Counted, Flags
  <2> QED
    BY <2>1, <1>2
<1>6. HTypeOK'
  BY <1>1, <1>3, <1>4 DEF HTypeOK, Good, Flags
<1>7. SizeCounts' /\ (\A u \in held : starved \/ Usable(table[u]))'
  BY <1>5 DEF SizeCounts, Counts, Counted, Usable
<1>8. (\A u \in Tables : Good(table[u]))'
  <2>1. ASSUME NEW u \in Tables PROVE Good(table[u])'
    <3>1. Good(table'[u])
      BY <1>4
    <3> QED
      BY <3>1 DEF Good, IsTable, IsFiled, NodesOf, SlotOf
  <2> QED
    BY <2>1
<1>9. M!Becomes(t, NodesOf(T))
  <2>1. [u \in Tables |-> NodesOf(table'[u])]
          = [[u \in Tables |-> NodesOf(table[u])] EXCEPT ![t] = NodesOf(T)]
    BY <1>2
  <2> QED
    BY <2>1 DEF M!Becomes, NodesOf
<1> QED
  BY <1>6, <1>7, <1>8, <1>9 DEF HInv

LEMMA NoTableChanges ==
  ASSUME HInv, UNCHANGED <<table, held>>, Flags
  PROVE  HInv' /\ UNCHANGED [u \in Tables |-> NodesOf(table[u])]
<1>1. HTypeOK'
  BY DEF HInv, HTypeOK, Flags
<1>2. SizeCounts' /\ (\A u \in held : starved \/ Usable(table[u]))'
  BY DEF HInv, SizeCounts, Counts, Flags, Usable
<1>3. (\A u \in Tables : Good(table[u]))'
  BY DEF HInv
<1>4. UNCHANGED [u \in Tables |-> NodesOf(table[u])]
  OBVIOUS
<1> QED
  BY <1>1, <1>2, <1>3, <1>4 DEF HInv

LEMMA Invariants ==
  ASSUME HInv, NEW t \in Tables
  PROVE  /\ Good(table[t]) /\ IsTable(table[t]) /\ NodesOf(table[t]) \subseteq Node
         /\ t \in held => Counted(table[t], starved)
         /\ starved \in BOOLEAN /\ up \in BOOLEAN /\ held \subseteq Tables
BY NodesAreNodes DEF HInv, HTypeOK, Good, SizeCounts, Counts, Counted

LEMMA TwoTablesChange ==
  ASSUME HInv, NEW s \in Tables, NEW t \in Tables, s # t,
         NEW S, Good(S), NEW T, Good(T),
         BothBecome(s, S, t, T), Flags,
         held' \subseteq held \cup {t},
         s \in held' => Counted(S, starved'), t \in held' => Counted(T, starved')
  PROVE  HInv' /\ M!BothBecome(s, NodesOf(S), t, NodesOf(T))
<1>1. table = [u \in Tables |-> table[u]] /\ held \subseteq Tables
  BY DEF HInv, HTypeOK
<1>2. \A u \in Tables : table'[u] = IF u = s THEN S ELSE IF u = t THEN T ELSE table[u]
  BY DEF BothBecome
<1>3. table' = [u \in Tables |-> table'[u]]
  BY DEF BothBecome
<1>4. \A u \in Tables : Good(table'[u])
  BY <1>2 DEF HInv
<1>5. \A u \in held' : Counted(table'[u], starved')
  <2>1. ASSUME NEW u \in held', u # t, u # s PROVE Counted(table'[u], starved')
    <3>1. table'[u] = table[u] /\ u \in held
      BY <2>1, <1>1, <1>2
    <3> QED
      BY <3>1 DEF HInv, SizeCounts, Counts, Counted, Flags
  <2> QED
    BY <2>1, <1>2
<1>6. HTypeOK'
  BY <1>1, <1>3, <1>4 DEF HTypeOK, Good, Flags
<1>7. SizeCounts' /\ (\A u \in held : starved \/ Usable(table[u]))'
  BY <1>5 DEF SizeCounts, Counts, Counted, Usable
<1>8. (\A u \in Tables : Good(table[u]))'
  <2>1. ASSUME NEW u \in Tables PROVE Good(table[u])'
    <3>1. Good(table'[u])
      BY <1>4
    <3> QED
      BY <3>1 DEF Good, IsTable, IsFiled, NodesOf, SlotOf
  <2> QED
    BY <2>1
<1>9. M!BothBecome(s, NodesOf(S), t, NodesOf(T))
  <2>1. \A u \in Tables : NodesOf(table'[u])
          = CASE u = s -> NodesOf(S) [] u = t -> NodesOf(T) [] OTHER -> NodesOf(table[u])
    BY <1>2
  <2>2. [u \in Tables |-> NodesOf(table'[u])]
          = [u \in Tables |-> CASE u = s -> NodesOf(S) [] u = t -> NodesOf(T)
                               [] OTHER -> [w \in Tables |-> NodesOf(table[w])][u]]
    BY <2>1
  <2> QED
    BY <2>2 DEF M!BothBecome, NodesOf
<1> QED
  BY <1>6, <1>7, <1>8, <1>9 DEF HInv

-----------------------------------------------------------------------------
(* Insertion.                                                              *)

(* A table that may have grown has the same nodes and room for one more.   *)
LEMMA GrownGood ==
  ASSUME HInv, NEW t \in Tables, Uses(t)
  PROVE  /\ Good(GrownFor(t)) /\ Usable(GrownFor(t))
         /\ NodesOf(GrownFor(t)) = NodesOf(table[t])
         /\ GrownFor(t).size = table[t].size
         /\ GrownFor(t).size \in Nat /\ GrownFor(t).capacity \in Nat
         /\ GrownFor(t).size + 1 <= GrownFor(t).capacity
<1> DEFINE T == table[t]
<1>1. /\ Good(T) /\ Usable(T) /\ Counted(T, starved)
      /\ T.size \in Nat /\ T.capacity \in Nat
      /\ T.capacity >= MinCap /\ MinCap > 0
  <2>1. Good(T) /\ IsTable(T) /\ Usable(T) /\ Counted(T, starved)
    BY Invariants DEF Uses
  <2> QED
    BY <2>1, CapAssumption DEF IsTable, Usable, NULL
<1>2. CASE ShouldGrow(T)
  <2>1. T.size = T.capacity /\ T.size * GrowthFactor = T.size + T.size
    BY <1>1, <1>2 DEF ShouldGrow, GrowthFactor
  <2>2. Resizes(T, T.size * GrowthFactor) /\ T.size * GrowthFactor \in Nat
    BY <1>1, <2>1 , CapAssumption DEF Resizes
  <2>3. GrownFor(t) = Resized(T, T.size * GrowthFactor)
    BY <1>2 DEF GrownFor, Adjusted
  <2>4. /\ Good(GrownFor(t)) /\ NodesOf(GrownFor(t)) = NodesOf(T)
        /\ Usable(GrownFor(t)) /\ GrownFor(t).size = T.size
        /\ GrownFor(t).capacity >= T.size * GrowthFactor
    BY <1>1, <2>2, <2>3, ResizedGood
  <2>5. GrownFor(t).capacity \in Nat
    BY <2>4 DEF Good, IsTable
  <2> QED
    BY <1>1, <2>1, <2>4, <2>5, CapAssumption
<1>3. CASE ~ShouldGrow(T)
  <2>1. GrownFor(t) = T
    BY <1>3 DEF GrownFor
  <2>2. T.size < T.capacity
    BY <1>1, <1>3 DEF ShouldGrow, Counted
  <2> QED
    BY <1>1, <2>1, <2>2
<1> QED
  BY <1>2, <1>3

LEMMA InsertAddsStep ==
  ASSUME HInv, up, NEW t \in Tables, NEW k \in Keys, NEW v \in Vals,
         InsertAdds(t, k, v)
  PROVE  HInv' /\ M!MNext
<1> DEFINE T == GrownFor(t)
           C == Chain(T, k)
           N == NodesOf(table[t])
           D == C \cup {NewNode(k, v)}
           W == WithChain(T, k, D, T.size + 1)
<1>1. /\ Uses(t) /\ t \in held /\ OfKey(C, k) = {} /\ Becomes(t, W)
      /\ Answer(HT_INSERTED, {}) /\ UNCHANGED held
  BY DEF InsertAdds, Uses
<1>2. /\ Good(T) /\ Usable(T) /\ NodesOf(T) = N /\ T.size = table[t].size
      /\ T.size \in Nat /\ T.capacity \in Nat /\ T.size + 1 <= T.capacity
  BY <1>1, GrownGood
<1>3. /\ C \subseteq N /\ C \subseteq Node /\ IsFiniteSet(C)
      /\ \A n \in C : SlotOf(T, n.key) = SlotOf(T, k)
      /\ OfKey(N, k) = {}
  BY <1>1, <1>2, ChainFacts
<1>4. /\ NewNode(k, v) \in Node /\ NewNode(k, v).key = k
      /\ NewNode(k, v) \notin N
  BY <1>3 DEF NewNode, Node, OfKey
<1>5. Good(W) /\ Usable(W) /\ NodesOf(W) = N \cup {NewNode(k, v)}
      /\ W.size = T.size + 1 /\ W.capacity = T.capacity
  <2>1. D \in SUBSET Node /\ \A n \in D : SlotOf(T, n.key) = SlotOf(T, k)
    BY <1>3, <1>4
  <2>2. \A m, n \in D : m.key = n.key => m = n
    BY <1>1, <1>2, <1>3, <1>4 DEF OfKey, Good, IsFiled
  <2>3. IsFiniteSet(D)
    BY <1>3, FS_AddElement
  <2>4. T.size + 1 \in Nat
    BY <1>2
  <2>5. /\ Good(W) /\ Usable(W) /\ NodesOf(W) = (NodesOf(T) \ C) \cup D
        /\ W.size = T.size + 1 /\ W.capacity = T.capacity
    <3> HIDE DEF D, T
    <3> QED
      BY <1>2, <2>1, <2>2, <2>3, <2>4, WithChainGood
  <2> QED
    BY <1>2, <1>3, <2>5
<1>6. Counted(table[t], starved) /\ IsFiniteSet(N) /\ starved \in BOOLEAN /\ up \in BOOLEAN
  BY <1>1, Invariants DEF Good
<1>7. Counted(W, starved)
  <2>1. /\ Cardinality(N \cup {NewNode(k, v)}) = Cardinality(N) + 1
        /\ Cardinality(N) \in Nat
    BY <1>4, <1>6, FS_AddElement, FS_CardinalityType
  <2> HIDE DEF T, W
  <2> QED
    BY <1>2, <1>5, <1>6, <2>1 DEF Counted
<1>8. Flags /\ starved' = starved
  BY <1>1, <1>6 DEF Flags, Answer
<1>9. HInv' /\ M!Becomes(t, NodesOf(W))
  <2> HIDE DEF W
  <2> QED
    BY <1>1, <1>5, <1>7, <1>8, OneTableChanges
<1>10. M!Insert(t, k, v)
  <2>1. NodesOf(W) = (N \ M!Of(N, k)) \cup {M!Binding(k, v)} /\ M!Of(N, k) = {}
    BY <1>3, <1>5 DEF M!Of, M!Binding, NewNode, OfKey
  <2> QED
    BY <1>1, <1>9, <2>1 DEF M!Insert, M!Answer, Answer
<1> QED
  BY <1>9, <1>10 DEF M!MNext

LEMMA InsertUpdatesStep ==
  ASSUME HInv, up, NEW t \in Tables, NEW k \in Keys, NEW v \in Vals,
         InsertUpdates(t, k, v)
  PROVE  HInv' /\ M!MNext
<1> DEFINE T == GrownFor(t)
           C == Chain(T, k)
           N == NodesOf(table[t])
<1>1. PICK n \in OfKey(C, k) :
        Becomes(t, WithChain(T, k, (C \ {n}) \cup {NewNode(k, v)}, T.size))
  BY DEF InsertUpdates
<1> DEFINE D == (C \ {n}) \cup {NewNode(k, v)}
           W == WithChain(T, k, D, T.size)
<1>2. /\ Uses(t) /\ t \in held /\ Becomes(t, W)
      /\ Answer(HT_UPDATED, {}) /\ UNCHANGED held
  BY <1>1 DEF InsertUpdates, Uses
<1>3. /\ Good(T) /\ Usable(T) /\ NodesOf(T) = N /\ T.size = table[t].size
      /\ T.size \in Nat /\ T.capacity \in Nat /\ T.size + 1 <= T.capacity
  BY <1>2, GrownGood
<1>4. /\ C \subseteq N /\ C \subseteq Node /\ IsFiniteSet(C)
      /\ \A m \in C : SlotOf(T, m.key) = SlotOf(T, k)
      /\ OfKey(C, k) = OfKey(N, k) /\ OfKey(N, k) = {n}
      /\ n \in N /\ n.key = k
  BY <1>2, <1>3, ChainFacts DEF OfKey
<1>5. NewNode(k, v) \in Node /\ NewNode(k, v).key = k
  BY DEF NewNode, Node
<1>6. /\ Good(W) /\ Usable(W) /\ NodesOf(W) = (N \ {n}) \cup {NewNode(k, v)}
      /\ W.size = T.size /\ W.capacity = T.capacity
  <2>1. D \in SUBSET Node /\ \A m \in D : SlotOf(T, m.key) = SlotOf(T, k)
    BY <1>4, <1>5
  <2>2. \A a, b \in D : a.key = b.key => a = b
    <3>1. \A a \in C \ {n} : a.key # k
      BY <1>4 DEF OfKey
    <3> QED
      BY <3>1, <1>3, <1>4, <1>5 DEF Good, IsFiled
  <2>3. IsFiniteSet(D)
    <3>1. IsFiniteSet(C \ {n})
      BY <1>4, FS_Difference
    <3> QED
      BY <3>1, FS_AddElement
  <2>4. /\ Good(W) /\ Usable(W) /\ NodesOf(W) = (NodesOf(T) \ C) \cup D
        /\ W.size = T.size /\ W.capacity = T.capacity
    <3> HIDE DEF D, T
    <3> QED
      BY <1>3, <2>1, <2>2, <2>3, WithChainGood
  <2>5. n \in C
    BY <1>4 DEF OfKey
  <2> QED
    BY <1>3, <1>4, <2>4, <2>5
<1>7. Counted(table[t], starved) /\ IsFiniteSet(N) /\ starved \in BOOLEAN /\ up \in BOOLEAN
  BY <1>2, Invariants DEF Good
<1>8. Counted(W, starved)
  <2>1. /\ IsFiniteSet(N \ {n}) /\ Cardinality(N \ {n}) = Cardinality(N) - 1
        /\ Cardinality(N) \in Nat
    BY <1>4, <1>7, FS_RemoveElement, FS_CardinalityType
  <2>2. NewNode(k, v) \notin N \ {n}
    BY <1>4, <1>5 DEF OfKey
  <2>3. Cardinality((N \ {n}) \cup {NewNode(k, v)}) = Cardinality(N)
    <3>1. Cardinality((N \ {n}) \cup {NewNode(k, v)}) = Cardinality(N \ {n}) + 1
      BY <2>1, <2>2, FS_AddElement
    <3> QED
      BY <2>1, <3>1
  <2> HIDE DEF T, W
  <2> QED
    BY <1>3, <1>6, <1>7, <2>1, <2>3 DEF Counted
<1>9. Flags /\ starved' = starved
  BY <1>2, <1>7 DEF Flags, Answer
<1>10. HInv' /\ M!Becomes(t, NodesOf(W))
  <2> HIDE DEF W
  <2> QED
    BY <1>2, <1>6, <1>8, <1>9, OneTableChanges
<1>11. M!Insert(t, k, v)
  <2>1. /\ NodesOf(W) = (N \ M!Of(N, k)) \cup {M!Binding(k, v)}
        /\ M!Of(N, k) = {n}
    BY <1>4, <1>6 DEF M!Of, M!Binding, NewNode, OfKey
  <2> QED
    BY <1>2, <1>10, <2>1 DEF M!Insert, M!Answer, Answer
<1> QED
  BY <1>10, <1>11 DEF M!MNext

(* A call on t without the memory it needs leaves some of its nodes.       *)
LEMMA FailsStep ==
  ASSUME HInv, up, NEW s \in Tables, NEW t \in Tables,
         NEW T, Good(T), NodesOf(T) \subseteq NodesOf(table[s]),
         T.size <= T.capacity, Cardinality(NodesOf(T)) <= T.size, Becomes(t, T),
         starved' = TRUE, held \subseteq held', held' \subseteq held \cup {t},
         \/ ret' = <<HT_ERROR, {}>> /\ up' = up
         \/ ret' = ret /\ up' = FALSE
  PROVE  HInv' /\ M!MNext
<1>1. starved \in BOOLEAN /\ up \in BOOLEAN
  BY Invariants
<1>2. Flags /\ Counted(T, starved')
  BY <1>1 DEF Flags, Counted
<1>3. HInv' /\ M!Becomes(t, NodesOf(T))
  BY <1>2, OneTableChanges
<1>4. NodesOf(T) \in SUBSET [u \in Tables |-> NodesOf(table[u])][s]
  OBVIOUS
<1>5. M!Fails(s, t)
  BY <1>3, <1>4 DEF M!Fails
<1> QED
  BY <1>3, <1>5 DEF M!MNext

(* Fewer nodes in the chains leave a good table.                           *)
LEMMA FewerCounted ==
  ASSUME HInv, NEW t \in Tables, t \in held,
         NEW S, S \subseteq NodesOf(table[t])
  PROVE  /\ IsFiniteSet(S) /\ Cardinality(S) \in Nat
         /\ Cardinality(S) <= table[t].size
<1>1. IsFiniteSet(NodesOf(table[t])) /\ table[t].size \in Nat
      /\ Cardinality(NodesOf(table[t])) <= table[t].size
  BY Invariants DEF Good, IsTable, Counted
<1>2. /\ IsFiniteSet(S) /\ Cardinality(S) <= Cardinality(NodesOf(table[t]))
  BY <1>1, FS_Subset
<1> QED
  BY <1>1, <1>2, FS_CardinalityType

LEMMA InsertFailsStep ==
  ASSUME HInv, up, NEW t \in Tables, NEW k \in Keys, InsertFails(t, k)
  PROVE  HInv' /\ M!MNext
<1> DEFINE T == GrownFor(t)
           W == WithChain(T, k, {}, T.size)
<1>1. /\ Uses(t) /\ t \in held /\ Becomes(t, W) /\ Error /\ UNCHANGED held
  BY DEF InsertFails, Uses
<1>2. /\ Good(T) /\ Usable(T) /\ NodesOf(T) = NodesOf(table[t])
      /\ T.size = table[t].size
      /\ T.size \in Nat /\ T.capacity \in Nat /\ T.size + 1 <= T.capacity
  BY <1>1, GrownGood
<1>3. /\ Good(W) /\ NodesOf(W) \subseteq NodesOf(table[t])
      /\ W.size = T.size /\ W.capacity = T.capacity
  <2>1. IsFiniteSet({})
    BY FS_EmptySet
  <2>2. /\ Good(W) /\ NodesOf(W) = (NodesOf(T) \ Chain(T, k)) \cup {}
        /\ W.size = T.size /\ W.capacity = T.capacity
    <3> HIDE DEF T
    <3> QED
      BY <1>2, <2>1, WithChainGood
  <2> QED
    BY <1>2, <2>2
<1>4. Cardinality(NodesOf(W)) <= W.size
  <2> HIDE DEF W
  <2> QED
    BY <1>1, <1>2, <1>3, FewerCounted
<1> HIDE DEF W, T
<1> QED
  BY <1>1, <1>2, <1>3, <1>4, FailsStep DEF Error

(* The array of t is lost, and with it its nodes.                          *)
LEMMA ArrayLostStep ==
  ASSUME HInv, up, NEW t \in Tables, t \in held,
         NEW T, IsTable(T), T.size <= T.capacity, Becomes(t, WithoutArray(T)),
         starved' = TRUE, UNCHANGED held,
         \/ ret' = <<HT_ERROR, {}>> /\ up' = up
         \/ ret' = ret /\ up' = FALSE
  PROVE  HInv' /\ M!MNext
<1> DEFINE W == WithoutArray(T)
<1>1. /\ Good(W) /\ NodesOf(W) = {} /\ W.size = T.size /\ W.capacity = T.capacity
  BY WithoutArrayGood
<1>2. T.size \in Nat /\ Cardinality({}) = 0
  BY FS_EmptySet DEF IsTable
<1> HIDE DEF W
<1>3. Becomes(t, W)
  BY DEF W
<1>4. /\ NodesOf(W) \subseteq NodesOf(table[t]) /\ W.size <= W.capacity
      /\ Cardinality(NodesOf(W)) <= W.size
  BY <1>1, <1>2
<1> QED
  BY <1>1, <1>3, <1>4, FailsStep

LEMMA InsertDiesStep ==
  ASSUME HInv, up, NEW t \in Tables, InsertDies(t)
  PROVE  HInv' /\ M!MNext
<1>1. t \in held /\ IsTable(table[t]) /\ table[t].size <= table[t].capacity
  BY Invariants DEF InsertDies, Uses, Counted
<1> QED
  BY <1>1, ArrayLostStep DEF InsertDies, Dies

-----------------------------------------------------------------------------
(* Search and erasure.                                                     *)

LEMMA ReadStep ==
  ASSUME HInv, UNCHANGED <<table, held, starved, up>>
  PROVE  HInv' /\ UNCHANGED <<[u \in Tables |-> NodesOf(table[u])], held, starved, up>>
<1>1. Flags
  BY DEF HInv, HTypeOK, Flags
<1> QED
  BY <1>1, NoTableChanges

LEMMA FindStep ==
  ASSUME HInv, up, NEW t \in Tables, NEW k \in Keys, Find(t, k)
  PROVE  HInv' /\ M!MNext
<1> DEFINE C == Chain(table[t], k)
           N == NodesOf(table[t])
<1>1. /\ t \in held /\ Good(table[t]) /\ Usable(table[t])
      /\ UNCHANGED <<table, held, starved, up>>
  BY Invariants DEF Find, Uses, Answer
<1>2. /\ OfKey(C, k) = OfKey(N, k)
      /\ \A n \in OfKey(N, k) : OfKey(N, k) = {n}
  BY <1>1, ChainFacts
<1>3. ret' = <<IF OfKey(N, k) = {} THEN HT_NOT_FOUND ELSE HT_FOUND, OfKey(N, k)>>
  <2>1. CASE OfKey(C, k) = {} /\ Answer(HT_NOT_FOUND, {})
    BY <2>1, <1>2 DEF Answer
  <2>2. CASE \E n \in OfKey(C, k) : Answer(HT_FOUND, {n})
    BY <2>2, <1>2 DEF Answer
  <2> QED
    BY <2>1, <2>2 DEF Find
<1>4. /\ HInv'
      /\ UNCHANGED <<[u \in Tables |-> NodesOf(table[u])], held, starved, up>>
  BY <1>1, ReadStep
<1>5. M!Of([u \in Tables |-> NodesOf(table[u])][t], k) = OfKey(N, k)
  BY DEF M!Of, OfKey
<1>6. M!Find(t, k)
  BY <1>1, <1>3, <1>4, <1>5 DEF M!Find, M!Answer
<1> QED
  BY <1>4, <1>6 DEF M!MNext

LEMMA EraseMissesStep ==
  ASSUME HInv, up, NEW t \in Tables, NEW k \in Keys, EraseMisses(t, k)
  PROVE  HInv' /\ M!MNext
<1> DEFINE N == NodesOf(table[t])
<1>1. /\ t \in held /\ Good(table[t]) /\ Usable(table[t]) /\ table[t] = table[t]
      /\ OfKey(Chain(table[t], k), k) = {}
      /\ UNCHANGED <<table, held, starved, up>> /\ ret' = <<HT_NOT_FOUND, {}>>
  BY Invariants DEF EraseMisses, ErasesNode, Uses, Answer
<1>2. OfKey(N, k) = {}
  BY <1>1, ChainFacts
<1>3. Becomes(t, table[t])
  BY <1>1 DEF Becomes, HInv, HTypeOK
<1>4. Flags /\ (t \in held' => Counted(table[t], starved'))
  BY <1>1, Invariants DEF Flags
<1>5. HInv' /\ M!Becomes(t, N)
  BY <1>1, <1>3, <1>4, OneTableChanges
<1>6. M!Of(N, k) = {} /\ N \ M!Of(N, k) = N
  BY <1>2 DEF M!Of, OfKey
<1>7. M!Erase(t, k)
  BY <1>1, <1>5, <1>6 DEF M!Erase, M!Answer
<1> QED
  BY <1>5, <1>7 DEF M!MNext

(* A node taken out of its chain, and what is left.                        *)
LEMMA UnlinkedGood ==
  ASSUME HInv, NEW t \in Tables, NEW k \in Keys, Uses(t),
         NEW n \in OfKey(Chain(table[t], k), k)
  PROVE  LET U == Unlinked(t, k, n)
             N == NodesOf(table[t])
         IN /\ Good(U) /\ Usable(U) /\ Counted(U, starved)
            /\ U.capacity = table[t].capacity /\ U.size = table[t].size - 1
            /\ NodesOf(U) = N \ {n}
            /\ OfKey(N, k) = {n}
<1> DEFINE T == table[t]
           C == Chain(T, k)
           N == NodesOf(T)
           D == C \ {n}
           U == WithChain(T, k, D, T.size - 1)
<1>1. /\ t \in held /\ Good(T) /\ Usable(T) /\ Counted(T, starved)
      /\ starved \in BOOLEAN /\ T.size \in Nat /\ T.capacity \in Nat
  BY Invariants DEF Uses, IsTable
<1>2. /\ C \subseteq N /\ C \subseteq Node /\ IsFiniteSet(C)
      /\ \A m \in C : SlotOf(T, m.key) = SlotOf(T, k)
      /\ OfKey(N, k) = {n} /\ n \in C
  BY <1>1, ChainFacts DEF OfKey
<1>3. /\ Cardinality(N) \in Nat /\ Cardinality(N) > 0
      /\ Cardinality(N \ {n}) = Cardinality(N) - 1
  <2>1. IsFiniteSet(N) /\ n \in N
    BY <1>1, <1>2 DEF Good
  <2>2. Cardinality(N) \in Nat /\ Cardinality(N) # 0
    BY <2>1, FS_EmptySet, FS_CardinalityType
  <2>3. Cardinality(N \ {n}) = Cardinality(N) - 1
    BY <2>1, FS_RemoveElement
  <2> QED
    BY <2>2, <2>3
<1>4. T.size - 1 \in Nat
  BY <1>1, <1>3 DEF Counted
<1>5. /\ Good(U) /\ Usable(U) /\ NodesOf(U) = (N \ C) \cup D
      /\ U.size = T.size - 1 /\ U.capacity = T.capacity
  <2>1. D \in SUBSET Node /\ \A m \in D : SlotOf(T, m.key) = SlotOf(T, k)
    BY <1>2
  <2>2. \A a, b \in D : a.key = b.key => a = b
    BY <1>1, <1>2 DEF Good, IsFiled
  <2>3. IsFiniteSet(D)
    BY <1>2, FS_Difference
  <2> HIDE DEF D
  <2> QED
    BY <1>1, <1>4, <2>1, <2>2, <2>3, WithChainGood
<1>6. NodesOf(U) = N \ {n}
  BY <1>2, <1>5
<1>7. Counted(U, starved)
  <2> HIDE DEF U, T
  <2>1. /\ T.size <= T.capacity /\ Cardinality(N) <= T.size
        /\ ~starved => Cardinality(N) = T.size
    BY <1>1 DEF Counted
  <2>2. /\ U.size <= U.capacity /\ Cardinality(NodesOf(U)) <= U.size
        /\ ~starved => Cardinality(NodesOf(U)) = U.size
    <3>1. Cardinality(NodesOf(U)) = Cardinality(N) - 1 /\ U.size = T.size - 1
      BY <1>3, <1>5, <1>6
    <3>2. U.size <= U.capacity /\ Cardinality(NodesOf(U)) <= U.size
      BY <1>1, <1>3, <1>5, <2>1, <3>1
    <3> QED
      BY <2>1, <3>1, <3>2
  <2> QED
    BY <1>5, <2>2 DEF Counted
<1> QED
  BY <1>2, <1>5, <1>6, <1>7 DEF Unlinked

LEMMA EraseRemovesStep ==
  ASSUME HInv, up, NEW t \in Tables, NEW k \in Keys, EraseRemoves(t, k)
  PROVE  HInv' /\ M!MNext
<1> DEFINE N == NodesOf(table[t])
<1>1. PICK n \in OfKey(Chain(table[t], k), k) :
        Becomes(t, IF ShouldShrink(Unlinked(t, k, n))
                     THEN Adjusted(Unlinked(t, k, n)) ELSE Unlinked(t, k, n))
  BY DEF EraseRemoves
<1> DEFINE U == Unlinked(t, k, n)
           W == IF ShouldShrink(U) THEN Adjusted(U) ELSE U
<1>2. /\ Uses(t) /\ t \in held /\ UNCHANGED held /\ Answer(HT_SUCCESS, {})
  BY DEF EraseRemoves, ErasesNode, Uses
<1>3. /\ Good(U) /\ Usable(U) /\ Counted(U, starved) /\ NodesOf(U) = N \ {n}
      /\ OfKey(N, k) = {n}
  BY <1>2, UnlinkedGood
<1>4. Good(W) /\ NodesOf(W) = N \ {n} /\ Counted(W, starved)
  <2>1. CASE ~ShouldShrink(U)
    BY <2>1, <1>3
  <2>2. CASE ShouldShrink(U)
    <3> HIDE DEF U
    <3>1. U.size \in Nat /\ U.capacity \in Nat
      BY <1>3 DEF Good, IsTable
    <3>2. U.size = 0
      <4>1. ShrinkThreshold = 0
        BY DEF ShrinkThreshold
      <4> QED
        BY <2>2, <3>1, <4>1 DEF ShouldShrink
    <3>3. U.size * GrowthFactor = 0
      BY <3>2 DEF GrowthFactor
    <3>4. W = Resized(U, 0)
      BY <2>2, <3>3 DEF Adjusted
    <3>5. /\ Good(W) /\ Usable(W) /\ NodesOf(W) = NodesOf(U) /\ W.size = 0
      BY <1>3, <3>2, <3>4, ResizedGood
    <3>6. W.capacity \in Nat
      BY <3>5 DEF Good, IsTable
    <3> HIDE DEF W
    <3> QED
      BY <1>3, <3>1, <3>2, <3>5, <3>6 DEF Counted
  <2> QED
    BY <2>1, <2>2
<1>5. Flags /\ starved' = starved
  BY <1>2, Invariants DEF Flags, Answer
<1>6. HInv' /\ M!Becomes(t, NodesOf(W))
  <2> HIDE DEF W
  <2>1. Becomes(t, W)
    BY <1>1 DEF W
  <2> QED
    BY <1>2, <1>4, <1>5, <2>1, OneTableChanges
<1>7. M!Erase(t, k)
  <2>1. M!Of(N, k) = {n} /\ NodesOf(W) = N \ M!Of(N, k)
    BY <1>3, <1>4 DEF M!Of, OfKey
  <2> HIDE DEF W
  <2> QED
    BY <1>2, <1>6, <2>1 DEF M!Erase, M!Answer, Answer
<1> QED
  BY <1>6, <1>7 DEF M!MNext

LEMMA EraseFailsStep ==
  ASSUME HInv, up, NEW t \in Tables, NEW k \in Keys, EraseFails(t, k)
  PROVE  HInv' /\ M!MNext
<1>1. PICK n \in OfKey(Chain(table[t], k), k) :
        Becomes(t, WithoutArray(Unlinked(t, k, n)))
  BY DEF EraseFails
<1> DEFINE U == Unlinked(t, k, n)
<1>2. /\ Uses(t) /\ t \in held /\ UNCHANGED held /\ Error
  BY DEF EraseFails, ErasesNode, Uses
<1>3. IsTable(U) /\ U.size <= U.capacity
  BY <1>2, UnlinkedGood DEF Good, Counted
<1> HIDE DEF U
<1>4. Becomes(t, WithoutArray(U))
  BY <1>1 DEF U
<1> QED
  BY <1>2, <1>3, <1>4, ArrayLostStep DEF Error

-----------------------------------------------------------------------------
(* One table as a whole.                                                   *)

(* A table whose array is new and empty.                                   *)
LEMMA NewCounted ==
  ASSUME NEW c \in Nat, c >= MinCap, NEW s
  PROVE  /\ Good(Allocated(c, 0)) /\ Counted(Allocated(c, 0), s)
         /\ NodesOf(Allocated(c, 0)) = {}
BY AllocatedGood, CapAssumption, FS_EmptySet DEF Counted

LEMMA SetupStep ==
  ASSUME HInv, up, NEW t \in Tables, NEW c \in Setups, Setup(t, c)
  PROVE  HInv' /\ M!MNext
<1> DEFINE d == IF c < MinCap THEN MinCap ELSE c
           A == Allocated(d, 0)
<1>1. /\ t \notin held /\ held' = held \cup {t} /\ Becomes(t, A) /\ Answer(HT_SUCCESS, {})
  BY DEF Setup
<1>2. d \in Nat /\ d >= MinCap
  BY CapAssumption
<1>3. Good(A) /\ Counted(A, starved) /\ NodesOf(A) = {}
  <2> HIDE DEF d
  <2> QED
    BY <1>2, NewCounted
<1>4. Flags /\ starved' = starved
  BY <1>1, Invariants DEF Flags, Answer
<1> HIDE DEF A
<1>5. HInv' /\ M!Becomes(t, {})
  BY <1>1, <1>3, <1>4, OneTableChanges
<1>6. M!Setup(t)
  BY <1>1, <1>5 DEF M!Setup, M!Answer, Answer
<1> QED
  BY <1>5, <1>6 DEF M!MNext

LEMMA SetupFailsStep ==
  ASSUME HInv, up, NEW t \in Tables, SetupFails(t)
  PROVE  HInv' /\ M!MNext
<1>1. /\ UNCHANGED <<table, held>> /\ Error /\ Flags
  BY Invariants DEF SetupFails, Error, Flags
<1>2. HInv' /\ UNCHANGED [u \in Tables |-> NodesOf(table[u])]
  BY <1>1, NoTableChanges
<1>3. M!Becomes(t, [u \in Tables |-> NodesOf(table[u])][t])
  BY <1>2 DEF M!Becomes
<1>4. M!Fails(t, t)
  BY <1>1, <1>3 DEF M!Fails, Error
<1> QED
  BY <1>2, <1>4 DEF M!MNext

LEMMA DestroyStep ==
  ASSUME HInv, up, NEW t \in Tables, Destroy(t)
  PROVE  HInv' /\ M!MNext
<1>1. t \in held /\ held' = held \ {t} /\ Becomes(t, Unused) /\ Answer(HT_SUCCESS, {})
  BY DEF Destroy, Uses
<1>2. Flags
  BY <1>1, Invariants DEF Flags, Answer
<1>3. HInv' /\ M!Becomes(t, {})
  BY <1>1, <1>2, UnusedGood, OneTableChanges
<1>4. M!Destroy(t)
  BY <1>1, <1>3 DEF M!Destroy, M!Answer, Answer
<1> QED
  BY <1>3, <1>4 DEF M!MNext

LEMMA ClearStep ==
  ASSUME HInv, up, NEW t \in Tables, Clear(t)
  PROVE  HInv' /\ M!MNext
<1> DEFINE A == Allocated(MinCap, 0)
<1>1. t \in held /\ held' = held /\ Becomes(t, A) /\ Answer(HT_SUCCESS, {})
  BY DEF Clear, Uses
<1>2. Good(A) /\ Counted(A, starved) /\ NodesOf(A) = {}
  BY CapAssumption, NewCounted
<1>3. Flags /\ starved' = starved
  BY <1>1, Invariants DEF Flags, Answer
<1> HIDE DEF A
<1>4. HInv' /\ M!Becomes(t, {})
  BY <1>1, <1>2, <1>3, OneTableChanges
<1>5. M!Clear(t)
  BY <1>1, <1>3, <1>4 DEF M!Clear, Answer
<1> QED
  BY <1>4, <1>5 DEF M!MNext

LEMMA ClearStarvedStep ==
  ASSUME HInv, up, NEW t \in Tables, ClearStarved(t)
  PROVE  HInv' /\ M!MNext
<1> DEFINE A == Holding(table[t], NULL, 0)
<1>1. /\ t \in held /\ held' = held /\ Becomes(t, A) /\ ret' = <<HT_SUCCESS, {}>>
      /\ starved' = TRUE /\ up' = up
  BY DEF ClearStarved, Uses
<1>2. A.nodes = NULL /\ A.size = 0 /\ A.capacity \in Nat /\ IsTable(A)
  BY Invariants DEF Holding, IsTable
<1>3. Good(A) /\ NodesOf(A) = {}
  <2>1. NodesOf(A) = {} /\ DOMAIN A.nodes = {}
    BY <1>2 DEF NULL, NodesOf
  <2> QED
    BY <1>2, <2>1, FS_EmptySet DEF Good, IsFiled
<1> HIDE DEF A
<1>4. Counted(A, starved') /\ Flags
  <2>1. Cardinality(NodesOf(A)) = 0
    BY <1>3, FS_EmptySet
  <2> QED
    BY <1>1, <1>2, <2>1, Invariants DEF Counted, Flags
<1>5. HInv' /\ M!Becomes(t, {})
  BY <1>1, <1>3, <1>4, OneTableChanges
<1>6. M!Clear(t)
  BY <1>1, <1>5 DEF M!Clear
<1> QED
  BY <1>5, <1>6 DEF M!MNext

LEMMA ReserveStep ==
  ASSUME HInv, up, NEW t \in Tables, NEW m \in Reserves, Reserve(t, m)
  PROVE  HInv' /\ M!MNext
<1> DEFINE T == table[t]
           W == IF m > T.threshold THEN Resized(T, m \div LoadFactor) ELSE T
<1>1. /\ t \in held /\ Usable(T) /\ held' = held /\ Becomes(t, W) /\ Answer(HT_SUCCESS, {})
  BY DEF Reserve, Uses
<1>2. /\ Good(T) /\ Counted(T, starved) /\ T.capacity \in Nat /\ T.size \in Nat
      /\ T.threshold = T.capacity * LoadFactor /\ m \in Nat
  BY <1>1, Invariants, CapAssumption DEF IsTable
<1>3. /\ Good(W) /\ Usable(W) /\ NodesOf(W) = NodesOf(T) /\ W.size = T.size
      /\ W.size <= W.capacity
  <2>1. CASE ~(m > T.threshold)
    BY <2>1, <1>1, <1>2 DEF Counted
  <2>2. CASE m > T.threshold
    <3> DEFINE c == m \div LoadFactor
    <3>1. c \in Nat /\ c >= T.capacity
      BY <1>2, <2>2 DEF LoadFactor
    <3>2. W = Resized(T, c)
      BY <2>2
    <3> HIDE DEF c, T, W
    <3>3. /\ Good(W) /\ Usable(W) /\ NodesOf(W) = NodesOf(T) /\ W.size = T.size
          /\ W.capacity >= c \/ W = T
      BY <1>1, <1>2, <3>1, <3>2, ResizedGood
    <3>4. W.capacity \in Nat
      BY <3>3 DEF Good, IsTable
    <3> QED
      BY <1>2, <3>1, <3>3, <3>4 DEF Counted
  <2> QED
    BY <2>1, <2>2
<1>4. Counted(W, starved)
  <2> HIDE DEF W
  <2> QED
    BY <1>2, <1>3 DEF Counted
<1>5. Flags /\ starved' = starved
  BY <1>1, Invariants DEF Flags, Answer
<1> HIDE DEF W
<1>6. HInv' /\ M!Becomes(t, NodesOf(T))
  BY <1>1, <1>3, <1>4, <1>5, OneTableChanges
<1>7. UNCHANGED [u \in Tables |-> NodesOf(table[u])]
  BY <1>6 DEF M!Becomes
<1>8. M!Reserve(t)
  BY <1>1, <1>7 DEF M!Reserve, M!Answer, Answer
<1> QED
  BY <1>6, <1>8 DEF M!MNext

LEMMA ReserveFailsStep ==
  ASSUME HInv, up, NEW t \in Tables, NEW m \in Reserves, ReserveFails(t, m)
  PROVE  HInv' /\ M!MNext
<1>1. t \in held /\ IsTable(table[t]) /\ table[t].size <= table[t].capacity
  BY Invariants DEF ReserveFails, Uses, Counted
<1> QED
  BY <1>1, ArrayLostStep DEF ReserveFails, Error

LEMMA IsEmptyStep ==
  ASSUME HInv, up, NEW t \in Tables, IsEmpty(t)
  PROVE  HInv' /\ M!MNext
<1> DEFINE N == NodesOf(table[t])
<1>1. /\ t \in held /\ UNCHANGED <<table, held, starved, up>>
      /\ Answer(IF table[t].size = 0 THEN 1 ELSE 0, {})
  BY DEF IsEmpty, Answer
<1>2. /\ HInv'
      /\ UNCHANGED <<[u \in Tables |-> NodesOf(table[u])], held, starved, up>>
  BY <1>1, ReadStep
<1>3. /\ IsFiniteSet(N) /\ Cardinality(N) \in Nat /\ Cardinality(N) <= table[t].size
      /\ ~starved => Cardinality(N) = table[t].size
      /\ table[t].size \in Nat
  BY <1>1, Invariants, FS_CardinalityType DEF Good, Counted, IsTable
<1>4. table[t].size = 0 => N = {}
  BY <1>3, FS_EmptySet
<1>5. ~starved => (table[t].size = 0 <=> N = {})
  BY <1>3, <1>4, FS_EmptySet
<1>6. M!IsEmpty(t)
  <2>1. CASE table[t].size = 0 <=> N = {}
    BY <2>1, <1>1, <1>2 DEF M!IsEmpty, M!Answer, Answer
  <2>2. CASE starved /\ table[t].size # 0
    BY <2>2, <1>1, <1>2 DEF M!IsEmpty, M!Answer, Answer
  <2> QED
    BY <2>1, <2>2, <1>4, <1>5
<1> QED
  BY <1>2, <1>6 DEF M!MNext

LEMMA IterateStep ==
  ASSUME HInv, up, NEW t \in Tables, Iterate(t)
  PROVE  HInv' /\ M!MNext
<1> DEFINE T == table[t]
<1>1. /\ t \in held /\ IsTable(T) /\ Usable(T) /\ UNCHANGED <<table, held, starved, up>>
      /\ Answer(HT_SUCCESS, UNION {T.nodes[i] : i \in Slots(T.capacity)})
  BY Invariants DEF Iterate, Uses, Answer
<1>2. /\ HInv'
      /\ UNCHANGED <<[u \in Tables |-> NodesOf(table[u])], held, starved, up>>
  BY <1>1, ReadStep
<1>3. DOMAIN T.nodes = Slots(T.capacity)
  BY <1>1 DEF IsTable, Usable, NULL
<1>4. NodesOf(T) = UNION {T.nodes[i] : i \in Slots(T.capacity)}
  BY <1>3 DEF NodesOf
<1>5. M!Iterate(t)
  BY <1>1, <1>2, <1>4 DEF M!Iterate, M!Answer, Answer
<1> QED
  BY <1>2, <1>5 DEF M!MNext

-----------------------------------------------------------------------------
(* Two tables, and calls that break.                                       *)

LEMMA CopyStep ==
  ASSUME HInv, up, NEW s \in Tables, NEW t \in Tables, Copy(s, t)
  PROVE  HInv' /\ M!MNext
<1>1. /\ s \in held /\ held' = held \cup {t} /\ Becomes(t, table[s])
      /\ Answer(HT_SUCCESS, {})
  BY DEF Copy, Uses
<1>2. Flags /\ starved' = starved
  BY <1>1, Invariants DEF Flags, Answer
<1>3. Good(table[s]) /\ Counted(table[s], starved')
  BY <1>1, <1>2, Invariants
<1>4. HInv' /\ M!Becomes(t, NodesOf(table[s]))
  BY <1>1, <1>2, <1>3, OneTableChanges
<1>5. M!Copy(s, t)
  BY <1>1, <1>4 DEF M!Copy, M!Answer, Answer
<1> QED
  BY <1>4, <1>5 DEF M!MNext

(* The chains before c are there, the others are empty.                    *)
LEMMA TruncatedGood ==
  ASSUME NEW S, Good(S), Usable(S), NEW c
  PROVE  LET W == [S EXCEPT !.nodes =
                     [i \in DOMAIN S.nodes |-> IF i < c THEN S.nodes[i] ELSE {}]]
         IN /\ Good(W) /\ NodesOf(W) \subseteq NodesOf(S)
            /\ W.size = S.size /\ W.capacity = S.capacity
<1> DEFINE F == [i \in DOMAIN S.nodes |-> IF i < c THEN S.nodes[i] ELSE {}]
           W == [S EXCEPT !.nodes = F]
<1>1. W = [nodes |-> F, capacity |-> S.capacity,
           threshold |-> S.threshold, size |-> S.size]
  <2> HIDE DEF F
  <2> QED
    BY DEF Good, IsTable
<1>2. S.nodes \in [Slots(S.capacity) -> SUBSET Node]
  BY DEF Good, IsTable, Usable, NULL
<1>3. /\ F \in [Slots(S.capacity) -> SUBSET Node]
      /\ \A i \in DOMAIN F : F[i] \subseteq S.nodes[i]
      /\ DOMAIN F = DOMAIN S.nodes
  BY <1>2
<1> HIDE DEF F
<1>4. W.nodes = F /\ W.size = S.size /\ W.capacity = S.capacity
  BY <1>1
<1>5. NodesOf(W) \subseteq NodesOf(S)
  BY <1>3, <1>4 DEF NodesOf
<1>6. IsTable(W)
  BY <1>1, <1>2, <1>3 DEF Good, IsTable, Usable, NULL
<1>7. IsFiled(W)
  <2>1. \A k : SlotOf(W, k) = SlotOf(S, k)
    BY <1>4 DEF SlotOf
  <2> HIDE DEF W
  <2> QED
    BY <1>3, <1>4, <1>5, <2>1 DEF Good, IsFiled
<1>8. IsFiniteSet(NodesOf(W))
  BY <1>5, FS_Subset DEF Good
<1> HIDE DEF W
<1>9. Good(W) /\ NodesOf(W) \subseteq NodesOf(S)
      /\ W.size = S.size /\ W.capacity = S.capacity
  BY <1>4, <1>5, <1>6, <1>7, <1>8 DEF Good
<1> QED
  BY <1>9 DEF W, F

LEMMA CopyFailsStep ==
  ASSUME HInv, up, NEW s \in Tables, NEW t \in Tables, CopyFails(s, t)
  PROVE  HInv' /\ M!MNext
<1>1. /\ s \in held /\ Usable(table[s]) /\ Good(table[s]) /\ Counted(table[s], starved)
      /\ Error
  BY Invariants DEF CopyFails, Uses
<1>2. CASE /\ Becomes(t, IF t \in held THEN WithoutArray(table[t]) ELSE Unused)
           /\ UNCHANGED held
  <2>1. CASE t \in held
    <3>1. IsTable(table[t]) /\ table[t].size <= table[t].capacity
      BY <2>1, Invariants DEF Counted
    <3> QED
      BY <1>1, <1>2, <2>1, <3>1, ArrayLostStep DEF Error
  <2>2. CASE t \notin held
    <3>1. /\ Becomes(t, Unused) /\ Unused.size <= Unused.capacity
          /\ Cardinality({}) <= Unused.size
      BY <1>2, <2>2, FS_EmptySet DEF Unused
    <3> QED
      BY <1>1, <1>2, <3>1, UnusedGood, FailsStep DEF Error
  <2> QED
    BY <2>1, <2>2
<1>3. ASSUME NEW c, held' = held \cup {t},
             Becomes(t, [table[s] EXCEPT !.nodes =
               [i \in DOMAIN table[s].nodes |-> IF i < c THEN table[s].nodes[i] ELSE {}]])
      PROVE  HInv' /\ M!MNext
  <2> DEFINE S == table[s]
             W == [S EXCEPT !.nodes =
                    [i \in DOMAIN S.nodes |-> IF i < c THEN S.nodes[i] ELSE {}]]
  <2>1. /\ Good(W) /\ NodesOf(W) \subseteq NodesOf(S)
        /\ W.size = S.size /\ W.capacity = S.capacity
    BY <1>1, TruncatedGood
  <2>2. Becomes(t, W)
    BY <1>3
  <2> HIDE DEF W
  <2>3. W.size <= W.capacity /\ Cardinality(NodesOf(W)) <= W.size
    BY <1>1, <2>1, FewerCounted DEF Counted
  <2> QED
    BY <1>1, <1>3, <2>1, <2>2, <2>3, FailsStep DEF Error
<1> QED
  BY <1>2, <1>3 DEF CopyFails

LEMMA MoveStep ==
  ASSUME HInv, up, NEW s \in Tables, NEW t \in Tables, Move(s, t)
  PROVE  HInv' /\ M!MNext
<1>1. /\ s \in held /\ s # t /\ held' = (held \cup {t}) \ {s}
      /\ BothBecome(s, Unused, t, table[s]) /\ Answer(HT_SUCCESS, {})
  BY DEF Move, Uses
<1>2. Flags /\ starved' = starved
  BY <1>1, Invariants DEF Flags, Answer
<1>3. Good(table[s]) /\ Counted(table[s], starved')
  BY <1>1, <1>2, Invariants
<1>4. HInv' /\ M!BothBecome(s, {}, t, NodesOf(table[s]))
  BY <1>1, <1>2, <1>3, UnusedGood, TwoTablesChange
<1>5. M!Move(s, t)
  BY <1>1, <1>4 DEF M!Move, M!Answer, Answer
<1> QED
  BY <1>4, <1>5 DEF M!MNext

(* A struct with the array of another table of its capacity.               *)
LEMMA SwappedGood ==
  ASSUME NEW S, Good(S), Usable(S), NEW T, Good(T), Usable(T), NEW f,
         S.capacity = T.capacity, Counted(T, f)
  PROVE  LET W == Holding(S, T.nodes, T.size)
         IN Good(W) /\ Counted(W, f) /\ NodesOf(W) = NodesOf(T)
<1> DEFINE W == Holding(S, T.nodes, T.size)
<1>1. /\ W = [nodes |-> T.nodes, capacity |-> T.capacity,
              threshold |-> T.threshold, size |-> T.size]
  BY DEF Holding, Good, IsTable
<1>2. W = T
  BY <1>1 DEF Good, IsTable
<1> QED
  BY <1>2

LEMMA SwapStep ==
  ASSUME HInv, up, ~AnySwap, NEW s \in Tables, NEW t \in Tables, Swap(s, t)
  PROVE  HInv' /\ M!MNext
<1> DEFINE S == Holding(table[s], table[t].nodes, table[t].size)
           T == Holding(table[t], table[s].nodes, table[s].size)
<1>1. /\ s \in held /\ t \in held /\ Usable(table[s]) /\ Usable(table[t]) /\ s # t
      /\ table[s].capacity = table[t].capacity /\ held' = held
      /\ BothBecome(s, S, t, T) /\ Answer(HT_SUCCESS, {})
  BY DEF Swap, Uses
<1>2. Flags /\ starved' = starved
  BY <1>1, Invariants DEF Flags, Answer
<1>3. /\ Good(table[s]) /\ Counted(table[s], starved')
      /\ Good(table[t]) /\ Counted(table[t], starved')
  BY <1>1, <1>2, Invariants
<1>4. /\ Good(S) /\ Counted(S, starved') /\ NodesOf(S) = NodesOf(table[t])
      /\ Good(T) /\ Counted(T, starved') /\ NodesOf(T) = NodesOf(table[s])
  BY <1>1, <1>3, SwappedGood
<1> HIDE DEF S, T
<1>5. HInv' /\ M!BothBecome(s, NodesOf(table[t]), t, NodesOf(table[s]))
  BY <1>1, <1>2, <1>4, TwoTablesChange
<1>6. M!Swap(s, t)
  BY <1>1, <1>5 DEF M!Swap, M!Answer, Answer
<1> QED
  BY <1>5, <1>6 DEF M!MNext

(* The only table that breaks is one whose array could not be allocated.   *)
LEMMA CallBreaksStep ==
  ASSUME HInv, up, NEW t \in Tables, CallBreaks(t)
  PROVE  HInv' /\ M!MNext
<1>1. /\ t \in held /\ IsTable(table[t]) /\ Counted(table[t], starved)
      /\ Broken(table[t]) /\ Dies /\ UNCHANGED <<table, held, starved>>
  BY Invariants DEF CallBreaks
<1>2. ~Usable(table[t])
  <2>1. table[t].size <= table[t].capacity
    BY <1>1 DEF Counted
  <2>2. Usable(table[t]) => \A k \in Keys : InArray(table[t], k)
    BY <1>1, SlotInArray
  <2>3. ~(table[t].size > table[t].capacity)
    BY <1>1, <2>1 DEF IsTable
  <2> QED
    BY <1>1, <2>2, <2>3 DEF Broken
<1>3. starved /\ starved \in BOOLEAN
  BY <1>1, <1>2, Invariants DEF Counted
<1>4. Flags
  BY <1>1, <1>3 DEF Flags, Dies
<1>5. HInv' /\ UNCHANGED [u \in Tables |-> NodesOf(table[u])]
  BY <1>1, <1>4, NoTableChanges
<1>6. M!Becomes(t, [u \in Tables |-> NodesOf(table[u])][t])
  BY <1>5 DEF M!Becomes
<1>7. M!Fails(t, t)
  BY <1>1, <1>3, <1>6 DEF M!Fails, Dies
<1> QED
  BY <1>5, <1>7 DEF M!MNext

-----------------------------------------------------------------------------
(* The theorems.                                                           *)

LEMMA InitInv == HInit => HInv /\ M!MInit
<1> SUFFICES ASSUME HInit PROVE HInv /\ M!MInit
  OBVIOUS
<1>1. \A t \in Tables : table[t] = Unused
  BY DEF HInit
<1>2. HInv
  BY <1>1, UnusedGood DEF HInit, HInv, HTypeOK, SizeCounts, Good
<1>3. [t \in Tables |-> NodesOf(table[t])] = [t \in Tables |-> {}]
  BY <1>1, UnusedGood
<1>4. M!MInit
  BY <1>3 DEF M!MInit, HInit
<1> QED
  BY <1>2, <1>4

LEMMA StepRefines ==
  ASSUME HInv, [HNext]_hvars, ~AnySwap
  PROVE  HInv' /\ [M!MNext]_M!mvars
<1>1. CASE UNCHANGED hvars
  <2>1. UNCHANGED <<table, held, starved, up, ret>>
    BY <1>1 DEF hvars
  <2> QED
    BY <2>1, ReadStep DEF M!mvars
<1>2. CASE HNext
  <2> USE <1>2 DEF HNext
  <2>0. up
    OBVIOUS
  <2>1. CASE \E t \in Tables, c \in Setups : Setup(t, c)
    BY <2>0, <2>1, SetupStep
  <2>2. CASE \E t \in Tables : SetupFails(t) \/ Destroy(t) \/ InsertDies(t)
    BY <2>0, <2>2, SetupFailsStep, DestroyStep, InsertDiesStep
  <2>3. CASE \E t \in Tables : Clear(t) \/ ClearStarved(t) \/ IsEmpty(t) \/ Iterate(t)
    BY <2>0, <2>3, ClearStep, ClearStarvedStep, IsEmptyStep, IterateStep
  <2>4. CASE \E t \in Tables : CallBreaks(t)
    BY <2>0, <2>4, CallBreaksStep
  <2>5. CASE \E t \in Tables, m \in Reserves : Reserve(t, m) \/ ReserveFails(t, m)
    BY <2>0, <2>5, ReserveStep, ReserveFailsStep
  <2>6. CASE \E t \in Tables, k \in Keys : InsertFails(t, k) \/ Find(t, k)
    BY <2>0, <2>6, InsertFailsStep, FindStep
  <2>7. CASE \E t \in Tables, k \in Keys :
               EraseMisses(t, k) \/ EraseRemoves(t, k) \/ EraseFails(t, k)
    BY <2>0, <2>7, EraseMissesStep, EraseRemovesStep, EraseFailsStep
  <2>8. CASE \E t \in Tables, k \in Keys, v \in Vals :
               InsertUpdates(t, k, v) \/ InsertAdds(t, k, v)
    BY <2>0, <2>8, InsertUpdatesStep, InsertAddsStep
  <2>9. CASE \E s, t \in Tables : Copy(s, t) \/ CopyFails(s, t) \/ Move(s, t) \/ Swap(s, t)
    BY <2>0, <2>9, CopyStep, CopyFailsStep, MoveStep, SwapStep
  <2> QED
    BY <2>1, <2>2, <2>3, <2>4, <2>5, <2>6, <2>7, <2>8, <2>9
<1> QED
  BY <1>1, <1>2

LEMMA InvHolds == ~AnySwap /\ HSpec => []HInv
<1> SUFFICES ASSUME ~AnySwap PROVE HSpec => []HInv
  OBVIOUS
<1>1. HInit => HInv
  BY InitInv
<1>2. HInv /\ [HNext]_hvars => HInv'
  BY StepRefines
<1> QED
  BY <1>1, <1>2, PTL DEF HSpec

(* Callers of hashtable.c see a finite map: growing, shrinking, erasing    *)
(* and copying neither lose a binding nor make one up, and want of memory  *)
(* loses some at most.                                                     *)
THEOREM TableIsMap == ~AnySwap /\ HSpec => IsMap
<1> SUFFICES ASSUME ~AnySwap PROVE HSpec => IsMap
  OBVIOUS
<1>1. HInit => M!MInit
  BY InitInv
<1>2. HInv /\ [HNext]_hvars => [M!MNext]_M!mvars
  BY StepRefines
<1>3. HSpec => []HInv
  BY InvHolds
<1> QED
  BY <1>1, <1>2, <1>3, PTL DEF HSpec, IsMap, M!MSpec

(* Every node is in the chain it is looked for in, and no key has two.     *)
THEOREM NodesStayFiled == ~AnySwap /\ HSpec => []Filed
<1>1. HInv => Filed
  BY DEF HInv, Good, Filed
<1> QED
  BY <1>1, InvHolds, PTL

(* The count a table grows and shrinks by is right; the assertions on it   *)
(* in hashtable.c:333 and 338 hold.                                        *)
THEOREM CountStaysRight == ~AnySwap /\ HSpec => []SizeCounts
<1>1. HInv => SizeCounts
  BY DEF HInv
<1> QED
  BY <1>1, InvHolds, PTL

(* The array of a table has the capacity and the threshold noted for it,   *)
(* however it grew, shrank, or was copied, or it is missing after an       *)
(* allocation failed (_ht_allocate, _ht_resize).                           *)
THEOREM TableTypesHold == ~AnySwap /\ HSpec => []HTypeOK
<1>1. HInv => HTypeOK
  BY DEF HInv
<1> QED
  BY <1>1, InvHolds, PTL
=============================================================================
