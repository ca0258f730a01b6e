--------------------------- MODULE ChecksumProofs ---------------------------
(* Theorems about Checksum, for any widths, polynomial, threads and data.  *)
EXTENDS Checksum, Lemmas, FiniteSetTheorems

(* The tables as they are when they are complete.                          *)
T0 == [n \in Byte |-> DivideByte(n)]
Tables == [k \in 0..(N - 1) |-> IF k = 0 THEN T0 ELSE [n \in Byte |-> Column(T0, n)[k]]]

-----------------------------------------------------------------------------
(* The inductive invariant.  Each thread knows of the entries it has       *)
(* stored itself: another one can only have stored the same.               *)

IsShaped(T) == T = [k \in 0..(N - 1) |-> [n \in Byte |-> T[k][n]]]
Shaped == IsShaped(table)

ThreadsOK == /\ init \in BOOLEAN
             /\ pc = [t \in Threads |-> pc[t]] /\ left = [t \in Threads |-> left[t]]
             /\ \A t \in Threads : left[t] \subseteq Byte

FirstDone(t) == pc[t] = "first" => \A n \in Byte \ left[t] : table[0][n] = DivideByte(n)

RestDone(t) == pc[t] = "rest" =>
                 /\ table[0] = T0
                 /\ \A k \in 1..(N - 1) : \A n \in Byte \ left[t] :
                      table[k][n] = Column(T0, n)[k]

Complete == init => table = Tables
PassesComplete == \A t \in Threads : pc[t] \in {"ready", "sum"} => init

CInv == /\ Shaped /\ ThreadsOK /\ Complete /\ PassesComplete
        /\ \A t \in Threads : FirstDone(t) /\ RestDone(t)

LEMMA NPositive == N \in Nat \ {0} /\ 0 \in 0..(N - 1)
  BY WidthAssumption

(* Entries that are right are the complete tables.                         *)
LEMMA RightIsComplete ==
  ASSUME NEW T, IsShaped(T), T[0] = T0,
         \A k \in 1..(N - 1) : \A n \in Byte : T[k][n] = Column(T0, n)[k]
  PROVE  T = Tables
<1>1. DOMAIN T = DOMAIN Tables
  BY DEF IsShaped, Tables
<1>2. ASSUME NEW k \in 0..(N - 1) PROVE T[k] = Tables[k]
  <2>1. CASE k = 0
    BY <2>1, <1>2 DEF Tables
  <2>2. CASE k # 0
    <3>1. k \in 1..(N - 1)
      BY <1>2, <2>2, NPositive
    <3>2. T[k] = [n \in Byte |-> T[k][n]]
      BY <1>2 DEF IsShaped
    <3>3. [n \in Byte |-> T[k][n]] = [n \in Byte |-> Column(T0, n)[k]]
      BY <3>1
    <3> QED BY <3>2, <3>3, <2>2, <1>2 DEF Tables
  <2> QED BY <2>1, <2>2
<1>3. T = [k \in 0..(N - 1) |-> T[k]]
  BY DEF IsShaped
<1> QED BY <1>2, <1>3 DEF Tables

(* Complete tables are shaped, and right in every entry.                   *)
LEMMA CompleteIsRight ==
  ASSUME table = Tables
  PROVE  /\ table[0] = T0
         /\ \A k \in 1..(N - 1) : \A n \in Byte : table[k][n] = Column(T0, n)[k]
  BY NPositive DEF Tables

-----------------------------------------------------------------------------
(* The invariant is about four of the variables.                           *)
LEMMA StutterKeeps ==
  ASSUME CInv, UNCHANGED <<table, init, pc, left>>
  PROVE  CInv' /\ UNCHANGED table
<1>1. Shaped' /\ Complete'
  BY DEF CInv, Shaped, IsShaped, Complete, Tables, T0
<1>2. ThreadsOK' /\ PassesComplete'
  BY DEF CInv, ThreadsOK, PassesComplete
<1>3. \A u \in Threads : FirstDone(u)' /\ RestDone(u)'
  BY DEF CInv, FirstDone, RestDone, T0
<1> QED BY <1>1, <1>2, <1>3 DEF CInv

(* A thread moves on without storing.                                      *)
LEMMA Moves ==
  ASSUME CInv, NEW t \in Threads, NEW label,
         UNCHANGED <<table, init>>, Goes(t, label),
         \/ UNCHANGED left
         \/ left' = [left EXCEPT ![t] = Byte],
         label = "first" => left'[t] = Byte,
         label = "rest" => left'[t] = Byte /\ table[0] = T0,
         label \in {"ready", "sum"} => init
  PROVE  CInv'
<1>1. Shaped' /\ Complete'
  BY DEF CInv, Shaped, IsShaped, Complete, Tables, T0
<1>2. ThreadsOK'
  BY DEF CInv, ThreadsOK, Goes
<1>3. PassesComplete'
  BY DEF CInv, ThreadsOK, PassesComplete, Goes
<1>4. ASSUME NEW u \in Threads PROVE FirstDone(u)' /\ RestDone(u)'
  <2>1. CASE u = t
    BY <2>1 DEF CInv, ThreadsOK, FirstDone, RestDone, Goes
  <2>2. CASE u # t
    <3>1. FirstDone(u) /\ RestDone(u) /\ pc'[u] = pc[u] /\ left'[u] = left[u]
      BY <2>2 DEF CInv, ThreadsOK, Goes
    <3>2. FirstDone(u)'
      BY <3>1 DEF FirstDone
    <3> QED BY <3>1, <3>2 DEF RestDone
  <2> QED BY <2>1, <2>2
<1> QED BY <1>1, <1>2, <1>3, <1>4 DEF CInv

LEMMA FirstKeeps ==
  ASSUME CInv, NEW t \in Threads, First(t)
  PROVE  CInv' /\ (init => UNCHANGED table)
<1>1. PICK n \in left[t] : /\ pc[t] = "first"
                           /\ table' = [table EXCEPT ![0][n] = DivideByte(n)]
                           /\ left' = [left EXCEPT ![t] = @ \ {n}]
                           /\ UNCHANGED <<init, pc, sum, res>>
  BY DEF First
<1>2. n \in Byte
  BY <1>1 DEF CInv, ThreadsOK
<1>3. /\ table'[0] = [table[0] EXCEPT ![n] = DivideByte(n)]
      /\ \A k \in 1..(N - 1) : table'[k] = table[k]
      /\ Shaped'
  <2>1. /\ table = [k \in 0..(N - 1) |-> table[k]]
        /\ \A k \in 0..(N - 1) : table[k] = [m \in Byte |-> table[k][m]]
    BY DEF CInv, Shaped, IsShaped
  <2>2. table' = [k \in 0..(N - 1) |-> table'[k]]
    BY <1>1, <2>1
  <2>3. table'[0] = [table[0] EXCEPT ![n] = DivideByte(n)]
    BY <1>1, <2>1, NPositive
  <2>4. \A k \in 1..(N - 1) : table'[k] = table[k]
    BY <1>1, <2>1, NPositive
  <2>5. table'[0] = [m \in Byte |-> table'[0][m]]
    BY <2>1, <2>3, NPositive
  <2>6. ASSUME NEW k \in 0..(N - 1) PROVE table'[k] = [m \in Byte |-> table'[k][m]]
    <3>1. CASE k = 0
      BY <3>1, <2>5
    <3>2. CASE k # 0
      <4>1. k \in 1..(N - 1)
        BY <3>2, NPositive
      <4> QED BY <4>1, <2>4, <2>1
    <3> QED BY <3>1, <3>2
  <2> QED BY <2>2, <2>3, <2>4, <2>6 DEF Shaped, IsShaped
<1>4. \A m \in Byte : table'[0][m] = IF m = n THEN DivideByte(n) ELSE table[0][m]
  BY <1>3, NPositive DEF CInv, Shaped, IsShaped
<1>5. table[0] = T0 => table'[0] = T0
  <2>1. ASSUME table[0] = T0 PROVE \A m \in Byte : table'[0][m] = DivideByte(m)
    BY <1>4, <2>1 DEF T0
  <2>2. table'[0] = [m \in Byte |-> table'[0][m]]
    BY <1>3, NPositive DEF Shaped, IsShaped
  <2> QED BY <2>1, <2>2 DEF T0
<1>6. ThreadsOK'
  BY <1>1 DEF CInv, ThreadsOK
<1>7. PassesComplete'
  BY <1>1 DEF CInv, PassesComplete
<1>8. init => table' = Tables /\ UNCHANGED table
  <2> SUFFICES ASSUME init PROVE table' = Tables
    BY DEF CInv, Complete
  <2>1. table = Tables
    BY DEF CInv, Complete
  <2>2. table[0] = T0 /\ \A k \in 1..(N - 1) : \A m \in Byte : table[k][m] = Column(T0, m)[k]
    BY <2>1, CompleteIsRight
  <2>3. table'[0] = T0 /\ \A k \in 1..(N - 1) : \A m \in Byte : table'[k][m] = Column(T0, m)[k]
    BY <2>2, <1>3, <1>5
  <2>4. table[0] = table'[0] /\ \A k \in 1..(N - 1) : table'[k] = table[k]
    BY <2>2, <2>3, <1>3
  <2>5. \A k \in 0..(N - 1) : table'[k] = table[k]
    BY <2>4, NPositive
  <2> QED BY <2>5, <2>1, <1>3 DEF CInv, Shaped, IsShaped
<1>9. ASSUME NEW u \in Threads PROVE FirstDone(u)' /\ RestDone(u)'
  <2>1. FirstDone(u)'
    BY <1>1, <1>4 DEF CInv, ThreadsOK, FirstDone
  <2>2. RestDone(u)'
    BY <1>1, <1>3, <1>5 DEF CInv, ThreadsOK, RestDone
  <2> QED BY <2>1, <2>2
<1> QED BY <1>1, <1>3, <1>6, <1>7, <1>8, <1>9 DEF CInv, Complete, Tables, T0

LEMMA RestKeeps ==
  ASSUME CInv, NEW t \in Threads, Rest(t)
  PROVE  CInv' /\ (init => UNCHANGED table)
<1>1. PICK n \in left[t] :
        /\ pc[t] = "rest"
        /\ table' = [k \in 0..(N - 1) |->
             IF k = 0 THEN table[0] ELSE [table[k] EXCEPT ![n] = Column(table[0], n)[k]]]
        /\ left' = [left EXCEPT ![t] = @ \ {n}]
        /\ UNCHANGED <<init, pc, sum, res>>
  BY DEF Rest
<1>2. n \in Byte /\ table[0] = T0
  BY <1>1 DEF CInv, ThreadsOK, RestDone
<1>3. /\ table'[0] = table[0]
      /\ \A k \in 1..(N - 1) : \A m \in Byte :
           table'[k][m] = IF m = n THEN Column(T0, n)[k] ELSE table[k][m]
      /\ Shaped'
  <2>1. \A k \in 0..(N - 1) : table[k] = [m \in Byte |-> table[k][m]]
    BY DEF CInv, Shaped, IsShaped
  <2>2. table'[0] = table[0]
    BY <1>1, NPositive
  <2>3. \A k \in 1..(N - 1) : table'[k] = [table[k] EXCEPT ![n] = Column(T0, n)[k]]
    BY <1>1, <1>2, NPositive
  <2>4. \A k \in 1..(N - 1) : \A m \in Byte :
           table'[k][m] = IF m = n THEN Column(T0, n)[k] ELSE table[k][m]
    <3> SUFFICES ASSUME NEW k \in 1..(N - 1)
                 PROVE  \A m \in Byte :
                          table'[k][m] = IF m = n THEN Column(T0, n)[k] ELSE table[k][m]
      OBVIOUS
    <3>1. table[k] = [m \in Byte |-> table[k][m]]
      BY <2>1, NPositive
    <3>2. table'[k] = [table[k] EXCEPT ![n] = Column(T0, n)[k]]
      BY <2>3
    <3> QED BY <3>1, <3>2, <1>2
  <2>5. ASSUME NEW k \in 0..(N - 1) PROVE table'[k] = [m \in Byte |-> table'[k][m]]
    <3>1. CASE k = 0
      BY <3>1, <2>1, <2>2, NPositive
    <3>2. CASE k # 0
      <4>1. k \in 1..(N - 1)
        BY <3>2, NPositive
      <4>2. table[k] = [m \in Byte |-> table[k][m]]
        BY <2>1
      <4> QED BY <4>1, <4>2, <2>3
    <3> QED BY <3>1, <3>2
  <2>6. table' = [k \in 0..(N - 1) |-> table'[k]]
    BY <1>1
  <2> QED BY <2>2, <2>4, <2>5, <2>6 DEF Shaped, IsShaped
<1>4. ThreadsOK' /\ PassesComplete'
  BY <1>1 DEF CInv, ThreadsOK, PassesComplete
<1>5. init => table' = Tables /\ UNCHANGED table
  <2> SUFFICES ASSUME init PROVE table' = Tables
    BY DEF CInv, Complete
  <2>1. table = Tables
    BY DEF CInv, Complete
  <2>2. \A k \in 1..(N - 1) : \A m \in Byte : table'[k][m] = Column(T0, m)[k]
    BY <1>3, <2>1, CompleteIsRight
  <2> QED BY <2>2, <1>2, <1>3, RightIsComplete DEF Shaped
<1>6. ASSUME NEW u \in Threads PROVE FirstDone(u)' /\ RestDone(u)'
  <2>1. FirstDone(u)'
    BY <1>1, <1>2, <1>3 DEF CInv, ThreadsOK, FirstDone, T0
  <2>2. RestDone(u)'
    <3> SUFFICES ASSUME pc[u] = "rest", NEW k \in 1..(N - 1), NEW m \in Byte \ left'[u]
                 PROVE  table'[k][m] = Column(T0, m)[k]
      BY <1>1, <1>2, <1>3 DEF RestDone, T0
    <3>1. CASE m = n
      BY <3>1, <1>3
    <3>2. CASE m # n
      <4>1. m \in Byte \ left[u]
        BY <3>2, <1>1 DEF CInv, ThreadsOK
      <4>2. table[k][m] = Column(T0, m)[k]
        BY <4>1 DEF CInv, RestDone
      <4> QED BY <4>1, <4>2, <3>2, <1>3
    <3> QED BY <3>1, <3>2
  <2> QED BY <2>1, <2>2
<1> QED BY <1>1, <1>3, <1>4, <1>5, <1>6 DEF CInv, Complete, Tables, T0

(* The end of the second loop.                                             *)
LEMMA BuiltKeeps ==
  ASSUME CInv, NEW t \in Threads, Built(t)
  PROVE  CInv' /\ UNCHANGED table
<1>1. table = Tables
  <2>1. table[0] = T0 /\ \A k \in 1..(N - 1) : \A n \in Byte : table[k][n] = Column(T0, n)[k]
    BY DEF CInv, Built, RestDone
  <2> QED BY <2>1, RightIsComplete DEF CInv, Shaped
<1>2. Shaped' /\ Complete'
  BY <1>1 DEF CInv, Built, Shaped, IsShaped, Complete, Tables, T0
<1>3. ThreadsOK' /\ PassesComplete'
  BY DEF CInv, Built, Goes, ThreadsOK, PassesComplete
<1>4. ASSUME NEW u \in Threads PROVE FirstDone(u)' /\ RestDone(u)'
  BY DEF CInv, Built, Goes, ThreadsOK, FirstDone, RestDone
<1> QED BY <1>2, <1>3, <1>4 DEF CInv, Built

LEMMA FirstEndsKeeps ==
  ASSUME CInv, NEW t \in Threads, FirstEnds(t)
  PROVE  CInv' /\ UNCHANGED table
<1>1. table[0] = T0
  <2>1. \A n \in Byte : table[0][n] = DivideByte(n)
    BY DEF CInv, FirstEnds, FirstDone
  <2>2. table[0] = [n \in Byte |-> table[0][n]]
    BY NPositive DEF CInv, Shaped, IsShaped
  <2> QED BY <2>1, <2>2 DEF T0
<1>2. left'[t] = Byte
  BY DEF CInv, ThreadsOK, FirstEnds
<1> QED BY <1>1, <1>2, Moves DEF FirstEnds

LEMMA OthersKeep ==
  ASSUME CInv, NEW t \in Threads,
         Call(t) \/ Begin(t) \/ ByteStep(t) \/ ChunkStep(t) \/ Return(t)
  PROVE  CInv' /\ UNCHANGED table
<1>1. CASE Call(t)
  <2>1. CASE init
    BY <1>1, <2>1, Moves DEF Call
  <2>2. CASE ~init
    <3>1. left'[t] = Byte
      BY <1>1, <2>2 DEF Call, CInv, ThreadsOK
    <3> QED BY <1>1, <2>2, <3>1, Moves DEF Call
  <2> QED BY <2>1, <2>2
<1>2. CASE Begin(t)
  BY <1>2, Moves DEF Begin, CInv, PassesComplete
<1>3. CASE ByteStep(t) \/ ChunkStep(t)
  BY <1>3, StutterKeeps DEF ByteStep, ChunkStep
<1>4. CASE Return(t)
  BY <1>4, Moves DEF Return
<1> QED BY <1>1, <1>2, <1>3, <1>4

LEMMA CInitOK == CInit => CInv
<1> SUFFICES ASSUME CInit PROVE CInv
  OBVIOUS
<1>1. Shaped
  BY DEF CInit, Shaped, IsShaped
<1> QED BY <1>1 DEF CInit, CInv, ThreadsOK, Complete, PassesComplete, FirstDone, RestDone

LEMMA CStep ==
  ASSUME CInv, [CNext]_cvars
  PROVE  CInv' /\ (init => UNCHANGED table)
<1>1. CASE UNCHANGED cvars
  BY <1>1, StutterKeeps DEF cvars
<1>2. ASSUME NEW t \in Threads,
             \/ Call(t) \/ First(t) \/ FirstEnds(t) \/ Rest(t) \/ Built(t)
             \/ Begin(t) \/ ByteStep(t) \/ ChunkStep(t) \/ Return(t)
      PROVE  CInv' /\ (init => UNCHANGED table)
  BY <1>2, FirstKeeps, RestKeeps, BuiltKeeps, FirstEndsKeeps, OthersKeep
<1> QED BY <1>1, <1>2 DEF CNext

-----------------------------------------------------------------------------
(* The tables never change once crc32c_init is set, for any number of      *)
(* threads that find it unset and build them at the same time.             *)
THEOREM TablesNeverChange == CSpec => TablesStay
<1>1. CInit => CInv
  BY CInitOK
<1>2. CInv /\ [CNext]_cvars => CInv' /\ [init => UNCHANGED table]_cvars
  BY CStep DEF cvars
<1> QED BY <1>1, <1>2, PTL DEF CSpec, TablesStay

(* A thread that computes a checksum does so with complete tables.         *)
THEOREM TablesComplete ==
  CSpec => [](\A t \in Threads : pc[t] \in {"ready", "sum"} => table = Tables)
<1>1. CInit => CInv
  BY CInitOK
<1>2. CInv /\ [CNext]_cvars => CInv'
  BY CStep
<1>3. CInv => \A t \in Threads : pc[t] \in {"ready", "sum"} => table = Tables
  BY DEF CInv, Complete, PassesComplete
<1> QED BY <1>1, <1>2, <1>3, PTL DEF CSpec

-----------------------------------------------------------------------------
(* Words of W * N bits, and what the operators of the checksum do to them. *)

Top == W * N
Wide == SUBSET (0..(Top - 1))

LEMMA TopFacts ==
  /\ W \in Nat /\ W >= 1 /\ N \in Nat /\ N >= 1
  /\ Top \in Nat /\ Top >= W
  /\ \A j \in 0..N : j * W \in Nat /\ j * W <= Top
  /\ \A j \in 0..(N - 1) : (j + 1) * W = j * W + W
  /\ POLY \in Wide /\ Ones \in Wide /\ Byte \subseteq Wide
<1>1. W \in Nat /\ W >= 1 /\ N \in Nat /\ N >= 1 /\ L \in Nat /\ L <= N
  BY WidthAssumption
<1>2. Top = N * W /\ Top \in Nat
  BY <1>1, SMT DEF Top
<1>3. \A j \in 0..N : j * W \in Nat /\ j * W <= Top
  BY <1>1, <1>2, ProductsGrow
<1>4. \A j \in 0..(N - 1) : (j + 1) * W = j * W + W
  BY <1>1, SMT
<1>5. Top >= W
  <2>1. 1 * W = W /\ 1 \in 0..N
    BY <1>1
  <2>2. 1 * W <= Top
    BY <2>1, <1>3
  <2> QED BY <2>1, <2>2
<1>6. W * L = L * W /\ L * W <= Top /\ L * W \in Nat
  <2>1. L \in 0..N
    BY <1>1
  <2>2. L * W \in Nat /\ L * W <= Top
    BY <2>1, <1>3
  <2>3. W * L = L * W
    BY <1>1
  <2> QED BY <2>2, <2>3
<1>7. POLY \in Wide /\ Ones \in Wide
  BY <1>6, <1>2, PolyAssumption DEF Wide, Ones
<1>8. Byte \subseteq Wide
  BY <1>1, <1>2, <1>5 DEF Byte, Wide
<1> QED BY <1>1, <1>2, <1>3, <1>4, <1>5, <1>7, <1>8

LEMMA InShiftR ==
  ASSUME NEW w, NEW k, NEW i
  PROVE  i \in ShiftR(w, k) <=> i \in 0..Top /\ i + k \in w
BY DEF ShiftR, Top

LEMMA ShiftIsWide ==
  ASSUME NEW w \in Wide, NEW k \in Nat
  PROVE  ShiftR(w, k) \in Wide
BY TopFacts, InShiftR DEF Wide

LEMMA XorIsWide ==
  ASSUME NEW a \in Wide, NEW b \in Wide
  PROVE  Xor(a, b) \in Wide
BY DEF Xor, Wide

LEMMA ShiftOfShift ==
  ASSUME NEW w \in Wide, NEW a \in Nat, NEW b \in Nat
  PROVE  ShiftR(ShiftR(w, a), b) = ShiftR(w, a + b)
<1>1. ASSUME NEW i PROVE i \in ShiftR(ShiftR(w, a), b) <=> i \in ShiftR(w, a + b)
  <2>1. i \in ShiftR(ShiftR(w, a), b) <=> i \in 0..Top /\ i + b \in 0..Top /\ (i + b) + a \in w
    BY InShiftR
  <2>2. i \in ShiftR(w, a + b) <=> i \in 0..Top /\ i + (a + b) \in w
    BY InShiftR
  <2> QED BY <2>1, <2>2, TopFacts DEF Wide
<1> QED BY <1>1

LEMMA ShiftOfXor ==
  ASSUME NEW a, NEW b, NEW k
  PROVE  ShiftR(Xor(a, b), k) = Xor(ShiftR(a, k), ShiftR(b, k))
BY DEF Xor, ShiftR

LEMMA NoShift ==
  ASSUME NEW w \in Wide
  PROVE  ShiftR(w, 0) = w
<1>1. \A i \in w : i \in 0..Top /\ i + 0 = i
  BY TopFacts DEF Wide
<1>2. \A i \in 0..Top : i + 0 = i
  OBVIOUS
<1>3. \A i : i \in ShiftR(w, 0) <=> i \in 0..Top /\ i + 0 \in w
  BY InShiftR
<1> QED BY <1>1, <1>2, <1>3

(* Xor is associative, commutative and its own inverse.                    *)
LEMMA XorLaws ==
  /\ \A a, b : Xor(a, b) = Xor(b, a)
  /\ \A a, b, c : Xor(Xor(a, b), c) = Xor(a, Xor(b, c))
  /\ \A a : Xor(a, {}) = a /\ Xor({}, a) = a /\ Xor(a, a) = {}
  /\ \A a, b, c, d : Xor(Xor(a, b), Xor(c, d)) = Xor(Xor(a, c), Xor(b, d))
BY DEF Xor
-----------------------------------------------------------------------------
(* Dividing is linear, and moves a word whose low byte is empty.           *)

LEMMA DivideIsWide ==
  ASSUME NEW w \in Wide
  PROVE  Divide(w) \in Wide
BY ShiftIsWide, XorIsWide, TopFacts DEF Divide

LEMMA DivideOfXor ==
  ASSUME NEW a \in Wide, NEW b \in Wide
  PROVE  Divide(Xor(a, b)) = Xor(Divide(a), Divide(b))
<1> DEFINE sa == ShiftR(a, 1)
           sb == ShiftR(b, 1)
<1>1. ShiftR(Xor(a, b), 1) = Xor(sa, sb)
  BY ShiftOfXor
<1>2. 0 \in Xor(a, b) <=> ~(0 \in a <=> 0 \in b)
  BY DEF Xor
<1>3. /\ Xor(Xor(sa, POLY), Xor(sb, POLY)) = Xor(sa, sb)
      /\ Xor(Xor(sa, POLY), sb) = Xor(Xor(sa, sb), POLY)
      /\ Xor(sa, Xor(sb, POLY)) = Xor(Xor(sa, sb), POLY)
  BY DEF Xor
<1> HIDE DEF sa, sb
<1> QED BY <1>1, <1>2, <1>3 DEF Divide, sa, sb

(* The steps of DivideByte, one bit each.                                  *)
LEMMA BitByBit ==
  ASSUME NEW w \in Wide
  PROVE  \E d \in [0..W -> Wide] : /\ d[0] = w
                                   /\ \A k \in 1..W : d[k] = Divide(d[k - 1])
                                   /\ DivideByte(w) = d[W]
<1> DEFINE d[k \in 0..W] == IF k = 0 THEN w ELSE Divide(d[k - 1])
           step == [k \in 1..W |-> [v \in Wide |-> Divide(v)]]
<1>1. step \in [1..W -> [Wide -> Wide]]
  BY DivideIsWide
<1>2. PICK g \in [0..W -> Wide] : g[0] = w /\ \A i \in 1..W : g[i] = step[i][g[i - 1]]
  <2> HIDE DEF step, d
  <2>1. w \in Wide /\ W \in Nat
    BY TopFacts
  <2> QED BY <1>1, <2>1, RecursionExists
<1>3. \A i \in 1..W : g[i] = Divide(g[i - 1])
  <2>1. \A i \in 1..W : i - 1 \in 0..W
    BY TopFacts
  <2> HIDE DEF d
  <2> QED BY <1>2, <2>1
<1>4. g = [k \in 0..W |-> IF k = 0 THEN w ELSE Divide(g[k - 1])]
  BY <1>2, <1>3
<1>5. d = [k \in 0..W |-> IF k = 0 THEN w ELSE Divide(d[k - 1])]
  BY <1>4
<1>6. DivideByte(w) = d[W]
  BY DEF DivideByte
<1> HIDE DEF d
<1>7. d[0] = w /\ \A k \in 1..W : d[k] = Divide(d[k - 1])
  BY <1>5, TopFacts
<1>8. \A k \in 0..W : d[k] \in Wide
  <2> DEFINE S == {k \in 0..W : d[k] \in Wide}
  <2>1. 0 \in S
    BY <1>7, TopFacts
  <2>2. \A k \in 0..(W - 1) : k \in S => k + 1 \in S
    BY <1>7, DivideIsWide, TopFacts
  <2> HIDE DEF S
  <2>3. \A k \in 0..W : k \in S
    BY <2>1, <2>2, TopFacts, IntervalInduction
  <2> QED BY <2>3 DEF S
<1>9. d \in [0..W -> Wide]
  BY <1>5, <1>8
<1> QED BY <1>6, <1>7, <1>9

LEMMA DivideByteIsWide ==
  ASSUME NEW w \in Wide
  PROVE  DivideByte(w) \in Wide
<1>1. PICK d \in [0..W -> Wide] : DivideByte(w) = d[W]
  BY BitByBit, Zenon
<1>2. W \in 0..W
  BY TopFacts
<1> QED BY <1>1, <1>2

LEMMA DivideByteOfXor ==
  ASSUME NEW a \in Wide, NEW b \in Wide
  PROVE  DivideByte(Xor(a, b)) = Xor(DivideByte(a), DivideByte(b))
<1>1. PICK d \in [0..W -> Wide] : /\ d[0] = a /\ DivideByte(a) = d[W]
                                  /\ \A k \in 1..W : d[k] = Divide(d[k - 1])
  BY BitByBit
<1>2. PICK e \in [0..W -> Wide] : /\ e[0] = b /\ DivideByte(b) = e[W]
                                  /\ \A k \in 1..W : e[k] = Divide(e[k - 1])
  BY BitByBit
<1>3. PICK x \in [0..W -> Wide] : /\ x[0] = Xor(a, b) /\ DivideByte(Xor(a, b)) = x[W]
                                  /\ \A k \in 1..W : x[k] = Divide(x[k - 1])
  BY BitByBit, XorIsWide
<1> DEFINE S == {k \in 0..W : x[k] = Xor(d[k], e[k])}
<1>4. 0 \in S
  BY <1>1, <1>2, <1>3, TopFacts
<1>5. ASSUME NEW k \in 0..(W - 1), k \in S PROVE k + 1 \in S
  <2>1. k + 1 \in 1..W /\ (k + 1) - 1 = k /\ k \in 0..W
    BY TopFacts
  <2>2. d[k + 1] = Divide(d[k]) /\ e[k + 1] = Divide(e[k]) /\ x[k + 1] = Divide(x[k])
    BY <2>1, <1>1, <1>2, <1>3
  <2>3. Divide(Xor(d[k], e[k])) = Xor(Divide(d[k]), Divide(e[k]))
    BY <2>1, DivideOfXor
  <2> QED BY <2>1, <2>2, <2>3, <1>5
<1> HIDE DEF S
<1>6. \A k \in 0..W : k \in S
  BY <1>4, <1>5, TopFacts, IntervalInduction
<1> QED BY <1>6, <1>1, <1>2, <1>3, TopFacts DEF S

LEMMA DivideByteMoves ==
  ASSUME NEW w \in Wide, LowByte(w) = {}
  PROVE  DivideByte(w) = ShiftR(w, W)
<1>1. PICK d \in [0..W -> Wide] : /\ d[0] = w /\ DivideByte(w) = d[W]
                                  /\ \A k \in 1..W : d[k] = Divide(d[k - 1])
  BY BitByBit
<1> DEFINE S == {k \in 0..W : d[k] = ShiftR(w, k)}
<1>2. 0 \in S
  BY <1>1, NoShift, TopFacts
<1>3. ASSUME NEW k \in 0..(W - 1), k \in S PROVE k + 1 \in S
  <2>1. k + 1 \in 1..W /\ (k + 1) - 1 = k /\ k \in 0..(W - 1)
    BY TopFacts
  <2>2. 0 \notin ShiftR(w, k)
    BY <2>1, InShiftR, TopFacts DEF LowByte
  <2>3. ShiftR(ShiftR(w, k), 1) = ShiftR(w, k + 1)
    BY ShiftOfShift, <2>1
  <2> QED BY <2>1, <2>2, <2>3, <1>1, <1>3 DEF Divide
<1> HIDE DEF S
<1>4. \A k \in 0..W : k \in S
  BY <1>2, <1>3, TopFacts, IntervalInduction
<1> QED BY <1>4, <1>1, TopFacts DEF S

(* The first table does the work of DivideByte.                            *)
LEMMA EntryIsDivideByte ==
  ASSUME NEW w \in Wide
  PROVE  Entry(T0, w) = DivideByte(w)
<1> DEFINE high == w \ LowByte(w)
<1>1. /\ LowByte(w) \in Byte /\ LowByte(w) \in Wide /\ high \in Wide
      /\ LowByte(high) = {} /\ w = Xor(LowByte(w), high)
  BY TopFacts DEF LowByte, Byte, Wide, Xor
<1>2. DivideByte(w) = Xor(DivideByte(LowByte(w)), DivideByte(high))
  BY <1>1, DivideByteOfXor
<1>3. DivideByte(high) = ShiftR(high, W)
  BY <1>1, DivideByteMoves
<1>4. ShiftR(high, W) = ShiftR(w, W)
  <2>1. \A i \in 0..Top : i + W \in high <=> i + W \in w
    BY TopFacts DEF LowByte
  <2>2. \A i : i \in ShiftR(high, W) <=> i \in ShiftR(w, W)
    BY <2>1, InShiftR, Zenon
  <2>3. ShiftR(high, W) \subseteq 0..Top /\ ShiftR(w, W) \subseteq 0..Top
    BY InShiftR, Zenon
  <2> QED BY <2>2, <2>3, Zenon
<1> QED BY <1>1, <1>2, <1>3, <1>4 DEF Entry, T0
-----------------------------------------------------------------------------
(* Several bytes at once.                                                  *)

DivideBytes(w) == LET p[k \in 0..N] == IF k = 0 THEN w ELSE DivideByte(p[k - 1]) IN p

LEMMA ByteByByte ==
  ASSUME NEW w \in Wide
  PROVE  /\ DivideBytes(w) \in [0..N -> Wide]
         /\ DivideBytes(w)[0] = w
         /\ \A k \in 1..N : DivideBytes(w)[k] = DivideByte(DivideBytes(w)[k - 1])
<1> DEFINE p[k \in 0..N] == IF k = 0 THEN w ELSE DivideByte(p[k - 1])
           step == [k \in 1..N |-> [v \in Wide |-> DivideByte(v)]]
<1>1. step \in [1..N -> [Wide -> Wide]]
  BY DivideByteIsWide
<1>2. PICK g \in [0..N -> Wide] : g[0] = w /\ \A i \in 1..N : g[i] = step[i][g[i - 1]]
  <2> HIDE DEF step, p
  <2>1. w \in Wide /\ N \in Nat
    BY TopFacts
  <2> QED BY <1>1, <2>1, RecursionExists
<1>3. \A i \in 1..N : g[i] = DivideByte(g[i - 1])
  <2>1. \A i \in 1..N : i - 1 \in 0..N
    BY TopFacts
  <2> HIDE DEF p
  <2> QED BY <1>2, <2>1
<1>4. g = [k \in 0..N |-> IF k = 0 THEN w ELSE DivideByte(g[k - 1])]
  BY <1>2, <1>3
<1>5. p = [k \in 0..N |-> IF k = 0 THEN w ELSE DivideByte(p[k - 1])]
  BY <1>4
<1>6. DivideBytes(w) = p
  BY DEF DivideBytes
<1> HIDE DEF p
<1>7. p[0] = w /\ \A k \in 1..N : p[k] = DivideByte(p[k - 1])
  BY <1>5, TopFacts
<1>8. \A k \in 0..N : p[k] \in Wide
  <2> DEFINE S == {k \in 0..N : p[k] \in Wide}
  <2>1. 0 \in S
    BY <1>7, TopFacts
  <2>2. \A k \in 0..(N - 1) : k \in S => k + 1 \in S
    BY <1>7, DivideByteIsWide, TopFacts
  <2> HIDE DEF S
  <2>3. \A k \in 0..N : k \in S
    BY <2>1, <2>2, TopFacts, IntervalInduction
  <2> QED BY <2>3 DEF S
<1>9. p \in [0..N -> Wide]
  BY <1>5, <1>8
<1> QED BY <1>6, <1>7, <1>9

LEMMA DivideBytesOfXor ==
  ASSUME NEW a \in Wide, NEW b \in Wide
  PROVE  \A k \in 0..N : DivideBytes(Xor(a, b))[k] = Xor(DivideBytes(a)[k], DivideBytes(b)[k])
<1> DEFINE S == {k \in 0..N : DivideBytes(Xor(a, b))[k] = Xor(DivideBytes(a)[k], DivideBytes(b)[k])}
<1>1. 0 \in S
  <2>1. DivideBytes(a)[0] = a /\ DivideBytes(b)[0] = b /\ DivideBytes(Xor(a, b))[0] = Xor(a, b)
    BY ByteByByte, XorIsWide
  <2> QED BY <2>1, TopFacts
<1>2. ASSUME NEW k \in 0..(N - 1), k \in S PROVE k + 1 \in S
  <2>1. k + 1 \in 1..N /\ (k + 1) - 1 = k /\ k \in 0..N
    BY TopFacts
  <2>0. ASSUME NEW w \in Wide
        PROVE  DivideBytes(w)[k + 1] = DivideByte(DivideBytes(w)[k]) /\ DivideBytes(w)[k] \in Wide
    <3>1. DivideBytes(w)[k + 1] = DivideByte(DivideBytes(w)[(k + 1) - 1])
      BY <2>1, ByteByByte, Zenon
    <3>2. DivideBytes(w)[k] \in Wide
      BY <2>1, ByteByByte, Zenon
    <3> QED BY <2>1, <3>1, <3>2
  <2>2. DivideBytes(a)[k + 1] = DivideByte(DivideBytes(a)[k]) /\ DivideBytes(a)[k] \in Wide
    BY <2>0, Zenon
  <2>3. DivideBytes(b)[k + 1] = DivideByte(DivideBytes(b)[k]) /\ DivideBytes(b)[k] \in Wide
    BY <2>0, Zenon
  <2>4. DivideBytes(Xor(a, b))[k + 1] = DivideByte(DivideBytes(Xor(a, b))[k])
    BY <2>0, XorIsWide, Zenon
  <2> QED BY <2>1, <2>2, <2>3, <2>4, <1>2, DivideByteOfXor
<1> HIDE DEF S
<1>3. \A k \in 0..N : k \in S
  BY <1>1, <1>2, TopFacts, IntervalInduction
<1> QED BY <1>3 DEF S

(* As many empty bytes are moved out at once.                              *)
LEMMA DivideBytesMoves ==
  ASSUME NEW w \in Wide, NEW j \in 0..N, \A i \in w : i >= j * W
  PROVE  DivideBytes(w)[j] = ShiftR(w, j * W)
<1> DEFINE S == {k \in 0..j : DivideBytes(w)[k] = ShiftR(w, k * W)}
<1>1. 0 \in S
  <2>1. 0 * W = 0
    BY TopFacts
  <2> QED BY <2>1, ByteByByte, NoShift
<1>2. ASSUME NEW k \in 0..(j - 1), k \in S PROVE k + 1 \in S
  <2>1. /\ k + 1 \in 1..N /\ (k + 1) - 1 = k /\ k \in 0..(N - 1) /\ k \in 0..N /\ k + 1 \in 0..j
        /\ k + 1 \in Nat /\ j \in Nat /\ k + 1 <= j
    BY TopFacts
  <2>2. DivideBytes(w)[k + 1] = DivideByte(DivideBytes(w)[k])
    BY <2>1, ByteByByte
  <2>3. k * W \in Nat /\ (k + 1) * W = k * W + W
    BY <2>1, TopFacts
  <2>4. (k + 1) * W <= j * W /\ j * W \in Nat
    BY <2>1, ProductsGrow, TopFacts
  <2> DEFINE v == ShiftR(w, k * W)
  <2>5. v \in Wide
    BY <2>3, ShiftIsWide
  <2>6. LowByte(v) = {}
    <3> SUFFICES ASSUME NEW i \in 0..(W - 1), i \in v PROVE FALSE
      BY DEF LowByte
    <3>1. i + k * W \in w
      BY InShiftR
    <3>2. i + k * W >= j * W
      BY <3>1
    <3> QED BY <3>2, <2>3, <2>4, TopFacts
  <2>7. DivideByte(v) = ShiftR(v, W)
    BY <2>5, <2>6, DivideByteMoves
  <2>8. ShiftR(v, W) = ShiftR(w, (k + 1) * W)
    BY <2>3, ShiftOfShift, TopFacts
  <2> QED BY <2>1, <2>2, <2>7, <2>8, <1>2
<1> HIDE DEF S
<1>3. \A k \in 0..j : k \in S
  BY <1>1, <1>2, TopFacts, IntervalInduction
<1> QED BY <1>3, TopFacts DEF S

LEMMA DivideBytesAdds ==
  ASSUME NEW w \in Wide, NEW j \in 0..N, NEW m \in 0..(N - j)
  PROVE  DivideBytes(w)[j + m] = DivideBytes(DivideBytes(w)[j])[m]
<1> DEFINE v == DivideBytes(w)[j]
           S == {k \in 0..m : DivideBytes(w)[j + k] = DivideBytes(v)[k]}
<1>1. v \in Wide
  BY ByteByByte
<1>2. 0 \in S
  <2>1. DivideBytes(v)[0] = v
    <3> HIDE DEF v
    <3> QED BY <1>1, ByteByByte
  <2>2. j + 0 = j /\ 0 \in 0..m
    BY TopFacts
  <2> QED BY <2>1, <2>2
<1>3. ASSUME NEW k \in 0..(m - 1), k \in S PROVE k + 1 \in S
  <2>1. /\ j + (k + 1) \in 1..N /\ (j + (k + 1)) - 1 = j + k
        /\ k + 1 \in 1..N /\ (k + 1) - 1 = k /\ k + 1 \in 0..m
    BY TopFacts
  <2>2. DivideBytes(w)[j + (k + 1)] = DivideByte(DivideBytes(w)[j + k])
    BY <2>1, ByteByByte
  <2>3. DivideBytes(v)[k + 1] = DivideByte(DivideBytes(v)[k])
    BY <2>1, <1>1, ByteByByte
  <2> QED BY <2>1, <2>2, <2>3, <1>3
<1> HIDE DEF S
<1>4. \A k \in 0..m : k \in S
  BY <1>2, <1>3, TopFacts, IntervalInduction
<1> QED BY <1>4, TopFacts DEF S

(* The entries of the tables: n followed by so many empty bytes, divided.  *)
LEMMA ColumnIsDivideBytes ==
  ASSUME NEW n \in Byte, NEW k \in 0..(N - 1)
  PROVE  Column(T0, n)[k] = DivideBytes(n)[k + 1]
<1> DEFINE c[i \in 0..(N - 1)] == IF i = 0 THEN T0[n] ELSE Entry(T0, c[i - 1])
           g == [i \in 0..(N - 1) |-> DivideBytes(n)[i + 1]]
<1>1. n \in Wide
  BY TopFacts
<1>2. /\ g[0] = T0[n]
      /\ \A i \in 1..(N - 1) : g[i] = Entry(T0, g[i - 1])
  <2>1. \A i \in 0..(N - 1) : i + 1 \in 1..N /\ (i + 1) - 1 = i
    BY TopFacts
  <2>2. ASSUME NEW i \in 0..(N - 1)
        PROVE  g[i] = DivideByte(DivideBytes(n)[i]) /\ DivideBytes(n)[i] \in Wide
    <3>1. DivideBytes(n)[i + 1] = DivideByte(DivideBytes(n)[i]) /\ DivideBytes(n)[i] \in Wide
      <4>1. i + 1 \in 1..N /\ (i + 1) - 1 = i /\ i \in 0..N
        BY TopFacts
      <4>2. DivideBytes(n)[i + 1] = DivideByte(DivideBytes(n)[(i + 1) - 1])
        BY <1>1, <4>1, ByteByByte, Zenon
      <4>3. DivideBytes(n)[i] \in Wide
        BY <1>1, <4>1, ByteByByte, Zenon
      <4> QED BY <4>1, <4>2, <4>3
    <3> QED BY <3>1
  <2>3. g[0] = T0[n]
    <3>1. DivideBytes(n)[0] = n /\ 0 \in 0..(N - 1)
      BY <1>1, ByteByByte, TopFacts
    <3>2. g[0] = DivideByte(n)
      <4> HIDE DEF g, c
      <4> QED BY <3>1, <2>2
    <3> QED BY <3>2 DEF T0
  <2>4. ASSUME NEW i \in 1..(N - 1) PROVE g[i] = Entry(T0, g[i - 1])
    <3>1. i - 1 \in 0..(N - 1) /\ i \in 0..(N - 1) /\ (i - 1) + 1 = i
      BY TopFacts
    <3>2. g[i - 1] = DivideBytes(n)[i]
      BY <3>1
    <3> HIDE DEF g, c
    <3> QED BY <2>2, <3>1, <3>2, EntryIsDivideByte
  <2> QED BY <2>3, <2>4
<1>3. g = [i \in 0..(N - 1) |-> IF i = 0 THEN T0[n] ELSE Entry(T0, g[i - 1])]
  <2>1. g = [i \in 0..(N - 1) |-> g[i]]
    OBVIOUS
  <2> HIDE DEF g, c
  <2>2. \A i \in 0..(N - 1) : g[i] = IF i = 0 THEN T0[n] ELSE Entry(T0, g[i - 1])
    BY <1>2, TopFacts
  <2> QED BY <2>1, <2>2
<1>4. c = [i \in 0..(N - 1) |-> IF i = 0 THEN T0[n] ELSE Entry(T0, c[i - 1])]
  <2> HIDE DEF g
  <2> QED BY <1>3
<1>5. Column(T0, n) = c
  BY DEF Column
<1> DEFINE S == {i \in 0..(N - 1) : c[i] = g[i]}
<1> HIDE DEF c
<1>6. 0 \in S
  <2> HIDE DEF g
  <2> QED BY <1>4, <1>2, TopFacts
<1>7. \A i \in 0..((N - 1) - 1) : i \in S => i + 1 \in S
  <2> HIDE DEF g
  <2> QED BY <1>4, <1>2, TopFacts
<1>8. \A i \in 0..(N - 1) : i \in S
  <2> HIDE DEF S
  <2> QED BY <1>6, <1>7, TopFacts, IntervalInduction
<1> QED BY <1>8, <1>5
-----------------------------------------------------------------------------
(* The xor of one more word.                                               *)
LEMMA InXorAll ==
  ASSUME NEW f, NEW n \in Int, NEW i
  PROVE  i \in XorAll([k \in 0..n |-> f[k]]) <=> Cardinality({k \in 0..n : i \in f[k]}) % 2 = 1
<1> DEFINE h == [k \in 0..n |-> f[k]]
           A == {k \in 0..n : i \in f[k]}
<1>1. A = {k \in DOMAIN h : i \in h[k]}
  OBVIOUS
<1>2. i \in XorAll(h) <=> i \in UNION {h[k] : k \in DOMAIN h} /\ Cardinality(A) % 2 = 1
  BY <1>1 DEF XorAll
<1>3. A # {} => i \in UNION {h[k] : k \in DOMAIN h}
  <2> SUFFICES ASSUME NEW k \in 0..n, i \in f[k] PROVE i \in UNION {h[j] : j \in DOMAIN h}
    OBVIOUS
  <2>1. k \in DOMAIN h /\ h[k] = f[k]
    OBVIOUS
  <2> HIDE DEF h
  <2> QED BY <2>1
<1>4. A = {} => Cardinality(A) % 2 = 0
  BY FS_EmptySet
<1> QED BY <1>2, <1>3, <1>4

LEMMA OneMoreWord ==
  ASSUME NEW f, NEW n \in Nat
  PROVE  XorAll([k \in 0..n |-> f[k]]) = Xor(XorAll([k \in 0..(n - 1) |-> f[k]]), f[n])
<1> SUFFICES ASSUME NEW i
             PROVE  i \in XorAll([k \in 0..n |-> f[k]]) <=>
                      ~(i \in XorAll([k \in 0..(n - 1) |-> f[k]]) <=> i \in f[n])
  BY DEF Xor
<1> DEFINE A == {k \in 0..n : i \in f[k]}
           B == {k \in 0..(n - 1) : i \in f[k]}
<1>1. IsFiniteSet(B) /\ Cardinality(B) \in Nat
  <2>1. IsFiniteSet(0..(n - 1)) /\ B \in SUBSET (0..(n - 1))
    BY FS_Interval
  <2>2. IsFiniteSet(B)
    BY <2>1, FS_Subset
  <2> QED BY <2>2, FS_CardinalityType
<1>2. i \in XorAll([k \in 0..n |-> f[k]]) <=> Cardinality(A) % 2 = 1
  BY InXorAll
<1>3. i \in XorAll([k \in 0..(n - 1) |-> f[k]]) <=> Cardinality(B) % 2 = 1
  <2>1. n - 1 \in Int
    OBVIOUS
  <2> QED BY <2>1, InXorAll
<1>4. CASE i \in f[n]
  <2>1. A = B \cup {n} /\ n \notin B
    BY <1>4
  <2>2. Cardinality(A) = Cardinality(B) + 1
    BY <2>1, <1>1, FS_AddElement
  <2> HIDE DEF A, B
  <2> QED BY <2>2, <1>1, <1>2, <1>3, <1>4
<1>5. CASE i \notin f[n]
  <2>1. A = B
    BY <1>5
  <2> HIDE DEF A, B
  <2> QED BY <2>1, <1>2, <1>3, <1>5
<1> QED BY <1>4, <1>5

LEMMA NoWords ==
  ASSUME NEW f
  PROVE  XorAll([k \in 0..(-1) |-> f[k]]) = {}
<1>1. \A i : {k \in 0..(-1) : i \in f[k]} = {}
  OBVIOUS
<1>2. ASSUME NEW i PROVE i \notin XorAll([k \in 0..(-1) |-> f[k]])
  <2>1. -1 \in Int /\ 0 % 2 # 1
    OBVIOUS
  <2>2. Cardinality({k \in 0..(-1) : i \in f[k]}) = 0
    BY <1>1, FS_EmptySet
  <2> QED BY <2>1, <2>2, InXorAll
<1> QED BY <1>2

-----------------------------------------------------------------------------
(* The lookups of ChunkStep.                                               *)

Lookup(w) == [k \in 0..(N - 1) |-> Tables[N - 1 - k][LowByte(ShiftR(w, k * W))]]

(* The bits of w from a to b - 1.                                          *)
Bits(w, a, b) == w \cap a..(b - 1)

LEMMA OneLookup ==
  ASSUME NEW w \in Wide, NEW k \in 0..(N - 1)
  PROVE  Lookup(w)[k] = DivideBytes(Bits(w, k * W, (k + 1) * W))[N]
<1> DEFINE b == LowByte(ShiftR(w, k * W))
           v == Bits(w, k * W, (k + 1) * W)
<1>1. k * W \in Nat /\ (k + 1) * W = k * W + W
  BY TopFacts
<1>2. b \in Byte /\ b \in Wide /\ v \in Wide
  BY TopFacts DEF LowByte, Byte, Bits, Wide
<1>3. DivideBytes(v)[k] = ShiftR(v, k * W)
  BY <1>2, <1>1, DivideBytesMoves, TopFacts DEF Bits
<1>4. ShiftR(v, k * W) = b
  <2> SUFFICES ASSUME NEW i PROVE i \in ShiftR(v, k * W) <=> i \in b
    OBVIOUS
  <2>1. i \in ShiftR(v, k * W) <=> i \in 0..Top /\ i + k * W \in v
    BY InShiftR
  <2>2. i \in b <=> i \in 0..(W - 1) /\ i \in 0..Top /\ i + k * W \in w
    BY InShiftR DEF LowByte
  <2>3. i \in 0..Top => (i + k * W \in v <=> i + k * W \in w /\ i \in 0..(W - 1))
    BY <1>1, TopFacts DEF Bits
  <2> HIDE DEF b, v
  <2> QED BY <2>1, <2>2, <2>3
<1>5. DivideBytes(v)[N] = DivideBytes(b)[N - k]
  <2>1. k \in 0..N /\ N - k \in 0..(N - k) /\ k + (N - k) = N
    BY TopFacts
  <2> HIDE DEF b, v
  <2> QED BY <2>1, <1>2, <1>3, <1>4, DivideBytesAdds
<1>6. Tables[N - 1 - k][b] = DivideBytes(b)[N - k]
  <2>1. N - 1 - k \in 0..(N - 1) /\ (N - 1 - k) + 1 = N - k
    BY TopFacts
  <2>2. Column(T0, b)[N - 1 - k] = DivideBytes(b)[N - k]
    BY <2>1, <1>2, ColumnIsDivideBytes
  <2>3. CASE N - 1 - k = 0
    <3>1. Tables[N - 1 - k][b] = DivideByte(b)
      BY <2>3, <2>1, <1>2 DEF Tables, T0
    <3>2. DivideBytes(b)[1] = DivideByte(b) /\ N - k = 1
      <4>0. 1 \in 1..N /\ 1 - 1 = 0
        BY TopFacts
      <4> HIDE DEF b, v
      <4>1. DivideBytes(b)[0] = b /\ 1 \in 1..N /\ 1 - 1 = 0
        BY <4>0, <1>2, ByteByByte
      <4>2. DivideBytes(b)[1] = DivideByte(DivideBytes(b)[1 - 1])
        BY <1>2, <4>1, ByteByByte
      <4> QED BY <4>1, <4>2, <2>3, TopFacts
    <3> QED BY <3>1, <3>2
  <2>4. CASE N - 1 - k # 0
    <3>1. Tables[N - 1 - k][b] = Column(T0, b)[N - 1 - k]
      BY <2>4, <2>1, <1>2 DEF Tables
    <3> QED BY <3>1, <2>2
  <2> QED BY <2>3, <2>4
<1> HIDE DEF b, v
<1> QED BY <1>5, <1>6 DEF Lookup, b, v

(* All of them divide all the bytes of w.                                  *)
LEMMA LookupsDivide ==
  ASSUME NEW w \in Wide
  PROVE  XorAll(Lookup(w)) = DivideBytes(w)[N]
<1> DEFINE f == Lookup(w)
           U(j) == XorAll([k \in 0..(j - 1) |-> f[k]])
           low(j) == Bits(w, 0, j * W)
           S == {j \in 0..N : U(j) = DivideBytes(low(j))[N]}
<1>1. \A j \in 0..N : low(j) \in Wide
  BY DEF Bits, Wide
<1>2. \A k \in 0..N : DivideBytes({})[k] = {}
  <2>1. {} = Xor({}, {}) /\ {} \in Wide
    BY XorLaws DEF Wide
  <2>2. \A k \in 0..N : DivideBytes(Xor({}, {}))[k] = Xor(DivideBytes({})[k], DivideBytes({})[k])
    BY <2>1, DivideBytesOfXor
  <2>3. Xor({}, {}) = {}
    BY <2>1
  <2>4. \A k \in 0..N : DivideBytes({})[k] = Xor(DivideBytes({})[k], DivideBytes({})[k])
    BY <2>2, <2>3
  <2> QED BY <2>4, XorLaws
<1>3. 0 \in S
  <2>1. 0 * W = 0 /\ 0 - 1 = -1 /\ 0 \in 0..N /\ N \in 0..N
    BY TopFacts
  <2>2. low(0) = {}
    BY <2>1 DEF Bits
  <2>3. U(0) = {}
    BY <2>1, NoWords
  <2> QED BY <2>1, <2>2, <2>3, <1>2
<1>4. ASSUME NEW j \in 0..(N - 1), j \in S PROVE j + 1 \in S
  <2> DEFINE v == Bits(w, j * W, (j + 1) * W)
  <2>1. /\ (j + 1) - 1 = j /\ j + 1 \in 0..N /\ j \in 0..N /\ j \in Nat /\ N \in 0..N
        /\ j * W \in Nat /\ (j + 1) * W = j * W + W
    BY TopFacts
  <2>2. U(j + 1) = Xor(U(j), f[j])
    BY <2>1, OneMoreWord
  <2>3. f[j] = DivideBytes(v)[N]
    BY OneLookup
  <2>4. low(j + 1) = Xor(low(j), v) /\ v \in Wide
    BY <2>1, TopFacts DEF Bits, Xor, Wide
  <2>5. DivideBytes(Xor(low(j), v))[N] = Xor(DivideBytes(low(j))[N], DivideBytes(v)[N])
    BY <2>1, <2>4, <1>1, DivideBytesOfXor
  <2>6. U(j) = DivideBytes(low(j))[N]
    BY <1>4
  <2> HIDE DEF U, low, f, v
  <2> QED BY <2>1, <2>2, <2>3, <2>4, <2>5, <2>6
<1>5. \A j \in 0..N : j \in S
  <2> HIDE DEF S
  <2> QED BY <1>3, <1>4, TopFacts, IntervalInduction
<1>6. U(N) = DivideBytes(low(N))[N]
  BY <1>5, TopFacts
<1>7. low(N) = w
  <2>1. N * W = Top
    BY TopFacts DEF Top
  <2> QED BY <2>1 DEF Bits, Wide
<1>8. U(N) = XorAll(f)
  BY DEF Lookup
<1> QED BY <1>6, <1>7, <1>8
-----------------------------------------------------------------------------
(* What the remainder of the first k bytes of data is.                     *)
After(data) ==
  LET r[k \in 0..Len(data)] == IF k = 0 THEN Ones ELSE DivideByte(Xor(r[k - 1], data[k]))
  IN r

LEMMA AfterSteps ==
  ASSUME NEW data \in Seq(Byte)
  PROVE  /\ After(data) \in [0..Len(data) -> Wide]
         /\ After(data)[0] = Ones
         /\ \A k \in 1..Len(data) : After(data)[k] = DivideByte(Xor(After(data)[k - 1], data[k]))
         /\ Remainder(data) = After(data)[Len(data)]
<1> DEFINE n == Len(data)
           r[k \in 0..Len(data)] == IF k = 0 THEN Ones ELSE DivideByte(Xor(r[k - 1], data[k]))
           step == [k \in 1..n |-> [v \in Wide |-> DivideByte(Xor(v, data[k]))]]
<1>1. n \in Nat /\ \A k \in 1..n : data[k] \in Wide
  BY TopFacts
<1>2. \A k \in 1..n : \A v \in Wide : DivideByte(Xor(v, data[k])) \in Wide
  BY <1>1, XorIsWide, DivideByteIsWide
<1>3. step \in [1..n -> [Wide -> Wide]]
  BY <1>2
<1>4. PICK g \in [0..n -> Wide] : g[0] = Ones /\ \A i \in 1..n : g[i] = step[i][g[i - 1]]
  <2> HIDE DEF step, r, n
  <2>1. n \in Nat /\ Ones \in Wide
    BY <1>1, TopFacts
  <2> QED BY <2>1, <1>3, RecursionExists, Z3
<1>5. \A i \in 1..n : g[i] = DivideByte(Xor(g[i - 1], data[i]))
  <2>1. \A i \in 1..n : i - 1 \in 0..n
    BY <1>1
  <2> HIDE DEF r
  <2> QED BY <1>4, <2>1
<1>6. g = [k \in 0..Len(data) |-> IF k = 0 THEN Ones ELSE DivideByte(Xor(g[k - 1], data[k]))]
  BY <1>4, <1>5
<1>7. r = [k \in 0..Len(data) |-> IF k = 0 THEN Ones ELSE DivideByte(Xor(r[k - 1], data[k]))]
  BY <1>6
<1>8. After(data) = r /\ Remainder(data) = r[n]
  BY DEF After, Remainder
<1> HIDE DEF r
<1>9. r[0] = Ones /\ \A k \in 1..n : r[k] = DivideByte(Xor(r[k - 1], data[k]))
  BY <1>7, <1>1
<1>10. \A k \in 0..n : r[k] \in Wide
  <2> DEFINE S == {k \in 0..n : r[k] \in Wide}
  <2>1. 0 \in S
    BY <1>9, <1>1, TopFacts
  <2>2. \A k \in 0..(n - 1) : k \in S => k + 1 \in S
    BY <1>9, <1>2, <1>1
  <2> HIDE DEF S, n
  <2>3. \A k \in 0..n : k \in S
    BY <2>1, <2>2, <1>1, IntervalInduction
  <2> QED BY <2>3 DEF S
<1> QED BY <1>7, <1>8, <1>9, <1>10

(* The next j bytes of data after m, as NCopy puts them into one word.     *)
Packed(data, m, j) == UNION {ShiftL(data[m + i], (i - 1) * W) : i \in 1..j}

LEMMA PackedAdds ==
  ASSUME NEW data, NEW m \in Nat, NEW j \in Nat
  PROVE  Packed(data, m, j + 1) = Packed(data, m, j) \cup ShiftL(data[m + (j + 1)], j * W)
<1>1. 1..(j + 1) = (1..j) \cup {j + 1} /\ (j + 1) - 1 = j
  OBVIOUS
<1> QED BY <1>1 DEF Packed

LEMMA PackedIsLow ==
  ASSUME NEW data \in Seq(Byte), NEW m \in Nat, m + N <= Len(data)
  PROVE  \A j \in 0..N : Packed(data, m, j) \subseteq 0..(j * W - 1)
<1> DEFINE S == {j \in 0..N : Packed(data, m, j) \subseteq 0..(j * W - 1)}
<1>1. 0 \in S
  BY TopFacts DEF Packed
<1>2. ASSUME NEW j \in 0..(N - 1), j \in S PROVE j + 1 \in S
  <2>1. j * W \in Nat /\ (j + 1) * W = j * W + W /\ j + 1 \in 0..N /\ j \in Nat
    BY TopFacts
  <2>2. data[m + (j + 1)] \in SUBSET (0..(W - 1))
    <3>1. m + (j + 1) \in 1..Len(data)
      BY TopFacts
    <3> QED BY <3>1 DEF Byte
  <2>3. ShiftL(data[m + (j + 1)], j * W) \subseteq (j * W)..((j + 1) * W - 1)
    BY <2>1, <2>2, TopFacts DEF ShiftL
  <2>4. Packed(data, m, j) \subseteq 0..((j + 1) * W - 1)
    BY <1>2, <2>1, TopFacts
  <2>5. (j * W)..((j + 1) * W - 1) \subseteq 0..((j + 1) * W - 1)
    BY <2>1
  <2> QED BY <2>1, <2>3, <2>4, <2>5, PackedAdds
<1> HIDE DEF S
<1>3. \A j \in 0..N : j \in S
  BY <1>1, <1>2, TopFacts, IntervalInduction
<1> QED BY <1>3 DEF S

(* N bytes at once are divided as one after the other.                     *)
LEMMA ChunkDivides ==
  ASSUME NEW data \in Seq(Byte), NEW m \in Nat, m + N <= Len(data)
  PROVE  LET w == Xor(After(data)[m], Packed(data, m, N)) IN
         w \in Wide /\ DivideBytes(w)[N] = After(data)[m + N]
<1> DEFINE r == After(data)
           X(j) == Xor(r[m], Packed(data, m, j))
           S == {j \in 0..N : DivideBytes(X(j))[j] = r[m + j]}
<1>1. \A j \in 0..N : m + j \in 0..Len(data)
  BY TopFacts
<1>2. r[m] \in Wide
  <2>1. m \in 0..Len(data)
    BY TopFacts
  <2> QED BY <2>1, AfterSteps
<1>3. \A j \in 0..N : X(j) \in Wide
  <2> SUFFICES ASSUME NEW j \in 0..N PROVE Packed(data, m, j) \in Wide
    <3> HIDE DEF r
    <3> QED BY <1>2, XorIsWide
  <2>1. Packed(data, m, j) \subseteq 0..(j * W - 1) /\ j * W \in Nat /\ j * W <= Top
    BY PackedIsLow, TopFacts
  <2> QED BY <2>1, TopFacts DEF Wide
<1>4. 0 \in S
  <2>1. X(0) = r[m]
    <3>1. Packed(data, m, 0) = {}
      BY DEF Packed
    <3> QED BY <3>1, XorLaws
  <2>2. m + 0 = m /\ 0 \in 0..N
    BY TopFacts
  <2> HIDE DEF X, r
  <2>3. DivideBytes(r[m])[0] = r[m]
    BY <1>2, ByteByByte
  <2> QED BY <2>1, <2>2, <2>3
<1>5. ASSUME NEW j \in 0..(N - 1), j \in S PROVE j + 1 \in S
  <2> DEFINE b == data[m + (j + 1)]
             v == ShiftL(b, j * W)
  <2>1. /\ j * W \in Nat /\ (j + 1) * W = j * W + W /\ (j + 1) * W <= Top
        /\ j + 1 \in 0..N /\ j \in Nat /\ j \in 0..N
        /\ j + 1 \in 1..N /\ (j + 1) - 1 = j
        /\ m + (j + 1) \in 1..Len(data) /\ (m + (j + 1)) - 1 = m + j
    BY TopFacts
  <2>2. b \in SUBSET (0..(W - 1))
    BY <2>1 DEF Byte
  <2>3. v \in Wide /\ \A i \in v : i >= j * W
    BY <2>1, <2>2, TopFacts DEF ShiftL, Wide
  <2>4. X(j + 1) = Xor(X(j), v)
    <3>1. Packed(data, m, j + 1) = Packed(data, m, j) \cup v
      BY <2>1, PackedAdds
    <3>2. Packed(data, m, j) \cap v = {}
      BY <2>1, <2>3, PackedIsLow
    <3> HIDE DEF r, v
    <3> QED BY <3>1, <3>2 DEF Xor
  <2>5. ShiftR(v, j * W) = b
    <3>1. \A i \in b : i \in 0..Top
      BY <2>2, TopFacts
    <3>2. \A i \in 0..Top : i + j * W \in v <=> i \in b
      BY <2>1, <2>2 DEF ShiftL
    <3> HIDE DEF b, v
    <3> QED BY <3>1, <3>2, InShiftR
  <2>6. DivideBytes(X(j + 1))[j] = Xor(r[m + j], b)
    <3>1. DivideBytes(v)[j] = b
      BY <2>1, <2>3, <2>5, DivideBytesMoves
    <3>2. DivideBytes(Xor(X(j), v))[j] = Xor(DivideBytes(X(j))[j], DivideBytes(v)[j])
      BY <2>1, <2>3, <1>3, DivideBytesOfXor
    <3>3. DivideBytes(X(j))[j] = r[m + j]
      BY <1>5
    <3> HIDE DEF X, v, b, r
    <3> QED BY <2>4, <3>1, <3>2, <3>3
  <2>7. DivideBytes(X(j + 1))[j + 1] = DivideByte(DivideBytes(X(j + 1))[j])
    <3>1. X(j + 1) \in Wide
      BY <2>1, <1>3
    <3> HIDE DEF X
    <3> QED BY <2>1, <3>1, ByteByByte
  <2>8. r[m + (j + 1)] = DivideByte(Xor(r[m + j], b))
    BY <2>1, AfterSteps
  <2> HIDE DEF X, r, b
  <2> QED BY <2>1, <2>6, <2>7, <2>8
<1>6. \A j \in 0..N : j \in S
  <2> HIDE DEF S
  <2> QED BY <1>4, <1>5, TopFacts, IntervalInduction
<1>7. X(N) \in Wide /\ DivideBytes(X(N))[N] = r[m + N]
  BY <1>6, <1>3, TopFacts
<1> QED BY <1>7
-----------------------------------------------------------------------------
(* The inductive invariant of the sums: a thread that has len bytes to go  *)
(* has the remainder of those before them.                                 *)

SumOK(t) ==
  pc[t] = "sum" =>
    /\ sum[t] \in [data : Seq(Byte), next : Nat, len : Nat, crc : Wide]
    /\ sum[t].len <= Len(sum[t].data)
    /\ sum[t].crc = After(sum[t].data)[Len(sum[t].data) - sum[t].len]

SInv == /\ CInv
        /\ sum = [t \in Threads |-> sum[t]] /\ res = [t \in Threads |-> res[t]]
        /\ \A t \in Threads : SumOK(t)
        /\ CrcIsRight

LEMMA SumStart ==
  ASSUME NEW data \in Seq(Byte), NEW align \in Nat, NEW s,
         s = [data |-> data, next |-> align, len |-> Len(data), crc |-> Ones]
  PROVE  /\ s \in [data : Seq(Byte), next : Nat, len : Nat, crc : Wide]
         /\ s.len <= Len(s.data)
         /\ s.crc = After(s.data)[Len(s.data) - s.len]
<1>1. Len(data) - Len(data) = 0 /\ Len(data) \in Nat
  OBVIOUS
<1> QED BY <1>1, AfterSteps, TopFacts

LEMMA ByteStepKeeps ==
  ASSUME SInv, NEW t \in Threads, ByteStep(t)
  PROVE  SumOK(t)'
<1> DEFINE s == sum[t]
           m == Len(s.data) - s.len
           b == Ahead(s, 1)
<1>1. /\ s \in [data : Seq(Byte), next : Nat, len : Nat, crc : Wide]
      /\ s.len <= Len(s.data) /\ s.len > 0 /\ s.crc = After(s.data)[m]
  BY DEF SInv, SumOK, ByteStep
<1>2. m \in Nat /\ m + 1 \in 1..Len(s.data) /\ (m + 1) - 1 = m
  BY <1>1
<1>3. b = s.data[m + 1] /\ b \in Wide
  BY <1>1, <1>2, TopFacts DEF Ahead
<1>4. table[0] = T0
  BY CompleteIsRight DEF SInv, CInv, PassesComplete, Complete, ByteStep
<1>5. Entry(T0, Xor(s.crc, b)) = After(s.data)[m + 1] /\ After(s.data)[m + 1] \in Wide
  <2>1. Entry(T0, Xor(s.crc, b)) = DivideByte(Xor(s.crc, b))
    BY <1>1, <1>3, XorIsWide, EntryIsDivideByte
  <2>2. s.data \in Seq(Byte) /\ m + 1 \in 0..Len(s.data)
    BY <1>1, <1>2
  <2>3. After(s.data)[m + 1] = DivideByte(Xor(After(s.data)[m], s.data[m + 1]))
    BY <1>2, <2>2, AfterSteps
  <2>4. After(s.data)[m + 1] \in Wide
    BY <2>2, AfterSteps
  <2> QED BY <2>1, <2>3, <2>4, <1>1, <1>3
<1>6. sum'[t] = [s EXCEPT !.next = @ + 1, !.len = @ - 1, !.crc = Entry(table[0], Xor(@, b))]
  BY DEF SInv, ByteStep
<1>7. /\ sum'[t].data = s.data /\ sum'[t].next = s.next + 1 /\ sum'[t].len = s.len - 1
      /\ sum'[t].crc = After(s.data)[m + 1]
      /\ sum'[t] = [data |-> sum'[t].data, next |-> sum'[t].next, len |-> sum'[t].len,
                    crc |-> sum'[t].crc]
  <2> HIDE DEF b, m
  <2> QED BY <1>1, <1>4, <1>5, <1>6
<1>8. Len(s.data) - (s.len - 1) = m + 1
  BY <1>1
<1> HIDE DEF m, b
<1> QED BY <1>1, <1>5, <1>7, <1>8 DEF SumOK

LEMMA ChunkStepKeeps ==
  ASSUME SInv, NEW t \in Threads, ChunkStep(t)
  PROVE  SumOK(t)'
<1> DEFINE s == sum[t]
           m == Len(s.data) - s.len
           w == Xor(s.crc, NCopy(s))
<1>1. /\ s \in [data : Seq(Byte), next : Nat, len : Nat, crc : Wide]
      /\ s.len <= Len(s.data) /\ s.len >= N /\ s.crc = After(s.data)[m]
  BY DEF SInv, SumOK, ChunkStep
<1>2. m \in Nat /\ m + N \in 0..Len(s.data) /\ m + N <= Len(s.data) /\ s.data \in Seq(Byte)
  BY <1>1, TopFacts
<1>3. NCopy(s) = Packed(s.data, m, N)
  BY DEF NCopy, Packed, Ahead
<1>4. w \in Wide /\ DivideBytes(w)[N] = After(s.data)[m + N]
  <2> HIDE DEF m
  <2> QED BY <1>1, <1>2, <1>3, ChunkDivides
<1>5. table = Tables
  BY DEF SInv, CInv, PassesComplete, Complete, ChunkStep
<1>6. XorAll([k \in 0..(N - 1) |-> table[N - 1 - k][LowByte(ShiftR(w, k * W))]])
        = After(s.data)[m + N]
  <2> HIDE DEF w, m
  <2> QED BY <1>4, <1>5, LookupsDivide DEF Lookup
<1>7. After(s.data)[m + N] \in Wide
  <2> HIDE DEF m
  <2> QED BY <1>2, AfterSteps
<1>8. sum'[t] = [s EXCEPT !.next = @ + N, !.len = @ - N, !.crc = After(s.data)[m + N]]
  <2>1. sum' = [sum EXCEPT ![t] = [s EXCEPT !.next = @ + N, !.len = @ - N,
          !.crc = XorAll([k \in 0..(N - 1) |-> table[N - 1 - k][LowByte(ShiftR(w, k * W))]])]]
    BY DEF ChunkStep
  <2> HIDE DEF w, m
  <2> QED BY <2>1, <1>6 DEF SInv
<1>9. /\ sum'[t].data = s.data /\ sum'[t].next = s.next + N /\ sum'[t].len = s.len - N
      /\ sum'[t].crc = After(s.data)[m + N]
      /\ sum'[t] = [data |-> sum'[t].data, next |-> sum'[t].next, len |-> sum'[t].len,
                    crc |-> sum'[t].crc]
  <2> HIDE DEF m
  <2> QED BY <1>1, <1>8
<1>10. Len(s.data) - (s.len - N) = m + N /\ s.len - N \in Nat /\ s.len - N <= Len(s.data)
       /\ s.next + N \in Nat
  BY <1>1, TopFacts
<1> HIDE DEF m, w
<1> QED BY <1>1, <1>7, <1>9, <1>10 DEF SumOK

LEMMA SInitOK == CInit => SInv
BY CInitOK DEF CInit, SInv, SumOK, CrcIsRight

LEMMA SStep ==
  ASSUME SInv, [CNext]_cvars
  PROVE  SInv'
<1>1. CInv'
  BY CStep DEF SInv
<1>2. CASE UNCHANGED cvars
  BY <1>1, <1>2 DEF SInv, SumOK, CrcIsRight, cvars
<1>3. ASSUME NEW t \in Threads,
             Call(t) \/ First(t) \/ FirstEnds(t) \/ Rest(t) \/ Built(t)
      PROVE  SInv'
  <2>1. /\ UNCHANGED sum
        /\ UNCHANGED res \/ res' = [res EXCEPT ![t] = Nil]
        /\ pc[t] # "sum"
        /\ UNCHANGED pc \/ \E label : Goes(t, label) /\ label # "sum"
    BY <1>3 DEF Call, First, FirstEnds, Rest, Built
  <2>2. \A u \in Threads : pc'[u] = "sum" => pc[u] = "sum"
    BY <2>1 DEF SInv, CInv, ThreadsOK, Goes
  <2>3. \A u \in Threads : SumOK(u)'
    BY <2>1, <2>2 DEF SInv, SumOK
  <2>4. CrcIsRight' /\ res' = [u \in Threads |-> res'[u]]
    BY <2>1 DEF SInv, CrcIsRight
  <2> QED BY <1>1, <2>1, <2>3, <2>4 DEF SInv
<1>4. ASSUME NEW t \in Threads, Begin(t) PROVE SInv'
  <2>1. PICK j \in JobsOf[t] :
          /\ sum' = [sum EXCEPT ![t] = [data |-> j.data, next |-> j.align, len |-> Len(j.data),
                                        crc |-> Ones]]
          /\ Goes(t, "sum") /\ UNCHANGED res
    BY <1>4 DEF Begin
  <2>2. j.data \in Seq(Byte) /\ j.align \in Nat
    BY JobsAssumption
  <2>3. SumOK(t)'
    <3>1. sum'[t] = [data |-> j.data, next |-> j.align, len |-> Len(j.data), crc |-> Ones]
      BY <2>1 DEF SInv
    <3> QED BY <3>1, <2>2, SumStart DEF SumOK
  <2>4. ASSUME NEW u \in Threads, u # t PROVE SumOK(u)'
    BY <2>1, <2>4 DEF SInv, SumOK, CInv, ThreadsOK, Goes
  <2>5. CrcIsRight' /\ res' = [u \in Threads |-> res'[u]] /\ sum' = [u \in Threads |-> sum'[u]]
    BY <2>1 DEF SInv, CrcIsRight
  <2> QED BY <1>1, <2>3, <2>4, <2>5 DEF SInv
<1>5. ASSUME NEW t \in Threads, ByteStep(t) \/ ChunkStep(t) PROVE SInv'
  <2>1. SumOK(t)'
    BY <1>5, ByteStepKeeps, ChunkStepKeeps
  <2>2. /\ UNCHANGED <<pc, res>>
        /\ \E v : sum' = [sum EXCEPT ![t] = v]
    BY <1>5 DEF ByteStep, ChunkStep
  <2>3. ASSUME NEW u \in Threads, u # t PROVE SumOK(u)'
    BY <2>2, <2>3 DEF SInv, SumOK
  <2>4. CrcIsRight' /\ res' = [u \in Threads |-> res'[u]] /\ sum' = [u \in Threads |-> sum'[u]]
    BY <2>2 DEF SInv, CrcIsRight
  <2> QED BY <1>1, <2>1, <2>3, <2>4 DEF SInv
<1>6. ASSUME NEW t \in Threads, Return(t) PROVE SInv'
  <2>1. /\ pc[t] = "sum" /\ sum[t].len = 0
        /\ res' = [res EXCEPT ![t] = [data |-> sum[t].data, crc |-> Xor(sum[t].crc, Ones)]]
        /\ sum' = [sum EXCEPT ![t] = Nil]
        /\ Goes(t, "idle")
    BY <1>6 DEF Return
  <2>2. \A u \in Threads : SumOK(u)'
    BY <2>1 DEF SInv, SumOK, CInv, ThreadsOK, Goes
  <2>3. res'[t].data = sum[t].data /\ res'[t].crc = CRC(sum[t].data)
    <3>1. sum[t].data \in Seq(Byte) /\ sum[t].crc = After(sum[t].data)[Len(sum[t].data) - 0]
      BY <2>1 DEF SInv, SumOK
    <3>2. sum[t].crc = Remainder(sum[t].data)
      BY <3>1, AfterSteps
    <3> QED BY <3>2, <2>1 DEF SInv, CRC
  <2>4. CrcIsRight'
    BY <2>1, <2>3 DEF SInv, CrcIsRight
  <2>5. res' = [u \in Threads |-> res'[u]] /\ sum' = [u \in Threads |-> sum'[u]]
    BY <2>1 DEF SInv
  <2> QED BY <1>1, <2>2, <2>4, <2>5 DEF SInv
<1> QED BY <1>2, <1>3, <1>4, <1>5, <1>6 DEF CNext

(* Every call of nftp_crc32c returns the remainder of its data, divided    *)
(* bit by bit, however many threads build the tables at once, however the  *)
(* data are aligned and however many of them are taken N at a time.        *)
THEOREM ChecksumsAreRight == CSpec => []CrcIsRight
<1>1. CInit => SInv
  BY SInitOK
<1>2. SInv /\ [CNext]_cvars => SInv'
  BY SStep
<1>3. SInv => CrcIsRight
  BY DEF SInv
<1> QED BY <1>1, <1>2, <1>3, PTL DEF CSpec
=============================================================================
