------------------------------ MODULE Checksum ------------------------------
(***************************************************************************)
(* nftp_crc32c of src/src/hash.c, which ids of files and checksums of      *)
(* their contents come from, and the threads that call it.  The first call *)
(* builds the tables; README.md:51 calls it thread safe, but nothing keeps *)
(* a second call from building them as well, or from using them meanwhile. *)
(*                                                                         *)
(* A word is the set of its bits that are 1.  Stores are seen by other     *)
(* threads in the order of the program.                                    *)
(***************************************************************************)
EXTENDS Integers, Sequences, FiniteSets

CONSTANTS W,        \* bits of a byte, 8
          L,        \* bytes of a checksum, 4
          N,        \* bytes taken at a time, 8
          POLY,
          Threads,
          JobsOf,   \* [Threads -> what each computes checksums of]
          Nil

ASSUME WidthAssumption == W \in Nat \ {0} /\ L \in Nat \ {0} /\ N \in Nat /\ N >= L
ASSUME PolyAssumption == POLY \subseteq 0..(W * L - 1)

VARIABLES table,  \* crc32c_table
          init,   \* crc32c_init
          pc,     \* where each thread is
          left,   \* the n of the loops of crc32c_init_sw a thread has not done
          sum,    \* of a thread in crc32c_sw: data, how far it is, crc
          res     \* what the last call of a thread was given, and returned

cvars == <<table, init, pc, left, sum, res>>

Byte == SUBSET (0..(W - 1))
Ones == 0..(W * L - 1)
Word == SUBSET Ones

ASSUME JobsAssumption ==
  \A t \in Threads : JobsOf[t] \subseteq [data : Seq(Byte), align : Nat]

Xor(a, b) == (a \ b) \cup (b \ a)
XorAll(f) == {i \in UNION {f[k] : k \in DOMAIN f} :
                Cardinality({k \in DOMAIN f : i \in f[k]}) % 2 = 1}
ShiftR(w, k) == {i \in 0..(W * N) : i + k \in w}
ShiftL(w, k) == {i + k : i \in w}
LowByte(w) == w \cap 0..(W - 1)

-----------------------------------------------------------------------------
(* What a checksum is: the remainder of a division, bit by bit.            *)
Divide(w) == IF 0 \in w THEN Xor(ShiftR(w, 1), POLY) ELSE ShiftR(w, 1)
DivideByte(w) == LET d[k \in 0..W] == IF k = 0 THEN w ELSE Divide(d[k - 1])
                 IN d[W]

Remainder(data) ==
  LET r[k \in 0..Len(data)] == IF k = 0 THEN Ones ELSE DivideByte(Xor(r[k - 1], data[k]))
  IN r[Len(data)]

CRC(data) == Xor(Remainder(data), Ones)

-----------------------------------------------------------------------------
CInit == /\ table = [k \in 0..(N - 1) |-> [n \in Byte |-> {}]]
         /\ init = FALSE
         /\ pc = [t \in Threads |-> "idle"]
         /\ left = [t \in Threads |-> {}]
         /\ sum = [t \in Threads |-> Nil]
         /\ res = [t \in Threads |-> Nil]

Goes(t, label) == pc' = [pc EXCEPT ![t] = label]

(* Mutant: the flag is set before the tables are built.                    *)
CallFlagsFirst(t) == /\ pc[t] = "idle"
                     /\ IF init THEN Goes(t, "ready") /\ UNCHANGED left
                                ELSE Goes(t, "first") /\ left' = [left EXCEPT ![t] = Byte]
                     /\ init' = TRUE
                     /\ res' = [res EXCEPT ![t] = Nil]
                     /\ UNCHANGED <<table, sum>>

Call(t) == /\ pc[t] = "idle"
           /\ IF init THEN Goes(t, "ready") /\ UNCHANGED left
                      ELSE Goes(t, "first") /\ left' = [left EXCEPT ![t] = Byte]
           /\ res' = [res EXCEPT ![t] = Nil]
           /\ UNCHANGED <<table, init, sum>>

(* The first loop of crc32c_init_sw, once for each n, in any order.        *)
First(t) == \E n \in left[t] :
              /\ pc[t] = "first"
              /\ table' = [table EXCEPT ![0][n] = DivideByte(n)]
              /\ left' = [left EXCEPT ![t] = @ \ {n}]
              /\ UNCHANGED <<init, pc, sum, res>>

FirstEnds(t) == /\ pc[t] = "first" /\ left[t] = {}
                /\ left' = [left EXCEPT ![t] = Byte]
                /\ Goes(t, "rest")
                /\ UNCHANGED <<table, init, sum, res>>

(* The crc of n followed by zeros, one more in each table.                 *)
Entry(T0, crc) == Xor(T0[LowByte(crc)], ShiftR(crc, W))
Column(T0, n) == LET c[k \in 0..(N - 1)] == IF k = 0 THEN T0[n] ELSE Entry(T0, c[k - 1])
                 IN c

(* The second loop.                                                        *)
Rest(t) == \E n \in left[t] :
             /\ pc[t] = "rest"
             /\ table' = [k \in 0..(N - 1) |->
                            IF k = 0 THEN table[0] ELSE [table[k] EXCEPT ![n] = Column(table[0], n)[k]]]
             /\ left' = [left EXCEPT ![t] = @ \ {n}]
             /\ UNCHANGED <<init, pc, sum, res>>

Built(t) == /\ pc[t] = "rest" /\ left[t] = {}
            /\ init' = TRUE
            /\ Goes(t, "ready")
            /\ UNCHANGED <<table, left, sum, res>>

-----------------------------------------------------------------------------
(* crc32c_sw: bytes until next is aligned, then N at a time, then bytes.   *)
Begin(t) == \E j \in JobsOf[t] :
              /\ pc[t] = "ready"
              /\ sum' = [sum EXCEPT ![t] = [data |-> j.data, next |-> j.align, len |-> Len(j.data),
                                            crc |-> Ones]]
              /\ Goes(t, "sum")
              /\ UNCHANGED <<table, init, left, res>>

Aligned(s) == s.next % N = 0
Ahead(s, i) == s.data[Len(s.data) - s.len + i]

ByteStep(t) ==
  LET s == sum[t] IN
  /\ pc[t] = "sum" /\ s.len > 0 /\ (~Aligned(s) \/ s.len < N)
  /\ sum' = [sum EXCEPT ![t] = [s EXCEPT !.next = @ + 1, !.len = @ - 1,
               !.crc = Entry(table[0], Xor(@, Ahead(s, 1)))]]
  /\ UNCHANGED <<table, init, pc, left, res>>

(* Mutant: the highest byte comes first.                                   *)
NCopyBig(s) == UNION {ShiftL(Ahead(s, i), (N - i) * W) : i \in 1..N}

NCopy(s) == UNION {ShiftL(Ahead(s, i), (i - 1) * W) : i \in 1..N}

ChunkStep(t) ==
  LET s == sum[t]
      crc == Xor(s.crc, NCopy(s))
  IN /\ pc[t] = "sum" /\ Aligned(s) /\ s.len >= N
     /\ sum' = [sum EXCEPT ![t] = [s EXCEPT !.next = @ + N, !.len = @ - N,
          !.crc = XorAll([k \in 0..(N - 1) |-> table[N - 1 - k][LowByte(ShiftR(crc, k * W))]])]]
     /\ UNCHANGED <<table, init, pc, left, res>>

Return(t) == /\ pc[t] = "sum" /\ sum[t].len = 0
             /\ res' = [res EXCEPT ![t] = [data |-> sum[t].data, crc |-> Xor(sum[t].crc, Ones)]]
             /\ sum' = [sum EXCEPT ![t] = Nil]
             /\ Goes(t, "idle")
             /\ UNCHANGED <<table, init, left>>

CNext == \E t \in Threads :
           \/ Call(t) \/ First(t) \/ FirstEnds(t) \/ Rest(t) \/ Built(t)
           \/ Begin(t) \/ ByteStep(t) \/ ChunkStep(t) \/ Return(t)

CSpec == CInit /\ [][CNext]_cvars

-----------------------------------------------------------------------------
(* Every call returns the checksum of what it was given, whoever built the *)
(* tables, wherever the data lie and however long they are.                *)
CrcIsRight == \A t \in Threads : res[t] # Nil => res[t].crc = CRC(res[t].data)

(* Whoever passes the check of crc32c_init finds complete tables; a thread *)
(* that is late in building them stores what is there.                     *)
TablesStay == [][init => UNCHANGED table]_cvars
=============================================================================
