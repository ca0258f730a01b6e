----------------------------- MODULE WireProofs -----------------------------
(* Theorems about Wire, for any width of a byte, files, names and block    *)
(* sizes.                                                                  *)
EXTENDS Wire, Lemmas

(* What the theorems suppose of the block sizes and the files: a message   *)
(* with a whole block has a length that fits into its field, and no block  *)
(* of a file that can be announced starts past 4 GB, where an offset is    *)
(* cut short.                                                              *)
FilesFit ==
  \A b \in Blocksizes : /\ 15 + b < U32
                        /\ \A s \in Sizes : s \div b < U16 => (s \div b) * b < U32

-----------------------------------------------------------------------------
(* Widths of fields.                                                       *)

LEMMA Widths ==
  /\ Byte \in Nat /\ Byte >= 3
  /\ U16 \in Nat /\ U16 >= 3 * Byte /\ U16 = Byte * Byte
  /\ U32 \in Nat /\ U32 >= 9 * U16 /\ U32 = U16 * U16
<1>1. Byte \in Nat /\ Byte >= 3
  BY WireAssumption
<1>2. U16 = Byte * Byte /\ U16 \in Nat /\ U16 >= 3 * Byte
  BY <1>1, ProductsGrow DEF U16
<1>3. U32 = U16 * U16 /\ U32 \in Nat /\ U32 >= 9 * U16
  <2>1. 9 <= U16
    BY <1>1, <1>2
  <2> QED BY <1>2, <2>1, ProductsGrow DEF U32
<1> QED BY <1>1, <1>2, <1>3

-----------------------------------------------------------------------------
(* Where things are in a stream: s lies in v after the first p entries.    *)

At(v, p, s) == \A i \in 1..Len(s) : v[p + i] = s[i]

LEMMA ConcatIs ==
  ASSUME NEW S, NEW s \in Seq(S), NEW t \in Seq(S)
  PROVE  /\ s \o t \in Seq(S) /\ Len(s \o t) = Len(s) + Len(t)
         /\ At(s \o t, 0, s) /\ At(s \o t, Len(s), t)
<1>1. s \o t \in Seq(S) /\ Len(s \o t) = Len(s) + Len(t)
  BY ConcatProperties
<1>2. \A i \in 1..Len(s) + Len(t) : (s \o t)[i] = IF i <= Len(s) THEN s[i] ELSE t[i - Len(s)]
  BY ConcatProperties
<1>3. Len(s) \in Nat /\ Len(t) \in Nat
  OBVIOUS
<1>4. ASSUME NEW i \in 1..Len(s) PROVE (s \o t)[0 + i] = s[i]
  BY <1>2, <1>3
<1>5. ASSUME NEW i \in 1..Len(t) PROVE (s \o t)[Len(s) + i] = t[i]
  <2>1. /\ Len(s) + i \in 1..Len(s) + Len(t) /\ ~(Len(s) + i <= Len(s))
        /\ Len(s) + i - Len(s) = i
    BY <1>3
  <2> QED BY <2>1, <1>2
<1> QED BY <1>1, <1>4, <1>5 DEF At

LEMMA AppendingKeeps ==
  ASSUME NEW S, NEW s \in Seq(S), NEW t \in Seq(S), NEW p \in Nat, NEW r \in Seq(S),
         At(s, p, r), p + Len(r) <= Len(s)
  PROVE  At(s \o t, p, r)
<1>1. \A i \in 1..Len(s) : (s \o t)[i] = s[i]
  BY ConcatIs DEF At
<1> QED BY <1>1 DEF At

LEMMA SubSeqAt ==
  ASSUME NEW v \in Seq(Nat), NEW p \in Nat, NEW s \in Seq(Nat),
         At(v, p, s), p + Len(s) <= Len(v)
  PROVE  SubSeq(v, p + 1, p + Len(s)) = s
<1>1. /\ SubSeq(v, p + 1, p + Len(s)) \in Seq(Nat)
      /\ Len(SubSeq(v, p + 1, p + Len(s))) = Len(s)
      /\ \A i \in 1..Len(s) : SubSeq(v, p + 1, p + Len(s))[i] = v[p + i]
  OBVIOUS
<1> QED BY <1>1, SeqEqual DEF At

(* The steps of FlattenSeq.                                                *)
Flattens(f, seqs, n, S) == /\ f \in [1..n -> Seq(S)] /\ f[1] = seqs[1]
                           /\ \A i \in 2..n : f[i] = f[i - 1] \o seqs[i]
                           /\ FlattenSeq(seqs) = f[n]

LEMMA FlattenSteps ==
  ASSUME NEW S, NEW n \in Nat \ {0}, NEW seqs \in [1..n -> Seq(S)]
  PROVE  \E f : Flattens(f, seqs, n, S)
<1> DEFINE flatten[i \in 1..Len(seqs)] ==
             IF i = 1 THEN seqs[i] ELSE flatten[i - 1] \o seqs[i]
<1>1. Len(seqs) = n /\ \A i \in 1..n : seqs[i] \in Seq(S)
  OBVIOUS
<1> DEFINE step == [k \in 1..(n - 1) |-> [v \in Seq(S) |-> v \o seqs[k + 1]]]
<1>2. PICK g : Runs(g, n - 1, Seq(S), seqs[1], step)
  <2>1. \A k \in 1..(n - 1) : seqs[k + 1] \in Seq(S)
    BY <1>1
  <2>2. \A k \in 1..(n - 1) : \A v \in Seq(S) : v \o seqs[k + 1] \in Seq(S)
    BY <2>1, ConcatIs
  <2>3. step \in [1..(n - 1) -> [Seq(S) -> Seq(S)]]
    BY <2>2
  <2>4. n - 1 \in Nat /\ seqs[1] \in Seq(S)
    BY <1>1
  <2> HIDE DEF step, flatten
  <2>5. IsRecursion(n - 1, Seq(S), seqs[1], step)
    BY <2>3, <2>4 DEF IsRecursion
  <2> QED BY <2>5, Recursion
<1>3. /\ g \in [0..(n - 1) -> Seq(S)] /\ g[0] = seqs[1]
      /\ \A i \in 1..(n - 1) : g[i] = step[i][g[i - 1]]
  <2> HIDE DEF step
  <2> QED BY <1>2 DEF Runs
<1> DEFINE f == [i \in 1..n |-> g[i - 1]]
<1>4. f \in [1..n -> Seq(S)] /\ f[1] = seqs[1]
  BY <1>3
<1>5. ASSUME NEW i \in 2..n PROVE f[i] = f[i - 1] \o seqs[i]
  <2>1. /\ i - 1 \in 1..(n - 1) /\ (i - 1) + 1 = i /\ i \in 1..n /\ i - 1 \in 1..n
        /\ (i - 1) - 1 \in 0..(n - 1)
    OBVIOUS
  <2>2. g[i - 1] = step[i - 1][g[(i - 1) - 1]] /\ g[(i - 1) - 1] \in Seq(S)
    <3> HIDE DEF step
    <3> QED BY <2>1, <1>3
  <2>3. g[i - 1] = g[(i - 1) - 1] \o seqs[i]
    BY <2>1, <2>2
  <2> QED BY <2>1, <2>3
<1> HIDE DEF f
<1>6. f = [i \in 1..Len(seqs) |-> IF i = 1 THEN seqs[i] ELSE f[i - 1] \o seqs[i]]
  <2>1. f = [i \in 1..Len(seqs) |-> f[i]]
    BY <1>1, <1>4
  <2> HIDE DEF flatten
  <2>2. ASSUME NEW i \in 1..n
        PROVE  f[i] = IF i = 1 THEN seqs[i] ELSE f[i - 1] \o seqs[i]
    <3>1. i = 1 \/ i \in 2..n
      BY <1>1
    <3> QED BY <3>1, <1>4, <1>5
  <2> QED BY <1>1, <2>1, <2>2
<1>7. flatten = [i \in 1..Len(seqs) |-> IF i = 1 THEN seqs[i] ELSE flatten[i - 1] \o seqs[i]]
  BY <1>6
<1>8. FlattenSeq(seqs) = flatten[n]
  BY <1>1 DEF FlattenSeq
<1> HIDE DEF flatten
<1>9. ASSUME NEW i \in 2..n PROVE flatten[i] = flatten[i - 1] \o seqs[i]
  <2>1. i \in 1..n /\ i # 1
    BY <1>1
  <2> QED BY <2>1, <1>1, <1>7
<1>10. flatten[1] = seqs[1]
  BY <1>7, <1>1
<1>11. \A i \in 1..n : flatten[i] \in Seq(S)
  <2> DEFINE T == {i \in 0..(n - 1) : flatten[i + 1] \in Seq(S)}
  <2>1. 0 \in T
    BY <1>10, <1>1
  <2>2. ASSUME NEW i \in 0..((n - 1) - 1), i \in T PROVE i + 1 \in T
    <3>1. (i + 1) + 1 \in 2..n /\ ((i + 1) + 1) - 1 = i + 1 /\ (i + 1) + 1 \in 1..n
          /\ i + 1 \in 0..(n - 1)
      BY <1>1
    <3>2. flatten[(i + 1) + 1] = flatten[i + 1] \o seqs[(i + 1) + 1]
      BY <3>1, <1>9
    <3>3. flatten[i + 1] \in Seq(S) /\ seqs[(i + 1) + 1] \in Seq(S)
      BY <2>2, <3>1, <1>1
    <3>4. PICK a \in Seq(S), b \in Seq(S) : a = flatten[i + 1] /\ b = seqs[(i + 1) + 1]
      BY <3>3
    <3>5. a \o b \in Seq(S)
      BY ConcatIs
    <3> QED BY <3>1, <3>2, <3>4, <3>5
  <2>3. \A i \in 0..(n - 1) : i \in T
    <3>1. n - 1 \in Nat
      OBVIOUS
    <3> HIDE DEF T
    <3> QED BY <2>1, <2>2, <3>1, IntervalInduction
  <2>4. \A i \in 1..n : i - 1 \in 0..(n - 1) /\ (i - 1) + 1 = i
    BY <1>1
  <2> QED BY <2>3, <2>4
<1>12. flatten \in [1..n -> Seq(S)]
  BY <1>1, <1>7, <1>11
<1>13. Flattens(flatten, seqs, n, S)
  BY <1>8, <1>9, <1>10, <1>12 DEF Flattens
<1> QED BY <1>13

(* Each of them lies where those before it end.                            *)
Starts(start, seqs, n) == /\ start \in [1..(n + 1) -> Nat] /\ start[1] = 0
                          /\ \A i \in 1..n : start[i + 1] = start[i] + Len(seqs[i])

LEMMA Layout ==
  ASSUME NEW S, NEW n \in Nat \ {0}, NEW seqs \in [1..n -> Seq(S)],
         NEW start, Starts(start, seqs, n)
  PROVE  /\ FlattenSeq(seqs) \in Seq(S)
         /\ Len(FlattenSeq(seqs)) = start[n + 1]
         /\ \A i \in 1..n : At(FlattenSeq(seqs), start[i], seqs[i])
<1>1. PICK f : Flattens(f, seqs, n, S)
  BY FlattenSteps
<1> DEFINE Before(m) == /\ Len(f[m + 1]) = start[m + 2]
                        /\ \A i \in 1..(m + 1) : /\ At(f[m + 1], start[i], seqs[i])
                                                 /\ start[i] + Len(seqs[i]) <= Len(f[m + 1])
           T == {m \in 0..(n - 1) : Before(m)}
<1>2. 0 \in T
  <2>1. f[1] = seqs[1] /\ seqs[1] \in Seq(S) /\ start[1] = 0 /\ start[1 + 1] = start[1] + Len(seqs[1])
    BY <1>1 DEF Flattens, Starts
  <2>2. At(seqs[1], 0, seqs[1])
    BY <2>1 DEF At
  <2>3. 0 + Len(seqs[1]) = Len(seqs[1]) /\ Len(seqs[1]) \in Nat /\ 0 \in 0..(n - 1)
    BY <2>1
  <2> QED BY <2>1, <2>2, <2>3
<1>3. ASSUME NEW m \in 0..((n - 1) - 1), m \in T PROVE m + 1 \in T
  <2>1. /\ m + 2 \in 2..n /\ (m + 2) - 1 = m + 1 /\ m + 2 \in 1..n /\ m + 1 \in 1..n
        /\ m + 1 \in 0..(n - 1) /\ (m + 1) + 1 = m + 2 /\ (m + 1) + 2 = m + 3
        /\ (m + 2) + 1 = m + 3
    OBVIOUS
  <2>2. PICK v \in Seq(S), t \in Seq(S) : v = f[m + 1] /\ t = seqs[m + 2]
    BY <2>1, <1>1 DEF Flattens
  <2>3. f[m + 2] = v \o t
    BY <2>1, <2>2, <1>1 DEF Flattens
  <2>4. Len(v) = start[m + 2] /\ start[m + 3] = start[m + 2] + Len(t)
    <3>1. start[(m + 2) + 1] = start[m + 2] + Len(seqs[m + 2])
      BY <2>1 DEF Starts
    <3> QED BY <3>1, <2>1, <2>2, <1>3
  <2>5. Len(v \o t) = Len(v) + Len(t) /\ At(v \o t, Len(v), t)
    BY ConcatIs
  <2>6. ASSUME NEW i \in 1..(m + 2)
        PROVE  At(v \o t, start[i], seqs[i]) /\ start[i] + Len(seqs[i]) <= Len(v \o t)
    <3>1. CASE i = m + 2
      BY <3>1, <2>2, <2>4, <2>5
    <3>2. CASE i # m + 2
      <4>1. i \in 1..(m + 1) /\ i \in 1..n
        BY <3>2, <2>1
      <4>2. At(v, start[i], seqs[i]) /\ start[i] + Len(seqs[i]) <= Len(v)
        BY <4>1, <1>3, <2>2
      <4>3. PICK r \in Seq(S), p \in Nat : r = seqs[i] /\ p = start[i]
        <5>1. seqs[i] \in Seq(S)
          BY <4>1
        <5>2. start[i] \in Nat
          BY <4>1, SMTT(20) DEF Starts
        <5> QED BY <5>1, <5>2
      <4>4. At(v \o t, p, r)
        BY <4>2, <4>3, AppendingKeeps
      <4>5. p + Len(r) <= Len(v) + Len(t)
        BY <4>2, <4>3
      <4> QED BY <4>3, <4>4, <4>5, <2>5
    <3> QED BY <3>1, <3>2
  <2>7. Before(m + 1)
    BY <2>1, <2>3, <2>4, <2>5, <2>6
  <2> QED BY <2>1, <2>7
<1>4. \A m \in 0..(n - 1) : m \in T
  <2> HIDE DEF T
  <2>1. n - 1 \in Nat
    OBVIOUS
  <2> QED BY <1>2, <1>3, <2>1, IntervalInduction
<1>5. n - 1 \in 0..(n - 1) /\ (n - 1) + 1 = n /\ (n - 1) + 2 = n + 1 /\ n \in 1..n
  OBVIOUS
<1>6. Before(n - 1)
  BY <1>4, <1>5
<1> QED BY <1>1, <1>5, <1>6 DEF Flattens

-----------------------------------------------------------------------------
(* Numbers in a stream.                                                    *)

LEMMA PutU16Is ==
  ASSUME NEW u \in Nat
  PROVE  /\ PutU16(u) \in Seq(Nat) /\ Len(PutU16(u)) = 2
         /\ PutU16(u)[1] * Byte + PutU16(u)[2] = u % U16
<1>1. PICK q \in Nat, r \in 0..(Byte - 1) : q = u \div Byte /\ r = u % Byte /\ u = q * Byte + r
  BY Division, Widths
<1>2. PICK q2 \in Nat, r2 \in 0..(Byte - 1) : r2 = q % Byte /\ q = q2 * Byte + r2
  BY Division, Widths
<1>3. r2 * Byte + r \in 0..(U16 - 1)
  <2>1. (Byte - 1) * Byte = U16 - Byte
    BY Widths
  <2>2. r2 * Byte <= (Byte - 1) * Byte /\ r2 * Byte \in Nat
    BY Widths, ProductsGrow
  <2>3. PICK p \in Nat : p = r2 * Byte /\ p <= U16 - Byte
    BY <2>1, <2>2, Zenon
  <2>4. p + r \in 0..(U16 - 1)
    BY <2>3, Widths
  <2> QED BY <2>3, <2>4
<1>4. u = q2 * U16 + (r2 * Byte + r)
  <2>1. (q2 * Byte + r2) * Byte = q2 * (Byte * Byte) + r2 * Byte
    BY Widths
  <2>2. u = (q2 * U16 + r2 * Byte) + r
    BY <2>1, <1>1, <1>2, Widths, Zenon
  <2>3. \A a, b \in Int : (a + b) + r = a + (b + r)
    OBVIOUS
  <2>4. q2 * U16 \in Int /\ r2 * Byte \in Int
    BY Widths
  <2> QED BY <2>2, <2>3, <2>4, Zenon
<1>5. u % U16 = r2 * Byte + r
  <2>1. U16 \in Nat \ {0}
    BY Widths
  <2>2. PICK m \in 0..(U16 - 1) : m = r2 * Byte + r
    BY <1>3
  <2>3. (q2 * U16 + m) % U16 = m
    BY <2>1, <2>2, DivisionIsUnique
  <2> QED BY <2>2, <2>3, <1>4
<1>6. PutU16(u) = <<r2, r>>
  BY <1>1, <1>2 DEF PutU16
<1> QED BY <1>5, <1>6, Widths

LEMMA TwoAndTwo ==
  ASSUME NEW S, NEW x \in Seq(S), NEW y \in Seq(S), Len(x) = 2, Len(y) = 2
  PROVE  /\ x \o y \in Seq(S) /\ Len(x \o y) = 4
         /\ (x \o y)[1] = x[1] /\ (x \o y)[2] = x[2]
         /\ (x \o y)[3] = y[1] /\ (x \o y)[4] = y[2]
<1>1. PICK z : z = x \o y
  OBVIOUS
<1>2. /\ z \in Seq(S) /\ Len(z) = Len(x) + Len(y) /\ At(z, 0, x) /\ At(z, Len(x), y)
  BY <1>1, ConcatIs
<1>3. z[0 + 1] = x[1] /\ z[0 + 2] = x[2]
  BY <1>2 DEF At
<1>4. z[2 + 1] = y[1] /\ z[2 + 2] = y[2]
  BY <1>2 DEF At
<1>5. z \in Seq(S) /\ Len(z) = 4 /\ z[1] = x[1] /\ z[2] = x[2] /\ z[3] = y[1] /\ z[4] = y[2]
  BY <1>2, <1>3, <1>4
<1> QED BY <1>1, <1>5, Zenon

LEMMA PutU32Is ==
  ASSUME NEW u \in 0..(U32 - 1)
  PROVE  /\ PutU32(u) \in Seq(Nat) /\ Len(PutU32(u)) = 4
         /\ (PutU32(u)[1] * Byte + PutU32(u)[2]) * U16 + (PutU32(u)[3] * Byte + PutU32(u)[4]) = u
<1>1. u \in Nat /\ U16 \in Nat \ {0} /\ u < U16 * U16
  BY Widths
<1>2. PICK hi \in Nat, lo \in 0..(U16 - 1) :
        hi = u \div U16 /\ lo = u % U16 /\ u = hi * U16 + lo /\ hi < U16
  BY <1>1, Division, QuotientBelow
<1>3. hi % U16 = hi
  <2>1. hi \in 0..(U16 - 1)
    BY <1>1, <1>2
  <2> QED BY <2>1, <1>1, SmallRemainder
<1>4. /\ PutU16(hi) \in Seq(Nat) /\ Len(PutU16(hi)) = 2
      /\ PutU16(hi)[1] * Byte + PutU16(hi)[2] = hi
  BY <1>3, PutU16Is
<1>5. /\ PutU16(u) \in Seq(Nat) /\ Len(PutU16(u)) = 2
      /\ PutU16(u)[1] * Byte + PutU16(u)[2] = lo
  BY <1>1, <1>2, PutU16Is
<1>6. PutU32(u) = PutU16(hi) \o PutU16(u)
  BY <1>2 DEF PutU32
<1>7. /\ PutU32(u) \in Seq(Nat) /\ Len(PutU32(u)) = 4
      /\ PutU32(u)[1] = PutU16(hi)[1] /\ PutU32(u)[2] = PutU16(hi)[2]
      /\ PutU32(u)[3] = PutU16(u)[1] /\ PutU32(u)[4] = PutU16(u)[2]
  <2>0. PICK S : S = Nat
    OBVIOUS
  <2>1. PICK x \in Seq(S), y \in Seq(S) : /\ x = PutU16(hi) /\ y = PutU16(u)
                                         /\ Len(x) = 2 /\ Len(y) = 2
    BY <2>0, <1>4, <1>5
  <2>2. PICK z : z = PutU32(u)
    OBVIOUS
  <2>4. z = x \o y
    BY <2>1, <2>2, <1>6
  <2>9. Len(x) = 2 /\ Len(y) = 2
    BY <2>1, Zenon
  <2>3. z \in Seq(S) /\ Len(z) = 4 /\ z[1] = x[1] /\ z[2] = x[2] /\ z[3] = y[1] /\ z[4] = y[2]
    <3>1. /\ x \o y \in Seq(S) /\ Len(x \o y) = 4
          /\ (x \o y)[1] = x[1] /\ (x \o y)[2] = x[2]
          /\ (x \o y)[3] = y[1] /\ (x \o y)[4] = y[2]
      BY <2>9, TwoAndTwo
    <3> QED BY <3>1, <2>4, Zenon
  <2>5. z \in Seq(Nat)
    BY <2>0, <2>3, Zenon
  <2>6. PutU32(u) \in Seq(Nat) /\ Len(PutU32(u)) = 4
    BY <2>2, <2>3, <2>5, Zenon
  <2>7. PutU32(u)[1] = PutU16(hi)[1] /\ PutU32(u)[2] = PutU16(hi)[2]
    BY <2>1, <2>2, <2>3, Zenon
  <2>8. PutU32(u)[3] = PutU16(u)[1] /\ PutU32(u)[4] = PutU16(u)[2]
    BY <2>1, <2>2, <2>3, Zenon
  <2> QED BY <2>6, <2>7, <2>8
<1>8. PutU32(u)[1] * Byte + PutU32(u)[2] = hi
  BY <1>4, <1>7
<1>9. PutU32(u)[3] * Byte + PutU32(u)[4] = lo
  BY <1>5, <1>7
<1> QED BY <1>2, <1>7, <1>8, <1>9
LEMMA GetU16Is ==
  ASSUME NEW v, NEW p \in Nat, NEW u \in 0..(U16 - 1), At(v, p, PutU16(u))
  PROVE  GetU16(v, p) = u
<1>1. u \in Nat /\ u % U16 = u
  BY Widths, SmallRemainder
<1>2. Len(PutU16(u)) = 2 /\ PutU16(u)[1] * Byte + PutU16(u)[2] = u
  BY <1>1, PutU16Is
<1>3. v[p + 1] = PutU16(u)[1] /\ v[p + 2] = PutU16(u)[2]
  <2>1. 1 \in 1..Len(PutU16(u)) /\ 2 \in 1..Len(PutU16(u))
    BY <1>2
  <2> QED BY <2>1, Zenon DEF At
<1> QED BY <1>2, <1>3 DEF GetU16

LEMMA GetU32Is ==
  ASSUME NEW v, NEW p \in Nat, NEW u \in 0..(U32 - 1), At(v, p, PutU32(u))
  PROVE  GetU32(v, p) = u
<1>1. /\ Len(PutU32(u)) = 4
      /\ (PutU32(u)[1] * Byte + PutU32(u)[2]) * U16 + (PutU32(u)[3] * Byte + PutU32(u)[4]) = u
  BY PutU32Is
<1>2. /\ v[p + 1] = PutU32(u)[1] /\ v[p + 2] = PutU32(u)[2]
      /\ v[p + 3] = PutU32(u)[3] /\ v[p + 4] = PutU32(u)[4]
  <2>1. \A i \in 1..4 : v[p + i] = PutU32(u)[i]
    BY <1>1, Zenon DEF At
  <2> QED BY <2>1
<1>3. GetU16(v, p) = PutU32(u)[1] * Byte + PutU32(u)[2]
  BY <1>2, Zenon DEF GetU16
<1>4. GetU16(v, p + 2) = PutU32(u)[3] * Byte + PutU32(u)[4]
  <2>1. (p + 2) + 1 = p + 3 /\ (p + 2) + 2 = p + 4
    OBVIOUS
  <2> QED BY <2>1, <1>2, Zenon DEF GetU16
<1> QED BY <1>1, <1>3, <1>4, Zenon DEF GetU32
-----------------------------------------------------------------------------
(* The entries of a message in its stream.                                 *)

LEMMA StartsExist ==
  ASSUME NEW S, NEW n \in Nat \ {0}, NEW seqs \in [1..n -> Seq(S)]
  PROVE  \E start : Starts(start, seqs, n)
<1> DEFINE step == [i \in 1..n |-> [x \in Nat |-> x + Len(seqs[i])]]
<1>1. PICK g : Runs(g, n, Nat, 0, step)
  <2>1. \A i \in 1..n : Len(seqs[i]) \in Nat
    <3>1. \A i \in 1..n : seqs[i] \in Seq(S)
      OBVIOUS
    <3> QED BY <3>1
  <2>2. step \in [1..n -> [Nat -> Nat]]
    BY <2>1
  <2> HIDE DEF step
  <2>3. IsRecursion(n, Nat, 0, step)
    BY <2>2 DEF IsRecursion
  <2> QED BY <2>3, Recursion
<1>2. /\ g \in [0..n -> Nat] /\ g[0] = 0
      /\ \A i \in 1..n : g[i] = step[i][g[i - 1]]
  <2> HIDE DEF step
  <2> QED BY <1>1 DEF Runs
<1> DEFINE start == [i \in 1..(n + 1) |-> g[i - 1]]
<1>3. ASSUME NEW i \in 1..n PROVE start[i + 1] = start[i] + Len(seqs[i])
  <2>1. /\ i + 1 \in 1..(n + 1) /\ i \in 1..(n + 1) /\ (i + 1) - 1 = i /\ i - 1 \in 0..n
    OBVIOUS
  <2>2. g[i] = step[i][g[i - 1]] /\ g[i - 1] \in Nat
    <3> HIDE DEF step
    <3> QED BY <1>2, <2>1
  <2>3. g[i] = g[i - 1] + Len(seqs[i])
    BY <2>2
  <2> QED BY <2>1, <2>3
<1>4. start \in [1..(n + 1) -> Nat] /\ start[1] = 0
  <2>1. \A i \in 1..(n + 1) : i - 1 \in 0..n
    OBVIOUS
  <2> QED BY <1>2, <2>1
<1> HIDE DEF start
<1>5. Starts(start, seqs, n)
  BY <1>3, <1>4 DEF Starts
<1> QED BY <1>5

LEMMA PairFirst ==
  ASSUME NEW T, NEW a \in T, NEW b \in T, NEW t \in Seq(T)
  PROVE  /\ <<a, b>> \o t \in [1..(2 + Len(t)) -> T]
         /\ (<<a, b>> \o t)[1] = a /\ (<<a, b>> \o t)[2] = b
         /\ \A i \in 1..Len(t) : (<<a, b>> \o t)[2 + i] = t[i]
<1>1. PICK s \in Seq(T) : s = <<a, b>> /\ Len(s) = 2 /\ s[1] = a /\ s[2] = b
  <2>1. <<a, b>> \in Seq(T)
    OBVIOUS
  <2>2. Len(<<a, b>>) = 2 /\ <<a, b>>[1] = a /\ <<a, b>>[2] = b
    OBVIOUS
  <2> QED BY <2>1, <2>2
<1>2. s \o t \in Seq(T) /\ Len(s \o t) = 2 + Len(t) /\ At(s \o t, 0, s) /\ At(s \o t, 2, t)
  BY <1>1, ConcatIs
<1>3. s \o t \in [1..(2 + Len(t)) -> T]
  <2>1. PICK z \in Seq(T) : z = s \o t /\ Len(z) = 2 + Len(t)
    BY <1>2
  <2>2. z \in [1..Len(z) -> T]
    OBVIOUS
  <2> QED BY <2>1, <2>2
<1>4. (s \o t)[1] = a /\ (s \o t)[2] = b
  <2>1. (s \o t)[0 + 1] = s[1] /\ (s \o t)[0 + 2] = s[2]
    BY <1>1, <1>2 DEF At
  <2> QED BY <2>1, <1>1
<1>5. \A i \in 1..Len(t) : (s \o t)[2 + i] = t[i]
  BY <1>2 DEF At
<1> QED BY <1>1, <1>3, <1>4, <1>5

(* An ACK or a GIVEME: type, length and two fields.                       *)
FourPieces(S, a, b, c, d) == /\ a \in Seq(S) /\ b \in Seq(S) /\ c \in Seq(S) /\ d \in Seq(S)
                             /\ Len(a) = 1 /\ Len(b) = 4

LEMMA FourParts ==
  ASSUME NEW S, NEW a, NEW b, NEW c, NEW d, FourPieces(S, a, b, c, d)
  PROVE  \E v : /\ v = FlattenSeq(<<a, b>> \o <<c, d>>)
              /\ v \in Seq(S) /\ Len(v) = 5 + Len(c) + Len(d)
              /\ At(v, 0, a) /\ At(v, 1, b) /\ At(v, 5, c) /\ At(v, 5 + Len(c), d)
<1>1. PICK seqs : seqs = <<a, b>> \o <<c, d>>
  OBVIOUS
<1>2. /\ a \in Seq(S) /\ b \in Seq(S) /\ c \in Seq(S) /\ d \in Seq(S)
  BY DEF FourPieces
<1>3. /\ Len(a) = 1 /\ Len(b) = 4
  BY DEF FourPieces
<1>4. /\ seqs \in [1..4 -> Seq(S)]
      /\ seqs[1] = a /\ seqs[2] = b /\ seqs[3] = c /\ seqs[4] = d
  <2>1. PICK T : /\ T = Seq(S)
                 /\ a \in T /\ b \in T /\ c \in T /\ d \in T
    BY <1>2
  <2>2. PICK t \in Seq(T) : /\ t = <<c, d>> /\ Len(t) = 2
                            /\ t[1] = c /\ t[2] = d
    <3>1. <<c, d>> \in Seq(T)
      BY <2>1
    <3>2. Len(<<c, d>>) = 2
      OBVIOUS
    <3>3. /\ <<c, d>>[1] = c /\ <<c, d>>[2] = d
      OBVIOUS
    <3> QED BY <3>1, <3>2, <3>3
  <2>3. /\ <<a, b>> \o t \in [1..(2 + Len(t)) -> T]
        /\ (<<a, b>> \o t)[1] = a /\ (<<a, b>> \o t)[2] = b
        /\ \A i \in 1..Len(t) : (<<a, b>> \o t)[2 + i] = t[i]
    BY <2>1, PairFirst, SMTT(20)
  <2>4. /\ seqs[2 + 1] = t[1] /\ seqs[2 + 2] = t[2]
    BY <1>1, <2>2, <2>3
  <2> QED BY <1>1, <2>1, <2>2, <2>3, <2>4
<1>5. 4 \in Nat \ {0} /\ seqs \in [1..4 -> Seq(S)]
  <2>1. 4 \in Nat \ {0}
    OBVIOUS
  <2> QED BY <2>1, <1>4, Zenon
<1>6. PICK start : Starts(start, seqs, 4)
  BY <1>5, StartsExist
<1>7. PICK v : v = FlattenSeq(seqs)
  OBVIOUS
<1>8. /\ v \in Seq(S) /\ Len(v) = start[4 + 1]
      /\ \A i \in 1..4 : At(v, start[i], seqs[i])
  BY <1>5, <1>6, <1>7, Layout
<1>9. /\ At(v, start[1], a) /\ At(v, start[2], b) /\ At(v, start[3], c)
      /\ At(v, start[4], d)
  BY <1>4, <1>8
<1>10. /\ start[1] = 0
       /\ start[2] = start[1] + Len(a) /\ start[3] = start[2] + Len(b)
       /\ start[4] = start[3] + Len(c) /\ start[5] = start[4] + Len(d)
  <2>1. start[1] = 0 /\ \A i \in 1..4 : start[i + 1] = start[i] + Len(seqs[i])
    BY <1>6 DEF Starts
  <2>2. /\ start[1 + 1] = start[1] + Len(seqs[1]) /\ start[2 + 1] = start[2] + Len(seqs[2])
        /\ start[3 + 1] = start[3] + Len(seqs[3]) /\ start[4 + 1] = start[4] + Len(seqs[4])
    BY <2>1
  <2> QED BY <1>4, <2>1, <2>2
<1>11. /\ start[1] = 0 /\ start[2] = 1 /\ start[3] = 5
       /\ start[4] = 5 + Len(c) /\ start[5] = 5 + Len(c) + Len(d)
  <2>1. Len(c) \in Nat /\ Len(d) \in Nat
    BY <1>2
  <2> QED BY <1>3, <1>10, <2>1
<1>12. v \in Seq(S) /\ Len(v) = 5 + Len(c) + Len(d)
  BY <1>8, <1>11
<1>13. /\ At(v, 0, a) /\ At(v, 1, b) /\ At(v, 5, c) /\ At(v, 5 + Len(c), d)
  BY <1>9, <1>11
<1>14. v = FlattenSeq(<<a, b>> \o <<c, d>>)
  BY <1>1, <1>7
<1> QED BY <1>12, <1>13, <1>14

(* A FILE or an END.                                                      *)
SixPieces(S, a, b, c, d, e, f) == /\ a \in Seq(S) /\ b \in Seq(S) /\ c \in Seq(S) /\ d \in Seq(S)
                                  /\ e \in Seq(S) /\ f \in Seq(S)
                                  /\ Len(a) = 1 /\ Len(b) = 4 /\ Len(c) = 4 /\ Len(d) = 2
                                  /\ Len(e) = 4

LEMMA SixParts ==
  ASSUME NEW S, NEW a, NEW b, NEW c, NEW d, NEW e, NEW f, SixPieces(S, a, b, c, d, e, f)
  PROVE  \E v : /\ v = FlattenSeq(<<a, b>> \o <<c, d, e, f>>)
              /\ v \in Seq(S) /\ Len(v) = 15 + Len(f)
              /\ At(v, 0, a) /\ At(v, 1, b) /\ At(v, 5, c) /\ At(v, 9, d)
              /\ At(v, 11, e) /\ At(v, 15, f)
<1>1. PICK seqs : seqs = <<a, b>> \o <<c, d, e, f>>
  OBVIOUS
<1>2. /\ a \in Seq(S) /\ b \in Seq(S) /\ c \in Seq(S) /\ d \in Seq(S)
      /\ e \in Seq(S) /\ f \in Seq(S)
  BY DEF SixPieces
<1>3. /\ Len(a) = 1 /\ Len(b) = 4 /\ Len(c) = 4 /\ Len(d) = 2
      /\ Len(e) = 4
  BY DEF SixPieces
<1>4. /\ seqs \in [1..6 -> Seq(S)]
      /\ seqs[1] = a /\ seqs[2] = b /\ seqs[3] = c /\ seqs[4] = d
      /\ seqs[5] = e /\ seqs[6] = f
  <2>1. PICK T : /\ T = Seq(S)
                 /\ a \in T /\ b \in T /\ c \in T /\ d \in T /\ e \in T /\ f \in T
    BY <1>2
  <2>2. PICK t \in Seq(T) : /\ t = <<c, d, e, f>> /\ Len(t) = 4
                            /\ t[1] = c /\ t[2] = d /\ t[3] = e /\ t[4] = f
    <3>1. <<c, d, e, f>> \in Seq(T)
      BY <2>1
    <3>2. Len(<<c, d, e, f>>) = 4
      OBVIOUS
    <3>3. /\ <<c, d, e, f>>[1] = c /\ <<c, d, e, f>>[2] = d
          /\ <<c, d, e, f>>[3] = e /\ <<c, d, e, f>>[4] = f
      OBVIOUS
    <3> QED BY <3>1, <3>2, <3>3
  <2>3. /\ <<a, b>> \o t \in [1..(2 + Len(t)) -> T]
        /\ (<<a, b>> \o t)[1] = a /\ (<<a, b>> \o t)[2] = b
        /\ \A i \in 1..Len(t) : (<<a, b>> \o t)[2 + i] = t[i]
    BY <2>1, PairFirst, SMTT(20)
  <2>4. /\ seqs[2 + 1] = t[1] /\ seqs[2 + 2] = t[2] /\ seqs[2 + 3] = t[3]
        /\ seqs[2 + 4] = t[4]
    BY <1>1, <2>2, <2>3
  <2> QED BY <1>1, <2>1, <2>2, <2>3, <2>4
<1>5. 6 \in Nat \ {0} /\ seqs \in [1..6 -> Seq(S)]
  <2>1. 6 \in Nat \ {0}
    OBVIOUS
  <2> QED BY <2>1, <1>4, Zenon
<1>6. PICK start : Starts(start, seqs, 6)
  BY <1>5, StartsExist
<1>7. PICK v : v = FlattenSeq(seqs)
  OBVIOUS
<1>8. /\ v \in Seq(S) /\ Len(v) = start[6 + 1]
      /\ \A i \in 1..6 : At(v, start[i], seqs[i])
  BY <1>5, <1>6, <1>7, Layout
<1>9. /\ At(v, start[1], a) /\ At(v, start[2], b) /\ At(v, start[3], c)
      /\ At(v, start[4], d) /\ At(v, start[5], e) /\ At(v, start[6], f)
  BY <1>4, <1>8
<1>10. /\ start[1] = 0
       /\ start[2] = start[1] + Len(a) /\ start[3] = start[2] + Len(b)
       /\ start[4] = start[3] + Len(c) /\ start[5] = start[4] + Len(d)
       /\ start[6] = start[5] + Len(e) /\ start[7] = start[6] + Len(f)
  <2>1. start[1] = 0 /\ \A i \in 1..6 : start[i + 1] = start[i] + Len(seqs[i])
    BY <1>6 DEF Starts
  <2>2. /\ start[1 + 1] = start[1] + Len(seqs[1]) /\ start[2 + 1] = start[2] + Len(seqs[2])
        /\ start[3 + 1] = start[3] + Len(seqs[3]) /\ start[4 + 1] = start[4] + Len(seqs[4])
        /\ start[5 + 1] = start[5] + Len(seqs[5]) /\ start[6 + 1] = start[6] + Len(seqs[6])
    BY <2>1
  <2> QED BY <1>4, <2>1, <2>2
<1>11. /\ start[1] = 0 /\ start[2] = 1 /\ start[3] = 5
       /\ start[4] = 9 /\ start[5] = 11 /\ start[6] = 15
       /\ start[7] = 15 + Len(f)
  <2>1. Len(f) \in Nat
    BY <1>2
  <2> QED BY <1>3, <1>10, <2>1
<1>12. v \in Seq(S) /\ Len(v) = 15 + Len(f)
  BY <1>8, <1>11
<1>13. /\ At(v, 0, a) /\ At(v, 1, b) /\ At(v, 5, c) /\ At(v, 9, d)
       /\ At(v, 11, e) /\ At(v, 15, f)
  BY <1>9, <1>11
<1>14. v = FlattenSeq(<<a, b>> \o <<c, d, e, f>>)
  BY <1>1, <1>7
<1> QED BY <1>12, <1>13, <1>14

(* A HELLO.                                                               *)
SevenPieces(S, a, b, c, d, e, f, g) == /\ a \in Seq(S) /\ b \in Seq(S) /\ c \in Seq(S) /\ d \in Seq(S)
                                       /\ e \in Seq(S) /\ f \in Seq(S) /\ g \in Seq(S)
                                       /\ Len(a) = 1 /\ Len(b) = 4 /\ Len(c) = 1 /\ Len(d) = 2
                                       /\ Len(e) = 2 /\ Len(g) = 4

LEMMA SevenParts ==
  ASSUME NEW S, NEW a, NEW b, NEW c, NEW d, NEW e, NEW f, NEW g, SevenPieces(S, a, b, c, d, e, f, g)
  PROVE  \E v : /\ v = FlattenSeq(<<a, b>> \o <<c, d, e, f, g>>)
              /\ v \in Seq(S) /\ Len(v) = 14 + Len(f)
              /\ At(v, 0, a) /\ At(v, 1, b) /\ At(v, 5, c) /\ At(v, 6, d)
              /\ At(v, 8, e) /\ At(v, 10, f) /\ At(v, 10 + Len(f), g)
<1>1. PICK seqs : seqs = <<a, b>> \o <<c, d, e, f, g>>
  OBVIOUS
<1>2. /\ a \in Seq(S) /\ b \in Seq(S) /\ c \in Seq(S) /\ d \in Seq(S)
      /\ e \in Seq(S) /\ f \in Seq(S) /\ g \in Seq(S)
  BY DEF SevenPieces
<1>3. /\ Len(a) = 1 /\ Len(b) = 4 /\ Len(c) = 1 /\ Len(d) = 2
      /\ Len(e) = 2 /\ Len(g) = 4
  BY DEF SevenPieces
<1>4. /\ seqs \in [1..7 -> Seq(S)]
      /\ seqs[1] = a /\ seqs[2] = b /\ seqs[3] = c /\ seqs[4] = d
      /\ seqs[5] = e /\ seqs[6] = f /\ seqs[7] = g
  <2>1. PICK T : /\ T = Seq(S)
                 /\ a \in T /\ b \in T /\ c \in T /\ d \in T /\ e \in T /\ f \in T /\ g \in T
    BY <1>2
  <2>2. PICK t \in Seq(T) : /\ t = <<c, d, e, f, g>> /\ Len(t) = 5
                            /\ t[1] = c /\ t[2] = d /\ t[3] = e /\ t[4] = f /\ t[5] = g
    <3>1. <<c, d, e, f, g>> \in Seq(T)
      BY <2>1
    <3>2. Len(<<c, d, e, f, g>>) = 5
      OBVIOUS
    <3>3. /\ <<c, d, e, f, g>>[1] = c /\ <<c, d, e, f, g>>[2] = d
          /\ <<c, d, e, f, g>>[3] = e /\ <<c, d, e, f, g>>[4] = f
          /\ <<c, d, e, f, g>>[5] = g
      OBVIOUS
    <3> QED BY <3>1, <3>2, <3>3
  <2>3. /\ <<a, b>> \o t \in [1..(2 + Len(t)) -> T]
        /\ (<<a, b>> \o t)[1] = a /\ (<<a, b>> \o t)[2] = b
        /\ \A i \in 1..Len(t) : (<<a, b>> \o t)[2 + i] = t[i]
    BY <2>1, PairFirst, SMTT(20)
  <2>4. /\ seqs[2 + 1] = t[1] /\ seqs[2 + 2] = t[2] /\ seqs[2 + 3] = t[3]
        /\ seqs[2 + 4] = t[4] /\ seqs[2 + 5] = t[5]
    BY <1>1, <2>2, <2>3
  <2> QED BY <1>1, <2>1, <2>2, <2>3, <2>4
<1>5. 7 \in Nat \ {0} /\ seqs \in [1..7 -> Seq(S)]
  <2>1. 7 \in Nat \ {0}
    OBVIOUS
  <2> QED BY <2>1, <1>4, Zenon
<1>6. PICK start : Starts(start, seqs, 7)
  BY <1>5, StartsExist
<1>7. PICK v : v = FlattenSeq(seqs)
  OBVIOUS
<1>8. /\ v \in Seq(S) /\ Len(v) = start[7 + 1]
      /\ \A i \in 1..7 : At(v, start[i], seqs[i])
  BY <1>5, <1>6, <1>7, Layout
<1>9. /\ At(v, start[1], a) /\ At(v, start[2], b) /\ At(v, start[3], c)
      /\ At(v, start[4], d) /\ At(v, start[5], e) /\ At(v, start[6], f)
      /\ At(v, start[7], g)
  BY <1>4, <1>8
<1>10. /\ start[1] = 0
       /\ start[2] = start[1] + Len(a) /\ start[3] = start[2] + Len(b)
       /\ start[4] = start[3] + Len(c) /\ start[5] = start[4] + Len(d)
       /\ start[6] = start[5] + Len(e) /\ start[7] = start[6] + Len(f)
       /\ start[8] = start[7] + Len(g)
  <2>1. start[1] = 0 /\ \A i \in 1..7 : start[i + 1] = start[i] + Len(seqs[i])
    BY <1>6 DEF Starts
  <2>2. /\ start[1 + 1] = start[1] + Len(seqs[1]) /\ start[2 + 1] = start[2] + Len(seqs[2])
        /\ start[3 + 1] = start[3] + Len(seqs[3]) /\ start[4 + 1] = start[4] + Len(seqs[4])
        /\ start[5 + 1] = start[5] + Len(seqs[5]) /\ start[6 + 1] = start[6] + Len(seqs[6])
        /\ start[7 + 1] = start[7] + Len(seqs[7])
    BY <2>1
  <2> QED BY <1>4, <2>1, <2>2
<1>11. /\ start[1] = 0 /\ start[2] = 1 /\ start[3] = 5
       /\ start[4] = 6 /\ start[5] = 8 /\ start[6] = 10
       /\ start[7] = 10 + Len(f) /\ start[8] = 14 + Len(f)
  <2>1. Len(f) \in Nat
    BY <1>2
  <2> QED BY <1>3, <1>10, <2>1
<1>12. v \in Seq(S) /\ Len(v) = 14 + Len(f)
  BY <1>8, <1>11
<1>13. /\ At(v, 0, a) /\ At(v, 1, b) /\ At(v, 5, c) /\ At(v, 6, d)
       /\ At(v, 8, e) /\ At(v, 10, f) /\ At(v, 10 + Len(f), g)
  BY <1>9, <1>11
<1>14. v = FlattenSeq(<<a, b>> \o <<c, d, e, f, g>>)
  BY <1>1, <1>7
<1> QED BY <1>12, <1>13, <1>14

-----------------------------------------------------------------------------
(* What each message says to the side that decodes it.                     *)

HelloOf(i, b, s, h) ==
  [Blank EXCEPT !.type = HELLO, !.id = i, !.blocks = b, !.name = s, !.hash = h]

LEMMA HelloShape ==
  ASSUME NEW i, NEW b, NEW s, NEW h
  PROVE  /\ HelloOf(i, b, s, h).type = 1 /\ Length(HelloOf(i, b, s, h)) = 14 + Len(s)
         /\ Body(HelloOf(i, b, s, h)) =
              <<<<i>>, PutU16(b), PutU16(Len(s)), s, PutU32(h)>>
<1>1. PICK m : m = HelloOf(i, b, s, h)
  OBVIOUS
<1>2. m.type = 1 /\ m.id = i /\ m.blocks = b /\ m.name = s /\ m.hash = h
  BY <1>1 DEF HelloOf, Blank, HELLO
<1>3. Length(m) = 14 + Len(s)
  BY <1>2 DEF Length, HELLO, ACK, FILE, END, GIVEME
<1>4. Body(m) = <<<<m.id>>, PutU16(m.blocks), PutU16(Len(m.name)), m.name, PutU32(m.hash)>>
  BY <1>2 DEF Body, HELLO, ACK, FILE, END, GIVEME
<1> QED BY <1>1, <1>2, <1>3, <1>4, Zenon

LEMMA HelloDecoded ==
  ASSUME NEW v, NEW n, v[1] = 1, ~(Len(v) < 6 \/ GetU32(v, 1) # Len(v)), GetU16(v, 8) = n
  PROVE  Decode(v) = HelloOf(v[6], GetU16(v, 6), SubSeq(v, 11, 10 + n), GetU32(v, 10 + n))
<1>1. /\ v[1] = HELLO /\ v[1] # ACK /\ v[1] \notin {FILE, END} /\ v[1] # GIVEME
  BY DEF HELLO, ACK, FILE, END, GIVEME
<1>2. Decode(v) = LET q == [Blank EXCEPT !.type = v[1]]
                      k == GetU16(v, 8)
                  IN [q EXCEPT !.id = v[6], !.blocks = GetU16(v, 6),
                               !.name = SubSeq(v, 11, 10 + k), !.hash = GetU32(v, 10 + k)]
  BY <1>1 DEF Decode
<1> QED BY <1>1, <1>2 DEF HelloOf, Blank

LEMMA OneByte ==
  ASSUME NEW i \in Nat
  PROVE  <<i>> \in Seq(Nat) /\ Len(<<i>>) = 1 /\ <<i>>[1] = i
<1>1. <<i>> \in Seq(Nat)
  OBVIOUS
<1>2. Len(<<i>>) = 1 /\ <<i>>[1] = i
  OBVIOUS
<1> QED BY <1>1, <1>2
LEMMA FirstOfOne ==
  ASSUME NEW v, NEW i \in Nat
  PROVE  /\ At(v, 0, <<i>>) => v[1] = i
         /\ At(v, 5, <<i>>) => v[6] = i
<1>1. Len(<<i>>) = 1 /\ <<i>>[1] = i
  BY OneByte
<1> QED BY <1>1 DEF At
LEMMA HelloSaid ==
  ASSUME NEW i \in Nat, NEW b \in 0..(U16 - 1), NEW s \in Seq(Nat), Len(s) < U16,
         NEW h \in 0..(U32 - 1), NEW m, Encode(m) # <<>>,
         m = HelloOf(i, b, s, h)
  PROVE  Decode(Encode(m)) = m
<1>1. PICK n \in 0..(U16 - 1) : n = Len(s)
  <2>1. Len(s) \in Nat
    BY LenProperties
  <2> QED BY <2>1, Widths
<1>2. /\ m.type = 1 /\ Length(m) = 14 + n
      /\ Body(m) = <<<<i>>, PutU16(b), PutU16(n), s, PutU32(h)>>
  <2>1. /\ m.type = 1 /\ Length(m) = 14 + Len(s)
        /\ Body(m) = <<<<i>>, PutU16(b), PutU16(Len(s)), s, PutU32(h)>>
    BY HelloShape
  <2> QED BY <2>1, <1>1
<1>3. Encode(m) = FlattenSeq(<<<<1>>, PutU32(14 + n)>>
                             \o <<<<i>>, PutU16(b), PutU16(n), s, PutU32(h)>>)
  <2>1. Encode(m) = FlattenSeq(<<<<m.type>>, PutU32(Length(m))>> \o Body(m))
    BY DEF Encode
  <2> QED BY <2>1, <1>2, Zenon
<1>4. /\ 14 + n \in 0..(U32 - 1) /\ n \in Nat /\ b \in Nat /\ 10 + n \in Nat
      /\ 10 + n <= 14 + n /\ ~(14 + n < 6)
  <2>1. U16 \in Nat /\ U32 \in Nat /\ U16 >= 9 /\ U32 >= 9 * U16
    BY Widths
  <2>2. PICK w \in Nat, w2 \in Nat : w = U16 /\ w2 = U32 /\ w >= 9 /\ w2 >= 9 * w
    BY <2>1
  <2>3. n \in 0..(w - 1) /\ b \in 0..(w - 1)
    BY <2>2
  <2>4. 14 + n \in 0..(w2 - 1)
    BY <2>2, <2>3
  <2> QED BY <2>2, <2>3, <2>4
<1>5. SevenPieces(Nat, <<1>>, PutU32(14 + n), <<i>>, PutU16(b), PutU16(n), s, PutU32(h))
  <2>1. /\ PutU32(14 + n) \in Seq(Nat) /\ Len(PutU32(14 + n)) = 4
        /\ PutU32(h) \in Seq(Nat) /\ Len(PutU32(h)) = 4
    BY <1>4, PutU32Is
  <2>2. /\ PutU16(b) \in Seq(Nat) /\ Len(PutU16(b)) = 2
        /\ PutU16(n) \in Seq(Nat) /\ Len(PutU16(n)) = 2
    BY <1>4, PutU16Is
  <2>3. <<1>> \in Seq(Nat) /\ Len(<<1>>) = 1 /\ <<i>> \in Seq(Nat) /\ Len(<<i>>) = 1
    BY OneByte
  <2> QED BY <2>1, <2>2, <2>3, Zenon DEF SevenPieces
<1>6. PICK v :
        /\ v = Encode(m) /\ v \in Seq(Nat) /\ Len(v) = 14 + Len(s)
        /\ At(v, 0, <<1>>) /\ At(v, 1, PutU32(14 + n)) /\ At(v, 5, <<i>>) /\ At(v, 6, PutU16(b))
        /\ At(v, 8, PutU16(n)) /\ At(v, 10, s) /\ At(v, 10 + Len(s), PutU32(h))
  <2>1. \E v : /\ v = FlattenSeq(<<<<1>>, PutU32(14 + n)>>
                                \o <<<<i>>, PutU16(b), PutU16(n), s, PutU32(h)>>)
              /\ v \in Seq(Nat) /\ Len(v) = 14 + Len(s)
              /\ At(v, 0, <<1>>) /\ At(v, 1, PutU32(14 + n))
              /\ At(v, 5, <<i>>) /\ At(v, 6, PutU16(b))
              /\ At(v, 8, PutU16(n)) /\ At(v, 10, s) /\ At(v, 10 + Len(s), PutU32(h))
    BY <1>5, SevenParts
  <2> QED BY <2>1, <1>3, Zenon
<1>7. v[1] = 1 /\ v[6] = i
  BY <1>6, FirstOfOne
<1>8. GetU32(v, 1) = 14 + n /\ GetU32(v, 10 + n) = h
  <2>1. 1 \in Nat
    OBVIOUS
  <2> QED BY <2>1, <1>1, <1>4, <1>6, GetU32Is, Zenon
<1>9. GetU16(v, 6) = b /\ GetU16(v, 8) = n
  <2>1. 6 \in Nat /\ 8 \in Nat
    OBVIOUS
  <2> QED BY <2>1, <1>6, GetU16Is, Zenon
<1>10. SubSeq(v, 11, 10 + n) = s
  <2>1. 10 \in Nat /\ 10 + 1 = 11
    OBVIOUS
  <2>2. 10 + Len(s) <= Len(v)
    BY <1>1, <1>4, <1>6
  <2>3. SubSeq(v, 10 + 1, 10 + Len(s)) = s
    BY <2>1, <2>2, <1>6, SubSeqAt, Zenon
  <2> QED BY <2>1, <2>3, <1>1
<1>11. ~(Len(v) < 6 \/ GetU32(v, 1) # Len(v))
  BY <1>1, <1>4, <1>6, <1>8
<1>12. Decode(v) = HelloOf(i, b, s, h)
  BY <1>7, <1>8, <1>9, <1>10, <1>11, HelloDecoded, Zenon
<1> QED BY <1>6, <1>12, Zenon
AckOf(i, f) == [Blank EXCEPT !.type = ACK, !.id = i, !.fileid = f]

LEMMA AckShape ==
  ASSUME NEW i, NEW f
  PROVE  /\ AckOf(i, f).type = 2 /\ Length(AckOf(i, f)) = 10
         /\ Body(AckOf(i, f)) = <<<<i>>, PutU32(f)>>
<1>1. PICK m : m = AckOf(i, f)
  OBVIOUS
<1>2. m.type = 2 /\ m.id = i /\ m.fileid = f
  BY <1>1 DEF AckOf, Blank, ACK
<1>3. Length(m) = 10
  BY <1>2 DEF Length, HELLO, ACK, FILE, END, GIVEME
<1>4. Body(m) = <<<<m.id>>, PutU32(m.fileid)>>
  BY <1>2 DEF Body, HELLO, ACK, FILE, END, GIVEME
<1> QED BY <1>1, <1>2, <1>3, <1>4, Zenon

LEMMA AckDecoded ==
  ASSUME NEW v, v[1] = 2, ~(Len(v) < 6 \/ GetU32(v, 1) # Len(v))
  PROVE  Decode(v) = AckOf(v[6], GetU32(v, 6))
<1>1. v[1] # HELLO /\ v[1] = ACK /\ v[1] \notin {FILE, END} /\ v[1] # GIVEME
  BY DEF HELLO, ACK, FILE, END, GIVEME
<1>2. Decode(v) = LET q == [Blank EXCEPT !.type = v[1]]
                  IN [q EXCEPT !.id = v[6], !.fileid = GetU32(v, 6)]
  BY <1>1 DEF Decode
<1> QED BY <1>1, <1>2 DEF AckOf, Blank

LEMMA AckSaid ==
  ASSUME NEW i \in Nat, NEW f \in 0..(U32 - 1), NEW m, m = AckOf(i, f), Encode(m) # <<>>
  PROVE  Decode(Encode(m)) = m
<1>1. 10 \in 0..(U32 - 1)
  <2>1. PICK w \in Nat, w2 \in Nat : w = U16 /\ w2 = U32 /\ w >= 9 /\ w2 >= 9 * w
    BY Widths
  <2> QED BY <2>1
<1>2. m.type = 2 /\ Length(m) = 10 /\ Body(m) = <<<<i>>, PutU32(f)>>
  BY AckShape
<1>3. Encode(m) = FlattenSeq(<<<<2>>, PutU32(10)>> \o <<<<i>>, PutU32(f)>>)
  <2>1. Encode(m) = FlattenSeq(<<<<m.type>>, PutU32(Length(m))>> \o Body(m))
    BY DEF Encode
  <2> QED BY <2>1, <1>2, Zenon
<1>4. /\ <<i>> \in Seq(Nat) /\ Len(<<i>>) = 1 /\ PutU32(f) \in Seq(Nat) /\ Len(PutU32(f)) = 4
      /\ FourPieces(Nat, <<2>>, PutU32(10), <<i>>, PutU32(f))
  <2>1. /\ PutU32(10) \in Seq(Nat) /\ Len(PutU32(10)) = 4
        /\ PutU32(f) \in Seq(Nat) /\ Len(PutU32(f)) = 4
    BY <1>1, PutU32Is
  <2>2. <<2>> \in Seq(Nat) /\ Len(<<2>>) = 1 /\ <<i>> \in Seq(Nat) /\ Len(<<i>>) = 1
    BY OneByte
  <2> QED BY <2>1, <2>2, Zenon DEF FourPieces
<1>5. PICK v :
        /\ v = Encode(m) /\ v \in Seq(Nat) /\ Len(v) = 5 + Len(<<i>>) + Len(PutU32(f))
        /\ At(v, 0, <<2>>) /\ At(v, 1, PutU32(10)) /\ At(v, 5, <<i>>)
        /\ At(v, 5 + Len(<<i>>), PutU32(f))
  <2>1. \E v : /\ v = FlattenSeq(<<<<2>>, PutU32(10)>> \o <<<<i>>, PutU32(f)>>)
               /\ v \in Seq(Nat) /\ Len(v) = 5 + Len(<<i>>) + Len(PutU32(f))
               /\ At(v, 0, <<2>>) /\ At(v, 1, PutU32(10)) /\ At(v, 5, <<i>>)
               /\ At(v, 5 + Len(<<i>>), PutU32(f))
    BY <1>4, FourParts
  <2> QED BY <2>1, <1>3, Zenon
<1>6. Len(v) = 10 /\ At(v, 6, PutU32(f))
  <2>1. 5 + 1 = 6 /\ 6 + 4 = 10
    OBVIOUS
  <2> QED BY <2>1, <1>4, <1>5, Zenon
<1>7. v[1] = 2 /\ v[6] = i
  BY <1>5, FirstOfOne
<1>8. GetU32(v, 1) = 10 /\ GetU32(v, 6) = f
  <2>1. 1 \in Nat /\ 6 \in Nat
    OBVIOUS
  <2> QED BY <2>1, <1>1, <1>5, <1>6, GetU32Is, Zenon
<1>9. ~(Len(v) < 6 \/ GetU32(v, 1) # Len(v))
  BY <1>6, <1>8
<1>10. Decode(v) = AckOf(i, f)
  BY <1>7, <1>8, <1>9, AckDecoded, Zenon
<1> QED BY <1>5, <1>10, Zenon

GivemeOf(f, n) == [Blank EXCEPT !.type = GIVEME, !.fileid = f, !.seq = n]

LEMMA GivemeShape ==
  ASSUME NEW f, NEW n
  PROVE  /\ GivemeOf(f, n).type = 5 /\ Length(GivemeOf(f, n)) = 11
         /\ Body(GivemeOf(f, n)) = <<PutU32(f), PutU16(n)>>
<1>1. PICK m : m = GivemeOf(f, n)
  OBVIOUS
<1>2. m.type = 5 /\ m.fileid = f /\ m.seq = n
  BY <1>1 DEF GivemeOf, Blank, GIVEME
<1>3. Length(m) = 11
  BY <1>2 DEF Length, HELLO, ACK, FILE, END, GIVEME
<1>4. Body(m) = <<PutU32(m.fileid), PutU16(m.seq)>>
  BY <1>2 DEF Body, HELLO, ACK, FILE, END, GIVEME
<1> QED BY <1>1, <1>2, <1>3, <1>4, Zenon

LEMMA GivemeDecoded ==
  ASSUME NEW v, v[1] = 5, ~(Len(v) < 6 \/ GetU32(v, 1) # Len(v))
  PROVE  Decode(v) = GivemeOf(GetU32(v, 5), GetU16(v, 9))
<1>1. v[1] # HELLO /\ v[1] # ACK /\ v[1] \notin {FILE, END} /\ v[1] = GIVEME
  BY DEF HELLO, ACK, FILE, END, GIVEME
<1>2. Decode(v) = LET q == [Blank EXCEPT !.type = v[1]]
                  IN [q EXCEPT !.fileid = GetU32(v, 5), !.seq = GetU16(v, 9)]
  BY <1>1 DEF Decode
<1> QED BY <1>1, <1>2 DEF GivemeOf, Blank

LEMMA GivemeSaid ==
  ASSUME NEW f \in 0..(U32 - 1), NEW n \in 0..(U16 - 1), NEW m, m = GivemeOf(f, n),
         Encode(m) # <<>>
  PROVE  Decode(Encode(m)) = m
<1>1. 11 \in 0..(U32 - 1) /\ n \in Nat
  <2>1. PICK w \in Nat, w2 \in Nat : w = U16 /\ w2 = U32 /\ w >= 9 /\ w2 >= 9 * w
    BY Widths
  <2> QED BY <2>1
<1>2. m.type = 5 /\ Length(m) = 11 /\ Body(m) = <<PutU32(f), PutU16(n)>>
  BY GivemeShape
<1>3. Encode(m) = FlattenSeq(<<<<5>>, PutU32(11)>> \o <<PutU32(f), PutU16(n)>>)
  <2>1. Encode(m) = FlattenSeq(<<<<m.type>>, PutU32(Length(m))>> \o Body(m))
    BY DEF Encode
  <2> QED BY <2>1, <1>2, Zenon
<1>4. /\ PutU32(f) \in Seq(Nat) /\ Len(PutU32(f)) = 4 /\ PutU16(n) \in Seq(Nat) /\ Len(PutU16(n)) = 2
      /\ FourPieces(Nat, <<5>>, PutU32(11), PutU32(f), PutU16(n))
  <2>1. /\ PutU32(11) \in Seq(Nat) /\ Len(PutU32(11)) = 4
        /\ PutU32(f) \in Seq(Nat) /\ Len(PutU32(f)) = 4
    BY <1>1, PutU32Is
  <2>2. <<5>> \in Seq(Nat) /\ Len(<<5>>) = 1
    BY OneByte
  <2>3. PutU16(n) \in Seq(Nat) /\ Len(PutU16(n)) = 2
    BY <1>1, PutU16Is
  <2> QED BY <2>1, <2>2, <2>3, Zenon DEF FourPieces
<1>5. PICK v :
        /\ v = Encode(m) /\ v \in Seq(Nat) /\ Len(v) = 5 + Len(PutU32(f)) + Len(PutU16(n))
        /\ At(v, 0, <<5>>) /\ At(v, 1, PutU32(11)) /\ At(v, 5, PutU32(f))
        /\ At(v, 5 + Len(PutU32(f)), PutU16(n))
  <2>1. \E v : /\ v = FlattenSeq(<<<<5>>, PutU32(11)>> \o <<PutU32(f), PutU16(n)>>)
               /\ v \in Seq(Nat) /\ Len(v) = 5 + Len(PutU32(f)) + Len(PutU16(n))
               /\ At(v, 0, <<5>>) /\ At(v, 1, PutU32(11)) /\ At(v, 5, PutU32(f))
               /\ At(v, 5 + Len(PutU32(f)), PutU16(n))
    BY <1>4, FourParts
  <2> QED BY <2>1, <1>3, Zenon
<1>6. Len(v) = 11 /\ At(v, 9, PutU16(n))
  <2>1. 5 + 4 = 9 /\ 9 + 2 = 11
    OBVIOUS
  <2> QED BY <2>1, <1>4, <1>5, Zenon
<1>7. v[1] = 5
  BY <1>5, FirstOfOne
<1>8. GetU32(v, 1) = 11 /\ GetU32(v, 5) = f /\ GetU16(v, 9) = n
  <2>1. 1 \in Nat /\ 5 \in Nat /\ 9 \in Nat
    OBVIOUS
  <2> QED BY <2>1, <1>1, <1>5, <1>6, GetU16Is, GetU32Is, Zenon
<1>9. ~(Len(v) < 6 \/ GetU32(v, 1) # Len(v))
  BY <1>6, <1>8
<1>10. Decode(v) = GivemeOf(f, n)
  BY <1>7, <1>8, <1>9, GivemeDecoded, Zenon
<1> QED BY <1>5, <1>10, Zenon
BlockOf(t, f, n, c) ==
  [Blank EXCEPT !.type = t, !.fileid = f, !.seq = n, !.content = c]

LEMMA BlockShape ==
  ASSUME NEW t \in {FILE, END}, NEW f, NEW n, NEW c
  PROVE  /\ BlockOf(t, f, n, c).type = t /\ Length(BlockOf(t, f, n, c)) = 15 + Len(c)
         /\ Body(BlockOf(t, f, n, c)) = <<PutU32(f), PutU16(n), PutU32(Len(c)), c>>
<1>1. PICK m : m = BlockOf(t, f, n, c)
  OBVIOUS
<1>2. m.type = t /\ m.fileid = f /\ m.seq = n /\ m.content = c
  BY <1>1 DEF BlockOf, Blank
<1>3. Length(m) = 15 + Len(c)
  BY <1>2 DEF Length, HELLO, ACK, FILE, END, GIVEME
<1>4. Body(m) = <<PutU32(m.fileid), PutU16(m.seq), PutU32(Len(m.content)), m.content>>
  BY <1>2 DEF Body, HELLO, ACK, FILE, END, GIVEME
<1> QED BY <1>1, <1>2, <1>3, <1>4, Zenon

LEMMA BlockDecoded ==
  ASSUME NEW v, NEW k, v[1] \in {FILE, END}, ~(Len(v) < 6 \/ GetU32(v, 1) # Len(v)),
         GetU32(v, 11) = k
  PROVE  Decode(v) = BlockOf(v[1], GetU32(v, 5), GetU16(v, 9), SubSeq(v, 16, 15 + k))
<1>1. v[1] # HELLO /\ v[1] # ACK /\ v[1] # GIVEME
  BY DEF HELLO, ACK, FILE, END, GIVEME
<1>2. Decode(v) = LET q == [Blank EXCEPT !.type = v[1]]
                      n == GetU32(v, 11)
                  IN [q EXCEPT !.fileid = GetU32(v, 5), !.seq = GetU16(v, 9),
                               !.content = SubSeq(v, 16, 15 + n)]
  BY <1>1 DEF Decode
<1> QED BY <1>1, <1>2 DEF BlockOf, Blank

LEMMA BlockSaid ==
  ASSUME NEW t \in {FILE, END}, NEW f \in 0..(U32 - 1), NEW n \in 0..(U16 - 1),
         NEW c \in Seq(Nat), 15 + Len(c) < U32, NEW m, m = BlockOf(t, f, n, c),
         Encode(m) # <<>>
  PROVE  Decode(Encode(m)) = m
<1>1. PICK k \in 0..(U32 - 1) : k = Len(c) /\ 15 + k \in 0..(U32 - 1)
  <2>1. Len(c) \in Nat
    BY LenProperties
  <2> QED BY <2>1, Widths
<1>2. n \in Nat /\ t \in Nat /\ k \in Nat
  BY Widths DEF FILE, END
<1>3. /\ m.type = t /\ Length(m) = 15 + k
      /\ Body(m) = <<PutU32(f), PutU16(n), PutU32(k), c>>
  <2>1. /\ m.type = t /\ Length(m) = 15 + Len(c)
        /\ Body(m) = <<PutU32(f), PutU16(n), PutU32(Len(c)), c>>
    BY BlockShape
  <2> QED BY <2>1, <1>1
<1>4. Encode(m) = FlattenSeq(<<<<t>>, PutU32(15 + k)>>
                             \o <<PutU32(f), PutU16(n), PutU32(k), c>>)
  <2>1. Encode(m) = FlattenSeq(<<<<m.type>>, PutU32(Length(m))>> \o Body(m))
    BY DEF Encode
  <2> QED BY <2>1, <1>3, Zenon
<1>5. SixPieces(Nat, <<t>>, PutU32(15 + k), PutU32(f), PutU16(n), PutU32(k), c)
  <2>1. /\ PutU32(15 + k) \in Seq(Nat) /\ Len(PutU32(15 + k)) = 4
        /\ PutU32(f) \in Seq(Nat) /\ Len(PutU32(f)) = 4
        /\ PutU32(k) \in Seq(Nat) /\ Len(PutU32(k)) = 4
    BY <1>1, PutU32Is
  <2>2. <<t>> \in Seq(Nat) /\ Len(<<t>>) = 1
    BY <1>2, OneByte
  <2>3. PutU16(n) \in Seq(Nat) /\ Len(PutU16(n)) = 2
    BY <1>2, PutU16Is
  <2> QED BY <2>1, <2>2, <2>3, Zenon DEF SixPieces
<1>6. PICK v :
        /\ v = Encode(m) /\ v \in Seq(Nat) /\ Len(v) = 15 + Len(c)
        /\ At(v, 0, <<t>>) /\ At(v, 1, PutU32(15 + k)) /\ At(v, 5, PutU32(f))
        /\ At(v, 9, PutU16(n)) /\ At(v, 11, PutU32(k)) /\ At(v, 15, c)
  <2>1. \E v : /\ v = FlattenSeq(<<<<t>>, PutU32(15 + k)>>
                                 \o <<PutU32(f), PutU16(n), PutU32(k), c>>)
               /\ v \in Seq(Nat) /\ Len(v) = 15 + Len(c)
               /\ At(v, 0, <<t>>) /\ At(v, 1, PutU32(15 + k)) /\ At(v, 5, PutU32(f))
               /\ At(v, 9, PutU16(n)) /\ At(v, 11, PutU32(k)) /\ At(v, 15, c)
    BY <1>5, SixParts
  <2> QED BY <2>1, <1>4, Zenon
<1>7. v[1] = t
  BY <1>2, <1>6, FirstOfOne
<1>8. GetU32(v, 1) = 15 + k /\ GetU32(v, 5) = f /\ GetU16(v, 9) = n /\ GetU32(v, 11) = k
  <2>1. 1 \in Nat /\ 5 \in Nat /\ 9 \in Nat /\ 11 \in Nat
    OBVIOUS
  <2> QED BY <2>1, <1>1, <1>6, GetU16Is, GetU32Is, Zenon
<1>9. SubSeq(v, 16, 15 + k) = c
  <2>1. 15 \in Nat /\ 15 + 1 = 16
    OBVIOUS
  <2>2. 15 + Len(c) <= Len(v)
    BY <1>1, <1>2, <1>6
  <2>3. SubSeq(v, 15 + 1, 15 + Len(c)) = c
    BY <2>1, <2>2, <1>6, SubSeqAt, Zenon
  <2> QED BY <2>1, <2>3, <1>1
<1>10. ~(Len(v) < 6 \/ GetU32(v, 1) # Len(v))
  <2>1. Len(v) = 15 + k /\ GetU32(v, 1) = 15 + k
    BY <1>1, <1>6, <1>8, Zenon
  <2>2. ~(15 + k < 6)
    BY <1>2
  <2> QED BY <2>1, <2>2, Zenon
<1>11. Decode(v) = BlockOf(t, f, n, c)
  <2>1. v[1] \in {FILE, END}
    BY <1>7
  <2>2. Decode(v) = BlockOf(v[1], GetU32(v, 5), GetU16(v, 9), SubSeq(v, 16, 15 + k))
    BY <2>1, <1>8, <1>10, BlockDecoded
  <2> QED BY <2>2, <1>7, <1>8, <1>9
<1> QED BY <1>6, <1>11, Zenon
-----------------------------------------------------------------------------
(* What the makers are asked to say.                                       *)

LEMMA WiderSeq ==
  ASSUME NEW S, NEW T, S \subseteq T, NEW s \in Seq(S)
  PROVE  s \in Seq(T)
<1>1. Len(s) \in Nat /\ s \in [1..Len(s) -> S] /\ DOMAIN s = 1..Len(s)
  BY LenProperties
<1>2. \A i \in 1..Len(s) : s[i] \in T
  BY <1>1
<1>3. PICK n \in Nat : n = Len(s)
  BY <1>1
<1>4. s \in [1..n -> T]
  BY <1>1, <1>2, <1>3
<1> QED BY <1>4

(* The block a file is cut into at n, with the block size of the sender.   *)
LEMMA ReadBlkIs ==
  ASSUME FilesFit, blocksz \in Blocksizes, NEW s \in Sizes, NEW n \in 0..(U16 - 1),
         n <= s \div blocksz
  PROVE  /\ ReadBlk(s, n) \in Seq(Nat) /\ 15 + Len(ReadBlk(s, n)) < U32
         /\ s \div blocksz < U16 =>
              ReadBlk(s, n) = [i \in 1..(IF n = s \div blocksz THEN s - n * blocksz ELSE blocksz)
                                 |-> n * blocksz + i]
<1>1. PICK b \in Nat : b = blocksz /\ b > 0 /\ b \in Blocksizes
  BY WireAssumption
<1>2. PICK w \in Nat, x \in Nat : w = U16 /\ x = U32 /\ w > 0 /\ x > 0
  BY Widths
<1>3. s \in Nat /\ 15 + b < x /\ (s \div b < w => (s \div b) * b < x)
  BY <1>1, <1>2, WireAssumption DEF FilesFit
<1>4. n \in Nat /\ n < w
  BY <1>2
<1>5. PICK q \in Nat, r \in 0..(b - 1) : q = s \div b /\ s = q * b + r
  <2>1. s \in Nat /\ b \in Nat \ {0}
    BY <1>1, <1>3
  <2> QED BY <2>1, Division
<1>6. n <= q
  BY <1>1, <1>5
<1>7. PICK o \in Nat : o = Offset(n)
  <2>1. (n * b) % x \in Nat
    BY <1>1, <1>2, <1>4, Division
  <2> QED BY <2>1, <1>1, <1>2 DEF Offset
<1>8. q < w => o = n * b
  <2>1. n * b \in Nat /\ n * b <= q * b
    BY <1>1, <1>4, <1>6, ProductsGrow
  <2>2. ASSUME q < w PROVE (n * b) % x = n * b
    <3>1. q * b < x /\ q * b \in Nat
      BY <2>2, <1>3, <1>5
    <3>2. n * b \in 0..(x - 1)
      BY <2>1, <3>1, <1>2
    <3> QED BY <3>2, <1>2, SmallRemainder
  <2> QED BY <2>2, <1>1, <1>2, <1>7 DEF Offset
<1>9. PICK len : len = IF n = q THEN s - o ELSE b
  OBVIOUS
<1>10. ReadBlk(s, n) = [i \in 1..len |-> o + i]
  BY <1>1, <1>5, <1>7, <1>9 DEF ReadBlk
<1>11. n = q => o = q * b
  BY <1>4, <1>8
<1>12. len \in 0..b
  <2>1. CASE n = q
    <3>1. PICK z \in Nat : z = q * b
      BY <1>1
    <3> QED BY <3>1, <2>1, <1>1, <1>5, <1>9, <1>11
  <2>2. CASE n # q
    BY <2>2, <1>1, <1>9
  <2> QED BY <2>1, <2>2
<1>13. \A i \in 1..len : o + i \in Nat
  BY <1>7
<1>14. [i \in 1..len |-> o + i] \in Seq(Nat) /\ Len([i \in 1..len |-> o + i]) = len
  BY <1>12, <1>13
<1>15. ReadBlk(s, n) \in Seq(Nat) /\ 15 + Len(ReadBlk(s, n)) < U32
  <2>1. 15 + len < x
    BY <1>1, <1>2, <1>3, <1>12
  <2> QED BY <2>1, <1>2, <1>10, <1>14, Zenon
<1>16. ASSUME q < w
       PROVE ReadBlk(s, n) = [i \in 1..(IF n = q THEN s - n * b ELSE b) |-> n * b + i]
  BY <1>16, <1>8, <1>9, <1>10
<1> QED BY <1>1, <1>2, <1>5, <1>15, <1>16
Greeting(m) == \E i \in Nat, b \in 0..(U16 - 1), s \in Names, h \in 0..(U32 - 1) :
                 m = HelloOf(i, b, s, h)
Answer(m) == \E i \in Nat, f \in 0..(U32 - 1) : m = AckOf(i, f)
Block(m) == \E t \in {FILE, END}, f \in 0..(U32 - 1), n \in 0..(U16 - 1), c \in Seq(Nat) :
              15 + Len(c) < U32 /\ m = BlockOf(t, f, n, c)
Request(m) == \E f \in 0..(U32 - 1), n \in 0..(U16 - 1) : m = GivemeOf(f, n)
Sayable(m) == Greeting(m) \/ Answer(m) \/ Block(m) \/ Request(m)

LEMMA EncodedIsDecoded ==
  ASSUME NEW m, Sayable(m), Encode(m) # <<>>
  PROVE  Decode(Encode(m)) = m
<1>1. CASE Greeting(m)
  <2>1. PICK i \in Nat, b \in 0..(U16 - 1), s \in Names, h \in 0..(U32 - 1) :
          m = HelloOf(i, b, s, h)
    BY <1>1 DEF Greeting
  <2>2. s \in Seq(Nat) /\ Len(s) < U16
    <3>1. PICK D : D = 0..(Byte - 1) /\ D \subseteq Nat /\ s \in Seq(D)
      BY WireAssumption
    <3>2. s \in Seq(Nat)
      BY <3>1, WiderSeq
    <3> QED BY <3>2, WireAssumption
  <2> QED BY <2>1, <2>2, HelloSaid, Zenon
<1>2. CASE Answer(m)
  BY <1>2, AckSaid, Zenon DEF Answer
<1>3. CASE Block(m)
  BY <1>3, BlockSaid, Zenon DEF Block
<1>4. CASE Request(m)
  BY <1>4, GivemeSaid, Zenon DEF Request
<1> QED BY <1>1, <1>2, <1>3, <1>4 DEF Sayable

(* What is under way is what its maker was asked to say, encoded, and      *)
(* something that can be said.                                             *)
SaysInv == /\ blocksz \in Blocksizes /\ size \in Sizes /\ name \in Names
           /\ wire # <<>> => wire = Encode(meant) /\ Sayable(meant)

LEMMA SaysInvInit == WInit => SaysInv
BY DEF WInit, SaysInv

LEMMA Saying ==
  ASSUME NEW m, Say(m), Sayable(m)
  PROVE  wire' # <<>> => wire' = Encode(meant') /\ Sayable(meant')
BY DEF Say

LEMMA MadeHello ==
  ASSUME SaysInv, NEW key \in Nat, MakeHello(key)
  PROVE  wire' # <<>> => wire' = Encode(meant') /\ Sayable(meant')
<1>1. PICK m : m = HelloOf(key % Byte, Blocks(size), name, HashOf[size])
  OBVIOUS
<1>2. Say(m) /\ Blocks(size) <= U16 - 1
  BY <1>1 DEF MakeHello, HelloOf
<1>3. key % Byte \in Nat
  BY Widths
<1>4. Blocks(size) \in 0..(U16 - 1)
  <2>1. size \in Nat /\ blocksz \in Nat \ {0}
    BY WireAssumption DEF SaysInv
  <2>2. size \div blocksz \in Nat
    BY <2>1, Division
  <2> QED BY <2>2, <1>2, Widths DEF Blocks
<1>5. HashOf[size] \in 0..(U32 - 1) /\ name \in Names
  BY WireAssumption DEF SaysInv
<1>6. Sayable(m)
  BY <1>1, <1>3, <1>4, <1>5 DEF Sayable, Greeting
<1> QED BY <1>2, <1>6, Saying

LEMMA MadeAck ==
  ASSUME NEW n \in Names, NEW key \in Nat, MakeAck(n, key)
  PROVE  wire' # <<>> => wire' = Encode(meant') /\ Sayable(meant')
<1>1. PICK m : m = AckOf(key, FileId[n])
  OBVIOUS
<1>2. Say(m)
  BY <1>1 DEF MakeAck, AckOf
<1>3. FileId[n] \in 0..(U32 - 1)
  BY WireAssumption
<1>4. Sayable(m)
  BY <1>1, <1>3 DEF Sayable, Answer
<1> QED BY <1>2, <1>4, Saying

LEMMA MadeBlock ==
  ASSUME FilesFit, SaysInv, NEW n \in 0..(U16 - 1), MakeBlock(BlockType(n), n)
  PROVE  wire' # <<>> => wire' = Encode(meant') /\ Sayable(meant')
<1>1. PICK m : m = BlockOf(BlockType(n), FileId[name], n, ReadBlk(size, n))
  OBVIOUS
<1>2. Say(m) /\ n <= size \div blocksz
  BY <1>1 DEF MakeBlock, BlockOf
<1>3. ReadBlk(size, n) \in Seq(Nat) /\ 15 + Len(ReadBlk(size, n)) < U32
  BY <1>2, ReadBlkIs DEF SaysInv
<1>4. BlockType(n) \in {FILE, END} /\ FileId[name] \in 0..(U32 - 1)
  BY WireAssumption DEF BlockType, SaysInv
<1>5. Block(m)
  BY <1>1, <1>3, <1>4 DEF Block
<1>6. Sayable(m)
  BY <1>5 DEF Sayable
<1> QED BY <1>2, <1>6, Saying

LEMMA MadeGiveme ==
  ASSUME SaysInv, NEW n \in 0..(U16 - 1), MakeGiveme(n)
  PROVE  wire' # <<>> => wire' = Encode(meant') /\ Sayable(meant')
<1>1. PICK m : m = GivemeOf(FileId[name], n)
  OBVIOUS
<1>2. Say(m)
  BY <1>1 DEF MakeGiveme, GivemeOf
<1>3. FileId[name] \in 0..(U32 - 1)
  BY WireAssumption DEF SaysInv
<1>4. Sayable(m)
  BY <1>1, <1>3 DEF Sayable, Request
<1> QED BY <1>2, <1>4, Saying

(* Of what kind a message is, its type says.                               *)
LEMMA Kinds ==
  ASSUME NEW m, Sayable(m)
  PROVE  /\ m.type = HELLO => m.name \in Names /\ m.id \in Nat
         /\ m.type = GIVEME => m.seq \in 0..(U16 - 1)
         /\ m.type \in {FILE, END} => Block(m)
         /\ m.type = HELLO => Greeting(m)
<1>1. CASE Greeting(m)
  <2>1. PICK i \in Nat, b \in 0..(U16 - 1), s \in Names, h \in 0..(U32 - 1) :
          m = HelloOf(i, b, s, h)
    BY <1>1 DEF Greeting
  <2>2. m.type = 1 /\ m.name = s /\ m.id = i
    BY <2>1 DEF HelloOf, Blank, HELLO
  <2> QED BY <1>1, <2>2 DEF HELLO, GIVEME, FILE, END
<1>2. CASE Answer(m)
  <2>1. m.type = 2
    BY <1>2 DEF Answer, AckOf, Blank, ACK
  <2> QED BY <2>1 DEF HELLO, GIVEME, FILE, END
<1>3. CASE Block(m)
  <2>1. m.type \in {3, 4}
    BY <1>3 DEF Block, BlockOf, Blank, FILE, END
  <2> QED BY <1>3, <2>1 DEF HELLO, GIVEME
<1>4. CASE Request(m)
  <2>1. PICK f \in 0..(U32 - 1), n \in 0..(U16 - 1) : m = GivemeOf(f, n)
    BY <1>4 DEF Request
  <2>2. m.type = 5 /\ m.seq = n
    BY <2>1 DEF GivemeOf, Blank, GIVEME
  <2> QED BY <2>2 DEF HELLO, FILE, END
<1> QED BY <1>1, <1>2, <1>3, <1>4 DEF Sayable
LEMMA Heard ==
  ASSUME SaysInv, wire # <<>>
  PROVE  Decode(wire) = meant /\ Sayable(meant)
BY EncodedIsDecoded DEF SaysInv

LEMMA SaysInvNext ==
  ASSUME FilesFit, SaysInv, [WNext]_wvars
  PROVE  SaysInv'
<1> DEFINE Kept == wire' # <<>> => wire' = Encode(meant') /\ Sayable(meant')
<1>1. CASE UNCHANGED wvars
  BY <1>1 DEF wvars, SaysInv, Sayable, Greeting, Answer, Block, Request
<1>2. CASE \E key \in Keys : SendHello(key)
  <2>1. PICK key \in Nat : SendHello(key)
    BY <1>2, WireAssumption
  <2>2. Kept
    BY <2>1, MadeHello DEF SendHello
  <2> QED BY <2>1, <2>2 DEF SendHello, SaysInv
<1>3. CASE \E b \in Blocksizes : SetBlocksz(b)
  BY <1>3 DEF SetBlocksz, SaysInv
<1>4. CASE \E n \in 0..(U16 - 1) : SendBlock(n)
  <2>1. PICK n \in 0..(U16 - 1) : SendBlock(n)
    BY <1>4
  <2>2. Kept
    BY <2>1, MadeBlock DEF SendBlock
  <2> QED BY <2>1, <2>2 DEF SendBlock, SaysInv
<1>5. CASE \E n \in 0..(U16 - 1) : Ask(n)
  <2>1. PICK n \in 0..(U16 - 1) : Ask(n)
    BY <1>5
  <2>2. Kept
    BY <2>1, MadeGiveme DEF Ask
  <2> QED BY <2>1, <2>2 DEF Ask, SaysInv
<1>6. CASE Handle
  <2>1. /\ wire # <<>> /\ UNCHANGED <<blocksz, size, name>>
        /\ \/ HandleHello(Decode(wire)) \/ HandleAck(Decode(wire)) \/ HandleBlock(Decode(wire))
           \/ RefuseBlock(Decode(wire)) \/ HandleGiveme(Decode(wire))
    BY <1>6 DEF Handle
  <2>2. PICK q : q = Decode(wire) /\ Sayable(q)
    BY <2>1, Heard
  <2>3. CASE HandleHello(q)
    <3>1. q.name \in Names /\ q.id \in Nat
      BY <2>2, <2>3, Kinds DEF HandleHello
    <3>2. wire' = <<>> \/ MakeAck(q.name, q.id)
      BY <2>3 DEF HandleHello, Silence
    <3>3. CASE wire' = <<>>
      BY <3>3, <2>1 DEF SaysInv
    <3>4. CASE MakeAck(q.name, q.id)
      BY <3>1, <3>4, <2>1, MadeAck DEF SaysInv
    <3> QED BY <3>2, <3>3, <3>4
  <2>4. CASE HandleAck(q) \/ HandleBlock(q) \/ RefuseBlock(q)
    <3>1. wire' = <<>>
      BY <2>4 DEF HandleAck, HandleBlock, RefuseBlock, Silence
    <3> QED BY <3>1, <2>1 DEF SaysInv
  <2>5. CASE HandleGiveme(q)
    <3>1. q.seq \in 0..(U16 - 1) /\ MakeBlock(BlockType(q.seq), q.seq)
      BY <2>2, <2>5, Kinds DEF HandleGiveme
    <3>2. Kept
      BY <3>1, MadeBlock
    <3> QED BY <3>2, <2>1 DEF SaysInv
  <2> QED BY <2>1, <2>2, <2>3, <2>4, <2>5
<1> QED BY <1>1, <1>2, <1>3, <1>4, <1>5, <1>6 DEF WNext

(* Every message says to the side that decodes it what its maker was asked *)
(* to say.                                                                 *)
THEOREM EveryMessageIsUnderstood ==
  ASSUME FilesFit
  PROVE  WSpec => []Understood
<1>1. WInit => SaysInv
  BY SaysInvInit
<1>2. SaysInv /\ [WNext]_wvars => SaysInv'
  BY SaysInvNext
<1>3. SaysInv => Understood
  BY Heard DEF Understood
<1> QED BY <1>1, <1>2, <1>3, PTL DEF WSpec
-----------------------------------------------------------------------------
(* A file put together from its blocks.                                    *)

CutLen(s, b, n) == IF n = s \div b THEN s - n * b ELSE b
Cut(s, b, n) == [i \in 1..CutLen(s, b, n) |-> n * b + i]

LEMMA CutIs ==
  ASSUME NEW s \in Nat, NEW b \in Nat \ {0}, NEW n \in Nat, n <= s \div b
  PROVE  /\ CutLen(s, b, n) \in Nat /\ CutLen(s, b, n) <= b
         /\ Cut(s, b, n) \in Seq(Nat) /\ Len(Cut(s, b, n)) = CutLen(s, b, n)
         /\ \A i \in 1..CutLen(s, b, n) : Cut(s, b, n)[i] = n * b + i
         /\ n * b \in Nat
<1>1. PICK q \in Nat, r \in 0..(b - 1) : q = s \div b /\ s = q * b + r
  BY Division
<1>2. PICK o \in Nat : o = n * b
  OBVIOUS
<1>3. PICK z \in Nat : z = q * b
  OBVIOUS
<1>4. n = q => s - o = r
  BY <1>1, <1>2, <1>3
<1>5. PICK len \in Nat : len = CutLen(s, b, n) /\ len <= b
  BY <1>1, <1>2, <1>4 DEF CutLen
<1>6. Cut(s, b, n) = [i \in 1..len |-> o + i]
  BY <1>2, <1>5 DEF Cut
<1>7. \A i \in 1..len : o + i \in Nat
  OBVIOUS
<1>8. [i \in 1..len |-> o + i] \in Seq(Nat) /\ Len([i \in 1..len |-> o + i]) = len
  BY <1>7
<1> QED BY <1>2, <1>5, <1>6, <1>8

LEMMA CutsInARow ==
  ASSUME NEW s \in Nat, NEW b \in Nat \ {0}, NEW k \in 1..(s \div b + 1)
  PROVE  LET bytes == FlattenSeq([i \in 1..k |-> Cut(s, b, i - 1)])
         IN  /\ bytes = [i \in 1..Len(bytes) |-> i]
             /\ k = s \div b + 1 => Len(bytes) = s
<1>a. PICK seqs : seqs = [i \in 1..k |-> Cut(s, b, i - 1)]
  OBVIOUS
<1>b. PICK bytes : bytes = FlattenSeq(seqs)
  OBVIOUS
<1>1. PICK q \in Nat, r \in 0..(b - 1) : q = s \div b /\ s = q * b + r
  BY Division
<1>2. k \in Nat \ {0} /\ k <= q + 1
  BY <1>1
<1>3. ASSUME NEW i \in 1..k
      PROVE  /\ i - 1 \in Nat /\ i - 1 <= s \div b
             /\ seqs[i] = Cut(s, b, i - 1)
             /\ seqs[i] \in Seq(Nat) /\ Len(seqs[i]) = CutLen(s, b, i - 1)
             /\ \A j \in 1..CutLen(s, b, i - 1) : seqs[i][j] = (i - 1) * b + j
  <2>1. i - 1 \in Nat /\ i - 1 <= s \div b
    BY <1>1, <1>2
  <2>2. seqs[i] = Cut(s, b, i - 1)
    BY <1>a
  <2>3. PICK n \in Nat : n = i - 1 /\ n <= s \div b
    BY <2>1
  <2>4. /\ Cut(s, b, n) \in Seq(Nat) /\ Len(Cut(s, b, n)) = CutLen(s, b, n)
        /\ \A j \in 1..CutLen(s, b, n) : Cut(s, b, n)[j] = n * b + j
    BY CutIs, <2>3, Zenon
  <2> QED BY <2>1, <2>2, <2>3, <2>4, Zenon
<1>4. seqs \in [1..k -> Seq(Nat)]
  <2>1. seqs = [i \in 1..k |-> seqs[i]]
    BY <1>a
  <2> QED BY <2>1, <1>3
<1>5. PICK end \in Nat : end = IF k = q + 1 THEN s ELSE k * b
  <2>1. k * b \in Nat
    BY <1>2
  <2> QED BY <2>1
<1> DEFINE start == [i \in 1..(k + 1) |-> IF i = k + 1 THEN end ELSE (i - 1) * b]
<1>6. ASSUME NEW i \in 1..k PROVE start[i + 1] = start[i] + Len(seqs[i])
  <2>1. PICK o \in Nat : o = (i - 1) * b
    BY <1>3
  <2>2. start[i] = o /\ Len(seqs[i]) = CutLen(s, b, i - 1)
    BY <2>1, <1>2, <1>3
  <2>3. i * b = o + b
    <3>1. i * b = (i - 1) * b + b
      OBVIOUS
    <3> QED BY <2>1, <3>1
  <2>4. CASE i = q + 1
    <3>1. CutLen(s, b, i - 1) = s - o
      BY <2>1, <2>4, <1>1 DEF CutLen
    <3>2. start[i + 1] = s
      BY <2>4, <1>2, <1>5
    <3>3. s = o + (s - o)
      OBVIOUS
    <3> QED BY <3>1, <3>2, <3>3, <2>2, Zenon
  <2>5. CASE i # q + 1
    <3>1. CutLen(s, b, i - 1) = b
      BY <2>5, <1>1 DEF CutLen
    <3>2. start[i + 1] = i * b
      <4>1. CASE i = k
        BY <4>1, <2>5, <1>2, <1>5
      <4>2. CASE i # k
        <5>1. i + 1 \in 1..(k + 1) /\ i + 1 # k + 1 /\ (i + 1) - 1 = i
          BY <4>2, <1>2
        <5> QED BY <5>1
      <4> QED BY <4>1, <4>2
    <3> QED BY <3>1, <3>2, <2>2, <2>3, Zenon
  <2> QED BY <2>4, <2>5
<1>7. start \in [1..(k + 1) -> Nat] /\ start[1] = 0
  <2>1. ASSUME NEW i \in 1..(k + 1), i # k + 1 PROVE (i - 1) * b \in Nat
    <3>1. i - 1 \in Nat
      OBVIOUS
    <3> QED BY <3>1
  <2>2. start[1] = (1 - 1) * b /\ (1 - 1) * b = 0
    BY <1>2
  <2> QED BY <2>1, <2>2
<1>8. \A i \in 1..k : start[i] = (i - 1) * b
  BY <1>2
<1>9. start[k + 1] = end
  BY <1>2
<1> HIDE DEF start
<1>10. Starts(start, seqs, k)
  BY <1>6, <1>7 DEF Starts
<1>11. /\ bytes \in Seq(Nat) /\ Len(bytes) = end
       /\ \A i \in 1..k : At(bytes, start[i], seqs[i])
  BY <1>b, <1>2, <1>4, <1>9, <1>10, Layout
<1>12. end <= k * b
  <2>1. CASE k = q + 1
    <3>1. PICK z \in Nat : z = q * b
      OBVIOUS
    <3>2. (q + 1) * b = z + b /\ s = z + r
      BY <3>1, <1>1
    <3>3. s <= z + b
      BY <3>2
    <3> QED BY <3>2, <3>3, <2>1, <1>5
  <2> QED BY <2>1, <1>5
<1>13. ASSUME NEW p \in 1..end PROVE bytes[p] = p
  <2>1. PICK i \in Nat, j \in 0..(b - 1) :
          i = (p - 1) \div b /\ j = (p - 1) % b /\ p - 1 = i * b + j
    <3>1. p - 1 \in Nat
      OBVIOUS
    <3> QED BY <3>1, Division
  <2>2. i < k
    <3>1. k * b \in Nat /\ p - 1 < k * b /\ p - 1 \in Nat /\ k \in Nat
      <4>1. PICK z \in Nat : z = k * b
        BY <1>2
      <4> QED BY <4>1, <1>2, <1>12
    <3> QED BY <3>1, <2>1, QuotientBelow
  <2>3. i + 1 \in 1..k /\ (i + 1) - 1 = i /\ j + 1 \in 1..b
    BY <1>2, <2>1, <2>2
  <2>4. PICK o \in Nat : o = i * b /\ p = o + (j + 1)
    <3>1. PICK z \in Nat : z = i * b
      OBVIOUS
    <3>2. p - 1 = z + j
      BY <2>1, <3>1
    <3> QED BY <3>1, <3>2
  <2>5. j + 1 \in 1..CutLen(s, b, i)
    <3>1. CASE i = q
      <4>1. k = q + 1 /\ end = s
        BY <3>1, <2>2, <1>2, <1>5
      <4>2. CutLen(s, b, i) = s - o
        BY <3>1, <1>1, <2>4 DEF CutLen
      <4> QED BY <4>1, <4>2, <2>1, <2>4
    <3>2. CASE i # q
      BY <3>2, <2>3, <1>1 DEF CutLen
    <3> QED BY <3>1, <3>2
  <2>6. start[i + 1] = o /\ Len(seqs[i + 1]) = CutLen(s, b, i) /\ seqs[i + 1][j + 1] = o + (j + 1)
    <3>1. /\ Len(seqs[i + 1]) = CutLen(s, b, (i + 1) - 1)
          /\ \A l \in 1..CutLen(s, b, (i + 1) - 1) : seqs[i + 1][l] = ((i + 1) - 1) * b + l
      BY <2>3, <1>3
    <3>2. start[i + 1] = ((i + 1) - 1) * b
      BY <2>3, <1>8
    <3> QED BY <3>1, <3>2, <2>3, <2>4, <2>5
  <2>7. bytes[start[i + 1] + (j + 1)] = seqs[i + 1][j + 1]
    BY <1>11, <2>3, <2>5, <2>6 DEF At
  <2> QED BY <2>4, <2>6, <2>7
<1>14. bytes = [p \in 1..Len(bytes) |-> p]
  <2>1. bytes \in [1..Len(bytes) -> Nat]
    BY <1>11, LenProperties
  <2> QED BY <2>1, <1>11, <1>13
<1>15. k = s \div b + 1 => Len(bytes) = s
  BY <1>1, <1>5, <1>11
<1> QED BY <1>a, <1>b, <1>14, <1>15
(* What is under way, and what the receiver has, is cut from the file: a   *)
(* HELLO counts its blocks, a FILE or END holds one of them, and those the *)
(* receiver has are cut with the one block size its count was made with,   *)
(* the sender's as long as any is missing.                                 *)
BlocksAnnounced == meant.type = HELLO => Blocks(size) <= U16 - 1 /\ meant.blocks = Blocks(size)
BlockCut == meant.type \in {FILE, END} =>
              /\ meant.seq \in 0..(U16 - 1) /\ meant.seq <= size \div blocksz
              /\ meant.content = ReadBlk(size, meant.seq)
PartsCut(b) == /\ cap = size \div b + 1 /\ cap <= U16 - 1
               /\ Complete \/ b = blocksz
               /\ \A n \in DOMAIN parts : n \in 0..(cap - 1) => parts[n] = Cut(size, b, n)
CutInv == /\ SaysInv
          /\ wire # <<>> => BlocksAnnounced /\ BlockCut
          /\ cap \in Nat
          /\ cap > 0 => \E b \in Blocksizes : PartsCut(b)

LEMMA CutInvInit == WInit => CutInv
BY SaysInvInit DEF WInit, CutInv

LEMMA HelloIsAnnounced ==
  ASSUME NEW key, MakeHello(key), UNCHANGED <<blocksz, size>>
  PROVE  (BlocksAnnounced /\ BlockCut)'
<1>1. PICK m : m = HelloOf(key % Byte, Blocks(size), name, HashOf[size])
  OBVIOUS
<1>2. meant' = m /\ Blocks(size) <= U16 - 1
  BY <1>1 DEF MakeHello, HelloOf, Say
<1>3. m.type = 1 /\ m.blocks = Blocks(size)
  BY <1>1 DEF HelloOf, Blank, HELLO
<1>4. Blocks(size)' = Blocks(size)
  BY DEF Blocks
<1> QED BY <1>2, <1>3, <1>4 DEF BlocksAnnounced, BlockCut, HELLO, FILE, END

LEMMA AckIsNoBlock ==
  ASSUME NEW n, NEW key, MakeAck(n, key)
  PROVE  (BlocksAnnounced /\ BlockCut)'
<1>1. PICK m : m = AckOf(key, FileId[n])
  OBVIOUS
<1>2. meant' = m
  BY <1>1 DEF MakeAck, AckOf, Say
<1>3. m.type = 2
  BY <1>1 DEF AckOf, Blank, ACK
<1> QED BY <1>2, <1>3 DEF BlocksAnnounced, BlockCut, HELLO, FILE, END

LEMMA GivemeIsNoBlock ==
  ASSUME NEW n, MakeGiveme(n)
  PROVE  (BlocksAnnounced /\ BlockCut)'
<1>1. PICK m : m = GivemeOf(FileId[name], n)
  OBVIOUS
<1>2. meant' = m
  BY <1>1 DEF MakeGiveme, GivemeOf, Say
<1>3. m.type = 5
  BY <1>1 DEF GivemeOf, Blank, GIVEME
<1> QED BY <1>2, <1>3 DEF BlocksAnnounced, BlockCut, HELLO, FILE, END

LEMMA BlockIsCut ==
  ASSUME NEW n \in 0..(U16 - 1), MakeBlock(BlockType(n), n), UNCHANGED <<blocksz, size>>
  PROVE  (BlocksAnnounced /\ BlockCut)'
<1>1. PICK m : m = BlockOf(BlockType(n), FileId[name], n, ReadBlk(size, n))
  OBVIOUS
<1>2. meant' = m /\ n <= size \div blocksz
  BY <1>1 DEF MakeBlock, BlockOf, Say
<1>3. m.type = BlockType(n) /\ m.seq = n /\ m.content = ReadBlk(size, n)
  BY <1>1 DEF BlockOf, Blank
<1>4. m.type \in {3, 4}
  BY <1>3 DEF BlockType, FILE, END
<1>5. ReadBlk(size, n)' = ReadBlk(size, n) /\ (size \div blocksz)' = size \div blocksz
  BY DEF ReadBlk, Offset
<1> QED BY <1>2, <1>3, <1>4, <1>5 DEF BlocksAnnounced, BlockCut, HELLO

LEMMA PartsKept ==
  ASSUME UNCHANGED <<size, blocksz, cap, parts>>
  PROVE  (cap > 0 => \E b \in Blocksizes : PartsCut(b))' = (cap > 0 => \E b \in Blocksizes : PartsCut(b))
BY DEF PartsCut, Complete, Cut, CutLen

LEMMA CutInvNext ==
  ASSUME FilesFit, MidTransfer = FALSE, CutInv, [WNext]_wvars
  PROVE  CutInv'
<1> DEFINE Said == (BlocksAnnounced /\ BlockCut)'
           Got == \E b \in Blocksizes : PartsCut(b)
<1>0. SaysInv' /\ SaysInv
  BY SaysInvNext DEF CutInv
<1>1. CASE UNCHANGED wvars
  <2>1. BlocksAnnounced' = BlocksAnnounced /\ BlockCut' = BlockCut
    BY <1>1 DEF wvars, BlocksAnnounced, BlockCut, Blocks, ReadBlk, Offset
  <2>2. (cap > 0 => Got)' = (cap > 0 => Got)
    BY <1>1, PartsKept DEF wvars
  <2> QED BY <1>0, <1>1, <2>1, <2>2 DEF wvars, CutInv
<1>2. CASE \E key \in Keys : SendHello(key)
  <2>1. PICK key \in Keys : SendHello(key)
    BY <1>2
  <2>2. Said
    BY <2>1, HelloIsAnnounced DEF SendHello
  <2>3. (cap > 0 => Got)' = (cap > 0 => Got)
    BY <2>1, PartsKept DEF SendHello
  <2> QED BY <1>0, <2>1, <2>2, <2>3 DEF SendHello, CutInv
<1>3. CASE \E b \in Blocksizes : SetBlocksz(b)
  <2>1. /\ wire = <<>> /\ (cap = 0 \/ Complete)
        /\ UNCHANGED <<size, name, wire, meant, cap, parts>>
    BY <1>3 DEF SetBlocksz
  <2>2. ASSUME NEW b \in Blocksizes, PartsCut(b), cap > 0 PROVE PartsCut(b)'
    <3>1. Complete
      BY <2>1, <2>2
    <3>2. Complete'
      BY <3>1, <2>1 DEF Complete
    <3> QED BY <3>2, <2>1, <2>2 DEF PartsCut, Cut, CutLen
  <2> QED BY <1>0, <2>1, <2>2 DEF CutInv
<1>4. CASE \E n \in 0..(U16 - 1) : SendBlock(n)
  <2>1. PICK n \in 0..(U16 - 1) : SendBlock(n)
    BY <1>4
  <2>2. Said
    BY <2>1, BlockIsCut DEF SendBlock
  <2>3. (cap > 0 => Got)' = (cap > 0 => Got)
    BY <2>1, PartsKept DEF SendBlock
  <2> QED BY <1>0, <2>1, <2>2, <2>3 DEF SendBlock, CutInv
<1>5. CASE \E n \in 0..(U16 - 1) : Ask(n)
  <2>1. PICK n \in 0..(U16 - 1) : Ask(n)
    BY <1>5
  <2>2. Said
    BY <2>1, GivemeIsNoBlock DEF Ask
  <2>3. (cap > 0 => Got)' = (cap > 0 => Got)
    BY <2>1, PartsKept DEF Ask
  <2> QED BY <1>0, <2>1, <2>2, <2>3 DEF Ask, CutInv
<1>6. CASE Handle
  <2>1. /\ wire # <<>> /\ UNCHANGED <<blocksz, size, name>>
        /\ \/ HandleHello(Decode(wire)) \/ HandleAck(Decode(wire)) \/ HandleBlock(Decode(wire))
           \/ RefuseBlock(Decode(wire)) \/ HandleGiveme(Decode(wire))
    BY <1>6 DEF Handle
  <2>2. PICK q : q = Decode(wire) /\ q = meant /\ Sayable(q)
    BY <2>1, <1>0, Heard
  <2>3. /\ q.type = HELLO => Blocks(size) <= U16 - 1 /\ q.blocks = Blocks(size)
        /\ q.type \in {FILE, END} =>
              /\ q.seq \in 0..(U16 - 1) /\ q.seq <= size \div blocksz
              /\ q.content = ReadBlk(size, q.seq)
    BY <2>1, <2>2 DEF CutInv, BlocksAnnounced, BlockCut
  <2>4. CASE HandleHello(q)
    <3>1. /\ q.type = HELLO /\ cap' = Blocks(size) /\ parts' = <<>>
          /\ Blocks(size) <= U16 - 1
          /\ wire' = <<>> \/ MakeAck(q.name, q.id)
      BY <2>3, <2>4 DEF HandleHello, Silence
    <3>2. blocksz \in Blocksizes /\ size \in Nat /\ blocksz \in Nat \ {0}
      BY <1>0, WireAssumption DEF SaysInv
    <3>3. PartsCut(blocksz)'
      <4>1. DOMAIN parts' = {}
        BY <3>1
      <4> QED BY <3>1, <4>1, <2>1 DEF PartsCut, Blocks
    <3>4. cap' \in Nat
      <4>1. size \div blocksz \in Nat
        BY <3>2, Division
      <4> QED BY <4>1, <3>1 DEF Blocks
    <3>5. CASE wire' = <<>>
      BY <1>0, <3>2, <3>3, <3>4, <3>5, <2>1 DEF CutInv
    <3>6. CASE MakeAck(q.name, q.id)
      <4>1. Said
        BY <3>6, AckIsNoBlock
      <4> QED BY <1>0, <4>1, <3>2, <3>3, <3>4, <2>1 DEF CutInv
    <3> QED BY <3>1, <3>5, <3>6
  <2>5. CASE HandleAck(q) \/ RefuseBlock(q)
    <3>1. wire' = <<>> /\ UNCHANGED <<size, blocksz, cap, parts>>
      BY <2>1, <2>5 DEF HandleAck, RefuseBlock, Silence
    <3>2. (cap > 0 => Got)' = (cap > 0 => Got)
      BY <3>1, PartsKept
    <3> QED BY <1>0, <3>1, <3>2 DEF CutInv
  <2>6. CASE HandleBlock(q)
    <3>1. /\ q.type \in {FILE, END} /\ ~Complete /\ wire' = <<>> /\ cap' = cap
          /\ parts' = [n \in DOMAIN parts \cup {q.seq} |->
                         IF n = q.seq THEN q.content ELSE parts[n]]
      BY <2>6 DEF HandleBlock, Silence
    <3>2. ASSUME cap > 0, NEW b \in Blocksizes, PartsCut(b) PROVE PartsCut(b)'
      <4>1. b = blocksz /\ size \in Sizes /\ size \div b < U16
        <5>1. cap \in Nat /\ cap = size \div b + 1 /\ cap <= U16 - 1 /\ b = blocksz
          BY <3>1, <3>2 DEF PartsCut, CutInv
        <5>2. size \in Sizes /\ size \div b \in Nat /\ U16 \in Nat
          <6>1. size \in Nat /\ b \in Nat \ {0}
            BY <1>0, WireAssumption DEF SaysInv
          <6> QED BY <6>1, <1>0, Division, Widths DEF SaysInv
        <5> QED BY <5>1, <5>2
      <4>2. /\ q.seq \in 0..(U16 - 1) /\ q.seq <= size \div blocksz
            /\ q.content = ReadBlk(size, q.seq)
        BY <2>3, <3>1
      <4>3. q.content = Cut(size, b, q.seq)
        <5>1. /\ blocksz \in Blocksizes /\ size \in Sizes /\ size \div blocksz < U16
              /\ q.seq \in 0..(U16 - 1) /\ q.seq <= size \div blocksz
          BY <4>1, <4>2
        <5>2. ReadBlk(size, q.seq) =
                [i \in 1..(IF q.seq = size \div blocksz THEN size - q.seq * blocksz ELSE blocksz)
                   |-> q.seq * blocksz + i]
          BY <5>1, ReadBlkIs, Zenon
        <5> QED BY <4>1, <4>2, <5>2, Zenon DEF Cut, CutLen
      <4>4. ASSUME NEW n \in DOMAIN parts', n \in 0..(cap - 1)
            PROVE  parts'[n] = Cut(size, b, n)
        BY <4>3, <4>4, <3>1, <3>2 DEF PartsCut
      <4>5. \A n : Cut(size, b, n)' = Cut(size, b, n)
        BY <2>1 DEF Cut, CutLen
      <4> QED BY <4>1, <4>4, <3>1, <3>2, <2>1 DEF PartsCut, Cut, CutLen
    <3> QED BY <1>0, <2>1, <3>1, <3>2 DEF CutInv
  <2>7. CASE HandleGiveme(q)
    <3>1. /\ q.seq \in 0..(U16 - 1) /\ MakeBlock(BlockType(q.seq), q.seq)
          /\ UNCHANGED <<cap, parts>>
      BY <2>2, <2>7, Kinds DEF HandleGiveme
    <3>2. Said
      BY <3>1, <2>1, BlockIsCut
    <3>3. (cap > 0 => Got)' = (cap > 0 => Got)
      BY <3>1, <2>1, PartsKept
    <3> QED BY <1>0, <3>1, <3>2, <3>3, <2>1 DEF CutInv
  <2> QED BY <2>1, <2>2, <2>4, <2>5, <2>6, <2>7
<1> QED BY <1>1, <1>2, <1>3, <1>4, <1>5, <1>6 DEF WNext

LEMMA CutInvArrives ==
  ASSUME CutInv
  PROVE  FileArrives
<1> SUFFICES ASSUME NEW k \in 1..cap, 0..(k - 1) \subseteq DOMAIN parts,
                    NEW bytes, bytes = FlattenSeq([i \in 1..k |-> parts[i - 1]])
             PROVE  /\ bytes = [i \in 1..Len(bytes) |-> i]
                    /\ k = cap => Len(bytes) = size
  BY DEF FileArrives
<1>1. cap \in Nat /\ k \in Nat /\ k >= 1 /\ k <= cap
  BY DEF CutInv
<1>2. PICK b \in Blocksizes : PartsCut(b)
  BY <1>1 DEF CutInv
<1>3. b \in Nat \ {0} /\ size \in Nat
  BY WireAssumption DEF CutInv, SaysInv
<1>4. k \in 1..(size \div b + 1) /\ cap = size \div b + 1
  BY <1>1, <1>2 DEF PartsCut
<1>5. PICK seqs : seqs = [i \in 1..k |-> Cut(size, b, i - 1)]
  OBVIOUS
<1>6. [i \in 1..k |-> parts[i - 1]] = seqs
  <2>1. ASSUME NEW i \in 1..k PROVE parts[i - 1] = Cut(size, b, i - 1)
    <3>1. i - 1 \in 0..(k - 1) /\ i - 1 \in 0..(cap - 1)
      BY <1>1
    <3> QED BY <3>1, <1>2 DEF PartsCut
  <2> QED BY <2>1, <1>5
<1>7. bytes = FlattenSeq(seqs)
  BY <1>6
<1>8. PICK s \in Nat, d \in Nat \ {0} : s = size /\ d = b
  BY <1>3
<1>9. PICK j \in 1..(s \div d + 1) : j = k
  BY <1>4, <1>8
<1>10. PICK file : file = FlattenSeq([i \in 1..j |-> Cut(s, d, i - 1)])
  OBVIOUS
<1>11. /\ file = [i \in 1..Len(file) |-> i]
       /\ j = s \div d + 1 => Len(file) = s
  BY CutsInARow, <1>10, Zenon
<1>12. file = bytes
  BY <1>5, <1>7, <1>8, <1>9, <1>10
<1> QED BY <1>4, <1>8, <1>9, <1>11, <1>12

(* A file arrives byte by byte, if the block size is set between transfers *)
(* only.                                                                   *)
THEOREM FilesArrive ==
  ASSUME FilesFit, MidTransfer = FALSE
  PROVE  WSpec => []FileArrives
<1>1. WInit => CutInv
  BY CutInvInit
<1>2. CutInv /\ [WNext]_wvars => CutInv'
  BY CutInvNext
<1>3. CutInv => FileArrives
  BY CutInvArrives
<1> QED BY <1>1, <1>2, <1>3, PTL DEF WSpec
=============================================================================
