----------------------------- MODULE IovsProofs -----------------------------
(***************************************************************************)
(* Theorems about Iovs, for any number of buffers and threads that keep to *)
(* Careful.                                                                *)
(***************************************************************************)
EXTENDS Iovs, Lemmas, FiniteSetTheorems

-----------------------------------------------------------------------------
(* The invariant.                                                          *)

Buffers == [low : 0..Cap, len : 0..Cap, arr : [Slots -> Elems \cup {Nil}], iolen : Nat]

(* An iterator stands before the first entry or has counted on from there. *)
Keys == {HEAD} \cup Nat

TypesHold ==
  /\ iovs \in [Bufs -> Buffers] /\ mtx \in [Bufs -> Threads \cup {Nil}]
  /\ key \in [Bufs -> Keys]
  /\ call \in [Threads -> Calls \cup {Nil}] /\ todo \in [Threads -> Calls \cup Rests \cup {Nil}]
  /\ \A t \in Threads : call[t] = Nil => todo[t] = Nil

(* Every place of a buffer between low and its end holds an entry, and     *)
(* their bytes are counted.                                                *)
Sound(B) == /\ B \in Buffers /\ End(B) <= Cap
            /\ \A i \in 0..(B.len - 1) : B.arr[B.low + i] \in Elems
            /\ B.iolen = Bytes(Items(B))

(* There is a place for every push at the tail that is under way.          *)
Pushing(b) == {u \in Threads : call[u] # Nil /\ call[u].op = "push_tail" /\ call[u].b = b}
RoomKept == \A b \in Bufs : End(iovs[b]) + Cardinality(Pushing(b)) <= Cap

AllApart == \A t, u \in Threads :
              t # u /\ call[t] # Nil /\ call[u] # Nil => Apart(call[t], call[u])

(* What Fits found out about the buffer of a call holds until the call is  *)
(* done.                                                                   *)
StillFits(c) ==
  LET B == iovs[c.b] IN
  /\ c.op = "insert" => B.low = 0 \/ c.pos > B.len
  /\ c.op = "next" => key[c.b] \in HEAD..(B.len - 1)
  /\ c.op = "prev" => \/ key[c.b] \in {HEAD} \cup 1..(B.len - 1)
                      \/ key[c.b] = TAIL /\ B.len > 0

(* The entries of S stand behind the last one of D.                        *)
CopiedBehind(D, S) == /\ End(D) + S.len <= Cap
                      /\ \A i \in 0..(S.len - 1) : D.arr[End(D) + i] = S.arr[S.low + i]

(* What a thread has to do is its call, and what the call checked before   *)
(* it took the mutex holds still; or the rest of it.                       *)
Unlocked(c) ==
  LET B == iovs[c.b] IN
  /\ c.op \in Adds \cup Pops
  /\ c.op \in Pops => B.len > 0
  /\ c.op = "insert" => c.pos <= B.len /\ End(B) < Cap
  /\ c.op = "cat" => End(B) + iovs[c.src].len <= Cap

Rest(t, c, d) ==
  \/ d = c /\ Unlocked(c)
  \/ /\ c.op = "insert" /\ c.pos > iovs[c.b].len /\ End(iovs[c.b]) < Cap
     /\ d = [op |-> "push_tail", b |-> c.b, e |-> c.e]
  \/ /\ c.op = "cat" /\ c.b # c.src /\ mtx[c.b] = t
     /\ d = [c EXCEPT !.op = "cat_count"] /\ CopiedBehind(iovs[c.b], iovs[c.src])
  \/ /\ c.op = "stream"
     /\ \/ d = [op |-> "stream", b |-> c.b, size |-> iovs[c.b].iolen]
        \/ d = [op |-> "stream_end", b |-> c.b, items |-> Items(iovs[c.b])]

ThreadOk(t) == /\ call[t] # Nil => StillFits(call[t])
               /\ todo[t] # Nil => Rest(t, call[t], todo[t])

IInv == /\ TypesHold /\ (\A b \in Bufs : Sound(iovs[b]))
        /\ RoomKept /\ AllApart /\ (\A t \in Threads : ThreadOk(t))
-----------------------------------------------------------------------------
(* The bytes of sequences of entries.                                      *)

Sums(s, f) == /\ f \in [0..Len(s) -> Nat] /\ f[0] = 0
              /\ \A k \in 1..Len(s) : f[k] = f[k - 1] + Size[s[k]]

LEMMA BytesAreSums ==
  ASSUME NEW s \in Seq(Elems)
  PROVE  \E f : Sums(s, f) /\ Bytes(s) = f[Len(s)]
<1> DEFINE sum[k \in 0..Len(s)] == IF k = 0 THEN 0 ELSE sum[k - 1] + Size[s[k]]
           step == [k \in 1..Len(s) |-> [v \in Nat |-> v + Size[s[k]]]]
<1>1. PICK n \in Nat : n = Len(s)
  BY LenProperties
<1>2. \A k \in 1..n : Size[s[k]] \in Nat
  <2>1. \A k \in 1..n : s[k] \in Elems
    BY <1>1, LenProperties
  <2> QED BY <2>1, IovsAssumption
<1>3. step \in [1..n -> [Nat -> Nat]]
  BY <1>1, <1>2
<1>4. PICK g \in [0..n -> Nat] : g[0] = 0 /\ \A i \in 1..n : g[i] = step[i][g[i - 1]]
  <2> HIDE DEF step, sum
  <2>1. IsRecursion(n, Nat, 0, step)
    BY <1>3 DEF IsRecursion
  <2>2. PICK g : Runs(g, n, Nat, 0, step)
    BY <2>1, Recursion, Zenon
  <2> QED BY <2>2, Zenon DEF Runs
<1>5. \A i \in 1..n : g[i] = g[i - 1] + Size[s[i]]
  <2>1. \A i \in 1..n : i - 1 \in 0..n
    BY <1>1
  <2> HIDE DEF sum
  <2> QED BY <1>1, <1>4, <2>1
<1> HIDE DEF step
<1>6. g = [k \in 0..n |-> IF k = 0 THEN 0 ELSE g[k - 1] + Size[s[k]]]
  <2> HIDE DEF sum
  <2>1. \A k \in 0..n : g[k] = IF k = 0 THEN 0 ELSE g[k - 1] + Size[s[k]]
    BY <1>1, <1>4, <1>5
  <2> QED BY <1>4, <2>1
<1>7. sum = [k \in 0..n |-> IF k = 0 THEN 0 ELSE sum[k - 1] + Size[s[k]]]
  BY <1>1, <1>6
<1>8. Bytes(s) = sum[n]
  BY <1>1 DEF Bytes
<1> HIDE DEF sum
<1> DEFINE S == {k \in 0..n : sum[k] = g[k]}
<1>9. \A k \in 0..n : k \in S
  <2>1. 0 \in S
    BY <1>1, <1>4, <1>7
  <2>2. \A k \in 0..(n - 1) : k \in S => k + 1 \in S
    <3> TAKE k \in 0..(n - 1)
    <3>1. k + 1 \in 1..n /\ k + 1 \in 0..n /\ (k + 1) - 1 = k /\ k + 1 # 0
      BY <1>1
    <3>2. sum[k + 1] = sum[k] + Size[s[k + 1]]
      BY <1>7, <3>1
    <3>3. g[k + 1] = g[k] + Size[s[k + 1]]
      BY <1>5, <3>1
    <3> QED BY <3>1, <3>2, <3>3
  <2> HIDE DEF S
  <2> QED BY <1>1, <2>1, <2>2, IntervalInduction
<1>10. sum[n] = g[n]
  BY <1>1, <1>9
<1>11. Sums(s, g)
  BY <1>1, <1>4, <1>5 DEF Sums
<1> QED BY <1>1, <1>8, <1>10, <1>11

LEMMA BytesIsNat == ASSUME NEW s \in Seq(Elems) PROVE Bytes(s) \in Nat
<1>1. Len(s) \in Nat
  BY LenProperties
<1> QED BY <1>1, BytesAreSums DEF Sums

LEMMA SumsRegroup ==
  ASSUME NEW x \in Nat, NEW y \in Nat, NEW z \in Nat
  PROVE  (x + y) + z = x + (y + z)
OBVIOUS

(* Sums over sequences that begin alike begin alike.                       *)
Alike(s, f, t, g, a, m) ==
  /\ s \in Seq(Elems) /\ t \in Seq(Elems) /\ Sums(s, f) /\ Sums(t, g)
  /\ a \in Nat /\ m \in Nat /\ a + m <= Len(s) /\ m <= Len(t)
  /\ \A k \in 1..m : s[a + k] = t[k]

LEMMA SumsAgree ==
  ASSUME NEW s, NEW f, NEW t, NEW g, NEW a, NEW m, Alike(s, f, t, g, a, m)
  PROVE  \A k \in 0..m : f[a + k] = f[a] + g[k]
<1> /\ s \in Seq(Elems) /\ t \in Seq(Elems) /\ Sums(s, f) /\ Sums(t, g)
    /\ a \in Nat /\ m \in Nat /\ a + m <= Len(s) /\ m <= Len(t)
    /\ \A k \in 1..m : s[a + k] = t[k]
  BY Zenon DEF Alike
<1> DEFINE S == {k \in 0..m : f[a + k] = f[a] + g[k]}
<1>1. PICK n \in Nat, p \in Nat : n = Len(s) /\ p = Len(t) /\ a + m <= n /\ m <= p
  BY LenProperties
<1>2. /\ f \in [0..n -> Nat] /\ g \in [0..p -> Nat] /\ g[0] = 0
      /\ \A k \in 1..n : f[k] = f[k - 1] + Size[s[k]]
      /\ \A k \in 1..p : g[k] = g[k - 1] + Size[t[k]]
  BY <1>1 DEF Sums
<1>3. 0 \in S
  <2>1. a \in 0..n /\ a + 0 = a
    BY <1>1
  <2>2. f[a] \in Nat /\ g[0] = 0
    BY <1>2, <2>1
  <2>3. f[a] + g[0] = f[a]
    BY <2>2
  <2> QED BY <2>1, <2>3
<1>4. \A k \in 0..(m - 1) : k \in S => k + 1 \in S
  <2> TAKE k \in 0..(m - 1)
  <2> HAVE k \in S
  <2>1. /\ k + 1 \in 0..m /\ k + 1 \in 1..p /\ (k + 1) - 1 = k /\ k \in 0..p /\ k + 1 \in 1..m
        /\ a + (k + 1) \in 1..n /\ (a + (k + 1)) - 1 = a + k /\ a \in 0..n
    BY <1>1
  <2>2. f[a + (k + 1)] = f[a + k] + Size[s[a + (k + 1)]]
    BY <1>2, <2>1
  <2>3. g[k + 1] = g[k] + Size[t[k + 1]]
    BY <1>2, <2>1
  <2>4. s[a + (k + 1)] = t[k + 1]
    BY <2>1
  <2>5. Size[t[k + 1]] \in Nat
    <3>1. t[k + 1] \in Elems
      BY <1>1, <2>1, LenProperties
    <3> QED BY <3>1, IovsAssumption
  <2>6. f[a] \in Nat /\ g[k] \in Nat
    BY <1>2, <2>1
  <2>7. f[a + k] = f[a] + g[k]
    OBVIOUS
  <2>8. PICK x \in Nat, y \in Nat, z \in Nat : x = f[a] /\ y = g[k] /\ z = Size[t[k + 1]]
    BY <2>5, <2>6, Zenon
  <2>9. f[a + (k + 1)] = (x + y) + z /\ g[k + 1] = y + z
    BY <2>2, <2>3, <2>4, <2>7, <2>8, Zenon
  <2>10. (x + y) + z = x + (y + z)
    BY SumsRegroup, SMTT(20)
  <2>11. f[a + (k + 1)] = f[a] + g[k + 1]
    BY <2>8, <2>9, <2>10, Zenon
  <2> QED BY <2>1, <2>11
<1>5. \A k \in 0..m : k \in S
  <2> HIDE DEF S
  <2> QED BY <1>3, <1>4, IntervalInduction
<1> QED BY <1>5

LEMMA BytesOfNone == Bytes(<<>>) = 0
<1>1. <<>> \in Seq(Elems) /\ Len(<<>>) = 0
  OBVIOUS
<1>2. PICK f : Sums(<<>>, f) /\ Bytes(<<>>) = f[Len(<<>>)]
  BY <1>1, BytesAreSums
<1> QED BY <1>1, <1>2 DEF Sums

LEMMA BytesOfOne == ASSUME NEW e \in Elems PROVE Bytes(<<e>>) = Size[e]
<1>1. <<e>> \in Seq(Elems) /\ Len(<<e>>) = 1 /\ <<e>>[1] = e
  OBVIOUS
<1>2. PICK f : Sums(<<e>>, f) /\ Bytes(<<e>>) = f[Len(<<e>>)]
  BY <1>1, BytesAreSums
<1>3. f[1] = f[1 - 1] + Size[e] /\ f[0] = 0
  BY <1>1, <1>2 DEF Sums
<1>4. Size[e] \in Nat /\ 1 - 1 = 0
  BY IovsAssumption
<1> QED BY <1>1, <1>2, <1>3, <1>4

LEMMA BytesOfBoth ==
  ASSUME NEW s \in Seq(Elems), NEW t \in Seq(Elems)
  PROVE  Bytes(s \o t) = Bytes(s) + Bytes(t)
<1>1. PICK n \in Nat, p \in Nat : n = Len(s) /\ p = Len(t)
  BY LenProperties
<1>2. PICK u : u = s \o t
  OBVIOUS
<1>3. u \in Seq(Elems) /\ Len(u) = n + p
      /\ \A k \in 1..(n + p) : u[k] = IF k <= n THEN s[k] ELSE t[k - n]
  <2>1. /\ s \o t \in Seq(Elems) /\ Len(s \o t) = Len(s) + Len(t)
        /\ \A k \in 1..(Len(s) + Len(t)) : (s \o t)[k] = IF k <= Len(s) THEN s[k] ELSE t[k - Len(s)]
    BY ConcatProperties
  <2> QED BY <1>1, <1>2, <2>1, Zenon
<1>4. PICK f : Sums(s, f) /\ Bytes(s) = f[n]
  BY <1>1, BytesAreSums
<1>5. PICK g : Sums(t, g) /\ Bytes(t) = g[p]
  BY <1>1, BytesAreSums
<1>6. PICK h : Sums(u, h) /\ Bytes(u) = h[n + p]
  BY <1>3, BytesAreSums
<1>7. /\ f \in [0..n -> Nat] /\ g \in [0..p -> Nat] /\ h \in [0..(n + p) -> Nat] /\ h[0] = 0
  BY <1>1, <1>3, <1>4, <1>5, <1>6 DEF Sums
<1>8. h[n] = f[n]
  <2>1. /\ 0 + n <= Len(u) /\ n <= Len(s) /\ \A k \in 1..n : u[0 + k] = s[k]
    BY <1>1, <1>3
  <2>2. \A k \in 0..n : h[0 + k] = h[0] + f[k]
    <3>1. Alike(u, h, s, f, 0, n)
      BY <1>3, <1>4, <1>6, <2>1 DEF Alike
    <3> QED BY <3>1, SumsAgree
  <2>3. n \in 0..n /\ 0 + n = n /\ f[n] \in Nat
    BY <1>7
  <2>4. h[n] = h[0] + f[n]
    BY <2>2, <2>3
  <2> QED BY <1>7, <2>3, <2>4
<1>9. h[n + p] = h[n] + g[p]
  <2>1. n + p <= Len(u) /\ p <= Len(t) /\ \A k \in 1..p : u[n + k] = t[k]
    <3>1. \A k \in 1..p : n + k \in 1..(n + p) /\ ~(n + k <= n) /\ (n + k) - n = k
      OBVIOUS
    <3>2. \A k \in 1..p : u[n + k] = t[k]
      BY <1>3, <3>1, Zenon
    <3>3. n + p <= Len(u) /\ p <= Len(t)
      BY <1>1, <1>3
    <3> QED BY <3>2, <3>3, Zenon
  <2>2. \A k \in 0..p : h[n + k] = h[n] + g[k]
    <3>1. Alike(u, h, t, g, n, p)
      BY <1>3, <1>5, <1>6, <2>1 DEF Alike
    <3> QED BY <3>1, SumsAgree
  <2> QED BY <2>2
<1> QED BY <1>2, <1>4, <1>5, <1>6, <1>8, <1>9
(* An entry adds its bytes, wherever it stands.                            *)
LEMMA BytesOfMore ==
  ASSUME NEW s \in Seq(Elems), NEW pos \in 0..Len(s), NEW e \in Elems
  PROVE  Bytes(WithEntry(s, pos, e)) = Bytes(s) + Size[e]
<1>1. PICK n \in Nat : n = Len(s) /\ pos \in 0..n
  BY LenProperties
<1>2. PICK a, c : a = SubSeq(s, 1, pos) /\ c = SubSeq(s, pos + 1, n)
  OBVIOUS
<1>3. a \in Seq(Elems) /\ Len(a) = pos /\ \A k \in 1..pos : a[k] = s[k]
  <2>1. /\ SubSeq(s, 1, pos) \in Seq(Elems) /\ Len(SubSeq(s, 1, pos)) = pos - 1 + 1
        /\ \A k \in 1..(pos - 1 + 1) : SubSeq(s, 1, pos)[k] = s[1 + k - 1]
    <3>1. 1 \in Nat /\ pos \in Nat /\ 1 <= 1 /\ 1 <= pos + 1 /\ pos <= Len(s)
      BY <1>1
    <3> QED BY <3>1, SubSeqIs
  <2>2. pos - 1 + 1 = pos /\ \A k \in 1..pos : 1 + k - 1 = k
    BY <1>1
  <2> QED BY <1>2, <2>1, <2>2, Zenon
<1>4. c \in Seq(Elems) /\ Len(c) = n - pos /\ \A k \in 1..(n - pos) : c[k] = s[pos + k]
  <2>1. /\ SubSeq(s, pos + 1, n) \in Seq(Elems) /\ Len(SubSeq(s, pos + 1, n)) = n - (pos + 1) + 1
        /\ \A k \in 1..(n - (pos + 1) + 1) : SubSeq(s, pos + 1, n)[k] = s[(pos + 1) + k - 1]
    <3>1. pos + 1 \in Nat /\ 1 <= pos + 1 /\ pos + 1 <= n + 1 /\ n <= Len(s)
      BY <1>1
    <3> QED BY <3>1, SubSeqIs
  <2>2. n - (pos + 1) + 1 = n - pos /\ \A k \in 1..(n - pos) : (pos + 1) + k - 1 = pos + k
    BY <1>1
  <2> QED BY <1>2, <2>1, <2>2, Zenon
<1>5. s = a \o c
  <2>1. /\ a \o c \in Seq(Elems) /\ Len(a \o c) = Len(a) + Len(c)
        /\ \A k \in 1..(Len(a) + Len(c)) : (a \o c)[k] = IF k <= Len(a) THEN a[k] ELSE c[k - Len(a)]
    BY <1>3, <1>4, ConcatProperties
  <2>2. pos + (n - pos) = n
    BY <1>1
  <2>3. PICK f : f = a \o c
    OBVIOUS
  <2>4. /\ f \in Seq(Elems) /\ Len(f) = n
        /\ \A k \in 1..n : f[k] = IF k <= pos THEN a[k] ELSE c[k - pos]
    BY <1>3, <1>4, <2>1, <2>2, <2>3, Zenon
  <2>5. \A k \in 1..n : f[k] = s[k]
    <3> TAKE k \in 1..n
    <3>1. CASE k <= pos
      <4>1. k \in 1..pos
        BY <3>1, <1>1
      <4> QED BY <1>3, <2>4, <3>1, <4>1, Zenon
    <3>2. CASE ~(k <= pos)
      <4>1. k - pos \in 1..(n - pos) /\ pos + (k - pos) = k
        BY <3>2, <1>1
      <4> QED BY <1>4, <2>4, <3>2, <4>1, Zenon
    <3> QED BY <3>1, <3>2
  <2> QED BY <1>1, <2>3, <2>4, <2>5, SeqEqual
<1>6. <<e>> \in Seq(Elems)
  OBVIOUS
<1>7. a \o <<e>> \in Seq(Elems)
  BY <1>3, <1>6, ConcatProperties
<1>8. Bytes(s) = Bytes(a) + Bytes(c)
  BY <1>3, <1>4, <1>5, BytesOfBoth
<1>9. Bytes(a \o <<e>>) = Bytes(a) + Size[e]
  BY <1>3, <1>6, BytesOfBoth, BytesOfOne
<1>10. WithEntry(s, pos, e) = (a \o <<e>>) \o c
  BY <1>1, <1>2, Zenon DEF WithEntry
<1>11. Bytes(WithEntry(s, pos, e)) = Bytes(a \o <<e>>) + Bytes(c)
  BY <1>4, <1>7, <1>10, BytesOfBoth
<1>12. Bytes(a) \in Nat /\ Bytes(c) \in Nat /\ Size[e] \in Nat
  BY <1>3, <1>4, BytesIsNat, IovsAssumption
<1> QED BY <1>8, <1>9, <1>11, <1>12

LEMMA BytesOfLess ==
  ASSUME NEW s \in Seq(Elems), NEW pos \in 0..(Len(s) - 1)
  PROVE  Bytes(WithoutEntry(s, pos)) = Bytes(s) - Size[s[pos + 1]]
<1>1. PICK n \in Nat : n = Len(s) /\ pos \in 0..(n - 1)
  BY LenProperties
<1>2. PICK w : w = WithoutEntry(s, pos)
  OBVIOUS
<1>3. /\ w \in Seq(Elems) /\ Len(w) = n - 1
      /\ \A k \in 1..(n - 1) : w[k] = IF k <= pos THEN s[k] ELSE s[k + 1]
  BY <1>1, <1>2, WithoutEntryIs
<1>4. pos + 1 \in 1..n /\ s[pos + 1] \in Elems /\ pos \in 0..(n - 1)
  BY <1>1, LenProperties
<1>5. PICK v, e : e = s[pos + 1] /\ v = WithEntry(w, pos, e)
  OBVIOUS
<1>6. /\ v \in Seq(Elems) /\ Len(v) = n
      /\ \A k \in 1..n : v[k] = IF k <= pos THEN w[k]
                                ELSE IF k = pos + 1 THEN e ELSE w[k - 1]
  <2>1. pos \in 0..Len(w) /\ (n - 1) + 1 = n
    BY <1>1, <1>3
  <2>2. /\ WithEntry(w, pos, e) \in Seq(Elems)
        /\ Len(WithEntry(w, pos, e)) = Len(w) + 1
        /\ \A k \in 1..(Len(w) + 1) :
             WithEntry(w, pos, e)[k]
               = IF k <= pos THEN w[k] ELSE IF k = pos + 1 THEN e ELSE w[k - 1]
    <3>1. w \in Seq(Elems)
      BY <1>3
    <3>2. pos \in 0..Len(w)
      BY <2>1
    <3>3. e \in Elems
      BY <1>4, <1>5
    <3>4. /\ WithEntry(w, pos, e) \in Seq(Elems)
          /\ Len(WithEntry(w, pos, e)) = Len(w) + 1
      BY <3>1, <3>2, <3>3, WithEntryIs
    <3>5. \A k \in 1..(Len(w) + 1) :
            WithEntry(w, pos, e)[k]
              = IF k <= pos THEN w[k] ELSE IF k = pos + 1 THEN e ELSE w[k - 1]
      BY <3>1, <3>2, <3>3, WithEntryAt
    <3> QED BY <3>4, <3>5
  <2> QED BY <1>3, <1>5, <2>1, <2>2, Zenon
<1>7. \A k \in 1..n : v[k] = s[k]
  <2> TAKE k \in 1..n
  <2>1. CASE k <= pos
    <3>1. k \in 1..(n - 1)
      BY <1>1, <2>1
    <3> QED BY <1>3, <1>6, <2>1, <3>1, Zenon
  <2>2. CASE k = pos + 1
    <3>1. ~(k <= pos)
      BY <1>1, <2>2
    <3> QED BY <1>5, <1>6, <2>2, <3>1, Zenon
  <2>3. CASE k > pos + 1
    <3>1. k - 1 \in 1..(n - 1) /\ ~(k - 1 <= pos) /\ (k - 1) + 1 = k /\ ~(k <= pos) /\ k # pos + 1
      BY <1>1, <2>3
    <3>2. v[k] = w[k - 1]
      BY <1>6, <3>1, Zenon
    <3>3. w[k - 1] = s[(k - 1) + 1]
      BY <1>3, <3>1, Zenon
    <3> QED BY <3>1, <3>2, <3>3
  <2> QED BY <1>1, <2>1, <2>2, <2>3
<1>8. s = v
  BY <1>1, <1>6, <1>7, SeqEqual
<1>9. Bytes(v) = Bytes(w) + Size[e]
  <2>1. pos \in 0..Len(w)
    BY <1>1, <1>3
  <2>2. e \in Elems
    BY <1>4, <1>5
  <2> QED BY <1>3, <1>5, <2>1, <2>2, BytesOfMore
<1>10. Bytes(w) \in Nat /\ Size[e] \in Nat
  BY <1>3, <1>4, <1>5, BytesIsNat, IovsAssumption
<1>11. Bytes(s) = Bytes(w) + Size[e]
  BY <1>8, <1>9
<1>12. Bytes(s) - Size[e] = Bytes(w)
  BY <1>10, <1>11
<1> QED BY <1>2, <1>5, <1>12, Zenon
-----------------------------------------------------------------------------
(* The entries of a buffer.                                                *)

Filled(B) == /\ B.low \in Nat /\ B.len \in Nat
             /\ \A i \in 0..(B.len - 1) : B.arr[B.low + i] \in Elems
Shows(s, B) == /\ s \in Seq(Elems) /\ Len(s) = B.len
               /\ \A i \in 0..(B.len - 1) : s[i + 1] = B.arr[B.low + i]

LEMMA ItemsShow == ASSUME NEW B, Filled(B) PROVE Shows(Items(B), B)
<1>1. PICK l \in Nat, n \in Nat : l = B.low /\ n = B.len
  BY DEF Filled
<1>2. PICK s : s = Items(B)
  OBVIOUS
<1>3. PICK a : a = B.arr
  OBVIOUS
<1>4. s = [k \in 1..n |-> a[l + k - 1]]
  BY <1>1, <1>2, <1>3, Zenon DEF Items
<1>5. \A i \in 0..(n - 1) : a[l + i] \in Elems
  BY <1>1, <1>3, Zenon DEF Filled
<1>6. \A k \in 1..n : a[l + k - 1] \in Elems
  <2> TAKE k \in 1..n
  <2>1. k - 1 \in 0..(n - 1) /\ l + (k - 1) = l + k - 1
    OBVIOUS
  <2> QED BY <1>5, <2>1
<1>7. s \in Seq(Elems) /\ Len(s) = n
  BY <1>4, <1>6
<1>8. \A i \in 0..(n - 1) : s[i + 1] = a[l + i]
  <2> TAKE i \in 0..(n - 1)
  <2>1. i + 1 \in 1..n /\ l + (i + 1) - 1 = l + i
    OBVIOUS
  <2> QED BY <1>4, <2>1
<1> QED BY <1>1, <1>2, <1>3, <1>7, <1>8, Zenon DEF Shows

(* D is B with e more at pos, or with what stands at pos less.             *)
AddedTo(B, D, pos, e) ==
  /\ Filled(B) /\ Filled(D) /\ D.len = B.len + 1 /\ pos \in 0..B.len /\ e \in Elems
  /\ \A i \in 0..B.len : D.arr[D.low + i] = IF i < pos THEN B.arr[B.low + i]
                                            ELSE IF i = pos THEN e ELSE B.arr[B.low + (i - 1)]
DroppedFrom(B, D, pos) ==
  /\ Filled(B) /\ Filled(D) /\ D.len = B.len - 1 /\ pos \in 0..(B.len - 1)
  /\ \A i \in 0..(B.len - 2) : D.arr[D.low + i] = IF i < pos THEN B.arr[B.low + i]
                                                  ELSE B.arr[B.low + (i + 1)]
JoinedTo(B, S, D) ==
  /\ Filled(B) /\ Filled(S) /\ Filled(D) /\ D.len = B.len + S.len
  /\ \A i \in 0..(B.len - 1) : D.arr[D.low + i] = B.arr[B.low + i]
  /\ \A i \in 0..(S.len - 1) : D.arr[D.low + (B.len + i)] = S.arr[S.low + i]

LEMMA ItemsWith ==
  ASSUME NEW B, NEW D, NEW pos, NEW e, AddedTo(B, D, pos, e)
  PROVE  Items(D) = WithEntry(Items(B), pos, e)
<1>1. PICK n \in Nat : n = B.len
  BY DEF AddedTo, Filled
<1>2. pos \in 0..n /\ e \in Elems /\ D.len = n + 1 /\ Filled(B) /\ Filled(D)
  BY <1>1 DEF AddedTo
<1>3. PICK s, t, u : s = Items(B) /\ t = Items(D) /\ u = WithEntry(s, pos, e)
  OBVIOUS
<1>4. s \in Seq(Elems) /\ Len(s) = n /\ \A i \in 0..(n - 1) : s[i + 1] = B.arr[B.low + i]
  <2>1. Shows(s, B)
    BY <1>2, <1>3, ItemsShow, Zenon
  <2> QED BY <2>1, <1>1, Zenon DEF Shows
<1>5. t \in Seq(Elems) /\ Len(t) = n + 1 /\ \A i \in 0..n : t[i + 1] = D.arr[D.low + i]
  <2>1. Shows(t, D)
    BY <1>2, <1>3, ItemsShow, Zenon
  <2>2. (n + 1) - 1 = n
    OBVIOUS
  <2> QED BY <2>1, <2>2, <1>2, Zenon DEF Shows
<1>6. pos \in 0..Len(s)
  BY <1>2, <1>4
<1>7. u \in Seq(Elems) /\ Len(u) = n + 1
  <2>1. WithEntry(s, pos, e) \in Seq(Elems) /\ Len(WithEntry(s, pos, e)) = Len(s) + 1
    <3>1. s \in Seq(Elems) /\ e \in Elems
      BY <1>2, <1>4
    <3> QED BY <3>1, <1>6, WithEntryIs
  <2> QED BY <2>1, <1>3, <1>4, Zenon
<1>8. ASSUME NEW i \in 0..n PROVE u[i + 1] = t[i + 1]
  <2>1. /\ i + 1 \in 1..(n + 1) /\ (i + 1 <= pos <=> i < pos) /\ (i + 1 = pos + 1 <=> i = pos)
        /\ (i + 1) - 1 = i
    BY <1>2
  <2>2. u[i + 1] = IF i < pos THEN s[i + 1] ELSE IF i = pos THEN e ELSE s[i]
    <3>1. PICK k : k = i + 1
      OBVIOUS
    <3>2. k \in 1..(Len(s) + 1)
      BY <1>4, <2>1, <3>1
    <3>3. WithEntry(s, pos, e)[k] = IF k <= pos THEN s[k] ELSE IF k = pos + 1 THEN e ELSE s[k - 1]
      BY <1>2, <1>4, <1>6, <3>2, WithEntryAt
    <3> QED BY <1>3, <2>1, <3>1, <3>3
  <2>3. i < pos => s[i + 1] = B.arr[B.low + i]
    BY <1>2, <1>4
  <2>4. i > pos => s[i] = B.arr[B.low + (i - 1)]
    <3> HAVE i > pos
    <3>1. i - 1 \in 0..(n - 1) /\ (i - 1) + 1 = i
      BY <1>2
    <3> QED BY <1>4, <3>1
  <2>5. t[i + 1] = D.arr[D.low + i]
    BY <1>5
  <2>6. i < pos \/ i = pos \/ i > pos
    BY <1>2
  <2>7. D.arr[D.low + i] = IF i < pos THEN B.arr[B.low + i]
                           ELSE IF i = pos THEN e ELSE B.arr[B.low + (i - 1)]
    BY <1>1, Zenon DEF AddedTo
  <2> QED BY <1>2, <2>2, <2>3, <2>4, <2>5, <2>6, <2>7
<1>9. u = t
  <2>1. n + 1 \in Nat /\ \A i \in 0..((n + 1) - 1) : u[i + 1] = t[i + 1]
    BY <1>8
  <2> QED BY <2>1, <1>5, <1>7, SameEntries
<1> QED BY <1>3, <1>9

LEMMA ItemsWithout ==
  ASSUME NEW B, NEW D, NEW pos, DroppedFrom(B, D, pos)
  PROVE  Items(D) = WithoutEntry(Items(B), pos)
<1>1. PICK n \in Nat : n = B.len
  BY DEF DroppedFrom, Filled
<1>2. pos \in 0..(n - 1) /\ D.len = n - 1 /\ n - 1 \in Nat /\ Filled(B) /\ Filled(D)
  BY <1>1 DEF DroppedFrom
<1>3. PICK s, t, u : s = Items(B) /\ t = Items(D) /\ u = WithoutEntry(s, pos)
  OBVIOUS
<1>4. s \in Seq(Elems) /\ Len(s) = n /\ \A i \in 0..(n - 1) : s[i + 1] = B.arr[B.low + i]
  <2>1. Shows(s, B)
    BY <1>2, <1>3, ItemsShow, Zenon
  <2> QED BY <2>1, <1>1, Zenon DEF Shows
<1>5. t \in Seq(Elems) /\ Len(t) = n - 1 /\ \A i \in 0..(n - 2) : t[i + 1] = D.arr[D.low + i]
  <2>1. Shows(t, D)
    BY <1>2, <1>3, ItemsShow, Zenon
  <2>2. (n - 1) - 1 = n - 2
    OBVIOUS
  <2> QED BY <2>1, <2>2, <1>2, Zenon DEF Shows
<1>6. /\ u \in Seq(Elems) /\ Len(u) = n - 1
      /\ \A k \in 1..(n - 1) : u[k] = IF k <= pos THEN s[k] ELSE s[k + 1]
  BY <1>2, <1>3, <1>4, WithoutEntryIs
<1>7. ASSUME NEW i \in 0..(n - 2) PROVE u[i + 1] = t[i + 1]
  <2>1. i + 1 \in 1..(n - 1) /\ (i + 1 <= pos <=> i < pos) /\ i \in 0..(n - 1) /\ i + 1 \in 0..(n - 1)
    BY <1>2
  <2>2. u[i + 1] = IF i < pos THEN s[i + 1] ELSE s[(i + 1) + 1]
    <3>1. u[i + 1] = IF i + 1 <= pos THEN s[i + 1] ELSE s[(i + 1) + 1]
      BY <1>6, <2>1
    <3> QED BY <2>1, <3>1
  <2>3. s[i + 1] = B.arr[B.low + i] /\ s[(i + 1) + 1] = B.arr[B.low + (i + 1)]
    BY <1>4, <2>1
  <2>4. t[i + 1] = D.arr[D.low + i]
    BY <1>5
  <2>5. D.arr[D.low + i] = IF i < pos THEN B.arr[B.low + i] ELSE B.arr[B.low + (i + 1)]
    BY <1>1, Zenon DEF DroppedFrom
  <2> QED BY <2>2, <2>3, <2>4, <2>5
<1>8. u = t
  <2>1. \A i \in 0..((n - 1) - 1) : u[i + 1] = t[i + 1]
    BY <1>7
  <2> QED BY <2>1, <1>2, <1>5, <1>6, SameEntries
<1> QED BY <1>3, <1>8

LEMMA ItemsJoined ==
  ASSUME NEW B, NEW S, NEW D, JoinedTo(B, S, D)
  PROVE  Items(D) = Items(B) \o Items(S)
<1>1. PICK n \in Nat, m \in Nat : n = B.len /\ m = S.len
  BY DEF JoinedTo, Filled
<1>2. D.len = n + m /\ n + m \in Nat /\ Filled(B) /\ Filled(S) /\ Filled(D)
  BY <1>1 DEF JoinedTo
<1>3. PICK s, r, t, u : s = Items(B) /\ r = Items(S) /\ t = Items(D) /\ u = s \o r
  OBVIOUS
<1>4. s \in Seq(Elems) /\ Len(s) = n /\ \A i \in 0..(n - 1) : s[i + 1] = B.arr[B.low + i]
  <2>1. Shows(s, B)
    BY <1>2, <1>3, ItemsShow, Zenon
  <2> QED BY <2>1, <1>1, Zenon DEF Shows
<1>5. r \in Seq(Elems) /\ Len(r) = m /\ \A i \in 0..(m - 1) : r[i + 1] = S.arr[S.low + i]
  <2>1. Shows(r, S)
    BY <1>2, <1>3, ItemsShow, Zenon
  <2> QED BY <2>1, <1>1, Zenon DEF Shows
<1>6. t \in Seq(Elems) /\ Len(t) = n + m
      /\ \A i \in 0..((n + m) - 1) : t[i + 1] = D.arr[D.low + i]
  <2>1. Shows(t, D)
    BY <1>2, <1>3, ItemsShow, Zenon
  <2> QED BY <2>1, <1>2, Zenon DEF Shows
<1>7. /\ u \in Seq(Elems) /\ Len(u) = n + m
      /\ \A k \in 1..(n + m) : u[k] = IF k <= n THEN s[k] ELSE r[k - n]
  <2>1. /\ s \o r \in Seq(Elems) /\ Len(s \o r) = Len(s) + Len(r)
        /\ \A k \in 1..(Len(s) + Len(r)) : (s \o r)[k] = IF k <= Len(s) THEN s[k] ELSE r[k - Len(s)]
    BY <1>4, <1>5, ConcatProperties
  <2> QED BY <1>3, <1>4, <1>5, <2>1, Zenon
<1>8. ASSUME NEW i \in 0..((n + m) - 1) PROVE u[i + 1] = t[i + 1]
  <2>1. i + 1 \in 1..(n + m) /\ t[i + 1] = D.arr[D.low + i]
    BY <1>6
  <2>2. CASE i < n
    <3>1. i + 1 <= n /\ i \in 0..(n - 1)
      BY <2>2
    <3>2. u[i + 1] = s[i + 1]
      BY <1>7, <2>1, <3>1, Zenon
    <3>3. D.arr[D.low + i] = B.arr[B.low + i]
      BY <1>1, <3>1, Zenon DEF JoinedTo
    <3> QED BY <1>4, <2>1, <3>1, <3>2, <3>3, Zenon
  <2>3. CASE ~(i < n)
    <3>1. PICK j : j = i - n
      OBVIOUS
    <3>2. ~(i + 1 <= n) /\ j \in 0..(m - 1) /\ (i + 1) - n = j + 1 /\ n + j = i
      BY <2>3, <3>1
    <3>3. u[i + 1] = r[j + 1]
      BY <1>7, <2>1, <3>2, Zenon
    <3>4. D.arr[D.low + (n + j)] = S.arr[S.low + j]
      BY <1>1, <3>2, Zenon DEF JoinedTo
    <3> QED BY <1>5, <2>1, <3>2, <3>3, <3>4, Zenon
  <2> QED BY <2>2, <2>3
<1>9. u = t
  BY <1>2, <1>6, <1>7, <1>8, SameEntries
<1> QED BY <1>3, <1>9

(* And their bytes.                                                        *)
LEMMA BytesWith ==
  ASSUME NEW B, NEW D, NEW pos, NEW e, AddedTo(B, D, pos, e)
  PROVE  Bytes(Items(D)) = Bytes(Items(B)) + Size[e]
<1>1. Items(D) = WithEntry(Items(B), pos, e) /\ Shows(Items(B), B)
  <2>1. Filled(B)
    BY Zenon DEF AddedTo
  <2>2. Items(D) = WithEntry(Items(B), pos, e)
    BY ItemsWith
  <2>3. Shows(Items(B), B)
    BY <2>1, ItemsShow, Zenon
  <2> QED BY <2>2, <2>3, Zenon
<1>2. PICK s : s = Items(B)
  OBVIOUS
<1>3. s \in Seq(Elems) /\ pos \in 0..Len(s) /\ e \in Elems
  BY <1>1, <1>2 DEF Shows, AddedTo
<1>4. Bytes(WithEntry(s, pos, e)) = Bytes(s) + Size[e]
  BY <1>3, BytesOfMore
<1> QED BY <1>1, <1>2, <1>4

LEMMA BytesWithout ==
  ASSUME NEW B, NEW D, NEW pos, DroppedFrom(B, D, pos)
  PROVE  Bytes(Items(D)) = Bytes(Items(B)) - Size[B.arr[B.low + pos]]
<1>1. Items(D) = WithoutEntry(Items(B), pos) /\ Shows(Items(B), B)
  BY ItemsWithout, ItemsShow, Zenon DEF DroppedFrom
<1>2. PICK s : s = Items(B)
  OBVIOUS
<1>3. s \in Seq(Elems) /\ pos \in 0..(Len(s) - 1) /\ s[pos + 1] = B.arr[B.low + pos]
  BY <1>1, <1>2 DEF Shows, DroppedFrom
<1>4. Bytes(WithoutEntry(s, pos)) = Bytes(s) - Size[s[pos + 1]]
  BY <1>3, BytesOfLess
<1> QED BY <1>1, <1>2, <1>3, <1>4

LEMMA BytesJoined ==
  ASSUME NEW B, NEW S, NEW D, JoinedTo(B, S, D)
  PROVE  Bytes(Items(D)) = Bytes(Items(B)) + Bytes(Items(S))
<1>1. Items(D) = Items(B) \o Items(S) /\ Shows(Items(B), B) /\ Shows(Items(S), S)
  BY ItemsJoined, ItemsShow, Zenon DEF JoinedTo
<1>2. Items(B) \in Seq(Elems) /\ Items(S) \in Seq(Elems)
  BY <1>1, Zenon DEF Shows
<1> QED BY <1>1, <1>2, BytesOfBoth
-----------------------------------------------------------------------------
(* What the calls make of a buffer.                                        *)

LEMMA CapIs == Cap \in Nat /\ Cap > 0 /\ Cap <= TAIL /\ TAIL \in Nat
<1>1. Cap \in 1..TAIL
  BY IovsAssumption, Zenon
<1>2. TAIL \in Nat
  BY SMT DEF TAIL
<1> QED BY <1>1, <1>2

LEMMA SoundIs ==
  ASSUME NEW B, Sound(B)
  PROVE  /\ B.low \in Nat /\ B.len \in Nat /\ B.low + B.len <= Cap /\ End(B) = B.low + B.len
         /\ B.arr \in [Slots -> Elems \cup {Nil}] /\ B.iolen \in Nat
         /\ Filled(B) /\ B.iolen = Bytes(Items(B))
<1>1. B \in Buffers /\ End(B) <= Cap /\ B.iolen = Bytes(Items(B))
      /\ \A i \in 0..(B.len - 1) : B.arr[B.low + i] \in Elems
  BY Zenon DEF Sound
<1>2. B.low \in 0..Cap /\ B.len \in 0..Cap /\ B.arr \in [Slots -> Elems \cup {Nil}] /\ B.iolen \in Nat
  BY <1>1 DEF Buffers
<1>3. B.low \in Nat /\ B.len \in Nat
  BY <1>2, CapIs
<1>4. End(B) = B.low + B.len
  BY Zenon DEF End
<1>5. Filled(B)
  BY <1>1, <1>3, Zenon DEF Filled
<1> QED BY <1>1, <1>2, <1>3, <1>4, <1>5, Zenon

LEMMA WithIs ==
  ASSUME NEW l, NEW n, NEW a, NEW s, NEW X
  PROVE  LET D == With(X, l, n, a, s) IN D.low = l /\ D.len = n /\ D.arr = a /\ D.iolen = s
BY DEF With

LEMMA WithIn ==
  ASSUME NEW l \in Nat, NEW n \in Nat, l + n <= Cap, NEW s \in Nat,
         NEW a \in [Slots -> Elems \cup {Nil}], NEW X
  PROVE  With(X, l, n, a, s) \in Buffers
<1>1. l \in 0..Cap /\ n \in 0..Cap
  BY CapIs
<1> QED BY <1>1 DEF With, Buffers

LEMMA FreshIsSound == Sound(Fresh) /\ Items(Fresh) = <<>> /\ Fresh.low = Start /\ Fresh.len = 0
<1>1. Start \in Nat /\ Start <= Cap
  BY CapIs DEF Start
<1>2. Fresh.low = Start /\ Fresh.len = 0 /\ Fresh.iolen = 0 /\ Fresh.arr = [i \in Slots |-> Nil]
  BY DEF Fresh
<1>3. Fresh \in Buffers
  BY <1>1, CapIs DEF Fresh, Buffers
<1>4. Filled(Fresh)
  BY <1>1, <1>2 DEF Filled
<1>5. Items(Fresh) = <<>>
  <2>1. Shows(Items(Fresh), Fresh)
    BY <1>4, ItemsShow, Zenon
  <2>2. Items(Fresh) \in Seq(Elems) /\ Len(Items(Fresh)) = 0
    BY <2>1, <1>2, Zenon DEF Shows
  <2> QED BY <2>2, EmptySeq
<1>6. Bytes(Items(Fresh)) = 0
  BY <1>5, BytesOfNone
<1>7. End(Fresh) <= Cap
  BY <1>1, <1>2 DEF End
<1> QED BY <1>2, <1>3, <1>5, <1>6, <1>7, <1>4 DEF Sound, Filled

LEMMA AddedIsSound ==
  ASSUME NEW B, NEW D, NEW pos, NEW e, AddedTo(B, D, pos, e), D \in Buffers, End(D) <= Cap,
         Sound(B), D.iolen = B.iolen + Size[e]
  PROVE  Sound(D)
<1>1. D.iolen = Bytes(Items(D))
  <2>1. Bytes(Items(D)) = Bytes(Items(B)) + Size[e]
    BY BytesWith, Zenon
  <2>2. B.iolen = Bytes(Items(B))
    BY Zenon DEF Sound
  <2> QED BY <2>1, <2>2, Zenon
<1>2. \A i \in 0..(D.len - 1) : D.arr[D.low + i] \in Elems
  BY Zenon DEF AddedTo, Filled
<1> QED BY <1>1, <1>2, Zenon DEF Sound

LEMMA DroppedIsSound ==
  ASSUME NEW B, NEW D, NEW pos, DroppedFrom(B, D, pos), D \in Buffers, End(D) <= Cap,
         Sound(B), D.iolen = B.iolen - Size[B.arr[B.low + pos]]
  PROVE  Sound(D)
<1>1. D.iolen = Bytes(Items(D))
  <2>1. Bytes(Items(D)) = Bytes(Items(B)) - Size[B.arr[B.low + pos]]
        /\ B.iolen = Bytes(Items(B))
    BY BytesWithout, SoundIs, Zenon
  <2> QED BY <2>1
<1>2. \A i \in 0..(D.len - 1) : D.arr[D.low + i] \in Elems
  BY Zenon DEF DroppedFrom, Filled
<1> QED BY <1>1, <1>2, Zenon DEF Sound

LEMMA PutHead ==
  ASSUME NEW B, Sound(B), B.low > 0, NEW e \in Elems
  PROVE  LET D == Put(B, B.low - 1, B.low - 1, e)
         IN  AddedTo(B, D, 0, e) /\ Sound(D) /\ D.low = B.low - 1 /\ D.len = B.len + 1
<1> DEFINE D == Put(B, B.low - 1, B.low - 1, e)
<1>1. PICK l, n, a, s : l = B.low /\ n = B.len /\ a = B.arr /\ s = B.iolen
  OBVIOUS
<1>2. /\ l \in Nat /\ n \in Nat /\ l + n <= Cap /\ l > 0 /\ s \in Nat
      /\ a \in [Slots -> Elems \cup {Nil}] /\ Filled(B)
  BY <1>1, SoundIs
<1>3. PICK f : f = [a EXCEPT ![l - 1] = e]
  OBVIOUS
<1>4. D.low = l - 1 /\ D.len = n + 1 /\ D.arr = f /\ D.iolen = s + Size[e]
  BY <1>1, <1>3 DEF Put, With
<1>5. f \in [Slots -> Elems \cup {Nil}]
  BY <1>2, <1>3
<1>6. \A i \in 0..n : f[(l - 1) + i] = IF i < 0 THEN a[l + i] ELSE IF i = 0 THEN e ELSE a[l + (i - 1)]
  <2> TAKE i \in 0..n
  <2>1. (l - 1) + i \in Slots /\ ((l - 1) + i = l - 1 <=> i = 0) /\ (l - 1) + i = l + (i - 1)
    BY <1>2, CapIs DEF Slots
  <2> QED BY <1>2, <1>3, <2>1
<1>7. \A i \in 0..(n - 1) : a[l + i] \in Elems
  BY <1>1, <1>2, Zenon DEF Filled
<1>8. \A i \in 0..n : f[(l - 1) + i] \in Elems
  <2> TAKE i \in 0..n
  <2>1. i = 0 => f[(l - 1) + i] = e
    BY <1>6
  <2>2. i # 0 => f[(l - 1) + i] \in Elems
    <3> HAVE i # 0
    <3>1. i - 1 \in 0..(n - 1) /\ ~(i < 0)
      BY <1>2
    <3> QED BY <1>6, <1>7, <3>1
  <2> QED BY <2>1, <2>2
<1>9. D \in Buffers
  <2>1. Size[e] \in Nat
    BY IovsAssumption
  <2>2. l - 1 \in Nat /\ n + 1 \in Nat /\ (l - 1) + (n + 1) <= Cap /\ s + Size[e] \in Nat
    BY <1>2, <2>1
  <2>3. D = With(B, l - 1, n + 1, f, s + Size[e])
    BY <1>1, <1>3, Zenon DEF Put
  <2> QED BY <1>5, <2>2, <2>3, WithIn
<1> HIDE DEF D
<1>10. End(D) <= Cap
  BY <1>2, <1>4, CapIs DEF End
<1>11. Filled(D)
  <2>1. (n + 1) - 1 = n /\ l - 1 \in Nat /\ n + 1 \in Nat
    BY <1>2
  <2> QED BY <1>4, <1>8, <2>1, Zenon DEF Filled
<1>12. AddedTo(B, D, 0, e)
  <2>1. 0 \in 0..n
    BY <1>2
  <2> QED BY <1>1, <1>2, <1>4, <1>6, <1>11, <2>1, Zenon DEF AddedTo
<1>13. Sound(D)
  BY <1>1, <1>4, <1>9, <1>10, <1>12, AddedIsSound, Zenon
<1> QED BY <1>1, <1>4, <1>12, <1>13, Zenon DEF D

LEMMA PutTail ==
  ASSUME NEW B, Sound(B), End(B) < Cap, NEW e \in Elems
  PROVE  LET D == Put(B, B.low, End(B), e)
         IN  AddedTo(B, D, B.len, e) /\ Sound(D) /\ D.low = B.low /\ D.len = B.len + 1
<1> DEFINE D == Put(B, B.low, End(B), e)
<1>1. PICK l, n, a, s : l = B.low /\ n = B.len /\ a = B.arr /\ s = B.iolen
  OBVIOUS
<1>2. /\ l \in Nat /\ n \in Nat /\ l + n < Cap /\ s \in Nat /\ End(B) = l + n
      /\ a \in [Slots -> Elems \cup {Nil}] /\ Filled(B)
  BY <1>1, SoundIs
<1>3. PICK f : f = [a EXCEPT ![l + n] = e]
  OBVIOUS
<1>4. D.low = l /\ D.len = n + 1 /\ D.arr = f /\ D.iolen = s + Size[e]
  BY <1>1, <1>2, <1>3 DEF Put, With
<1>5. f \in [Slots -> Elems \cup {Nil}]
  BY <1>2, <1>3
<1>6. \A i \in 0..n : f[l + i] = IF i < n THEN a[l + i] ELSE IF i = n THEN e ELSE a[l + (i - 1)]
  <2> TAKE i \in 0..n
  <2>1. l + i \in Slots /\ (l + i = l + n <=> i = n) /\ (i < n \/ i = n)
    BY <1>2, CapIs DEF Slots
  <2> QED BY <1>2, <1>3, <2>1
<1>7. \A i \in 0..(n - 1) : a[l + i] \in Elems
  BY <1>1, <1>2, Zenon DEF Filled
<1>8. \A i \in 0..n : f[l + i] \in Elems
  <2> TAKE i \in 0..n
  <2>1. i = n => f[l + i] = e
    BY <1>2, <1>6
  <2>2. i # n => f[l + i] \in Elems
    <3> HAVE i # n
    <3>1. i \in 0..(n - 1) /\ i < n
      BY <1>2
    <3> QED BY <1>6, <1>7, <3>1
  <2> QED BY <2>1, <2>2
<1>9. D \in Buffers
  <2>1. Size[e] \in Nat
    BY IovsAssumption
  <2>2. l \in Nat /\ l + (n + 1) <= Cap /\ n + 1 \in Nat /\ s + Size[e] \in Nat
    BY <1>2, <2>1, CapIs
  <2>3. D = With(B, l, n + 1, f, s + Size[e])
    BY <1>1, <1>2, <1>3, Zenon DEF Put
  <2> QED BY <1>5, <2>2, <2>3, WithIn
<1> HIDE DEF D
<1>10. End(D) <= Cap
  BY <1>2, <1>4, CapIs DEF End
<1>11. Filled(D)
  <2>1. (n + 1) - 1 = n /\ n + 1 \in Nat
    BY <1>2
  <2> QED BY <1>2, <1>4, <1>8, <2>1, Zenon DEF Filled
<1>12. AddedTo(B, D, n, e)
  <2>1. n \in 0..n
    BY <1>2
  <2> QED BY <1>1, <1>2, <1>4, <1>6, <1>11, <2>1, Zenon DEF AddedTo
<1>13. Sound(D)
  BY <1>1, <1>4, <1>9, <1>10, <1>12, AddedIsSound, Zenon
<1> QED BY <1>1, <1>4, <1>12, <1>13, Zenon DEF D
Inserted(B, pos, e) ==
  LET moved == [i \in Slots |-> IF i \in (B.low + pos + 1)..End(B) THEN B.arr[i - 1]
                                                                   ELSE B.arr[i]]
  IN  Put([B EXCEPT !.arr = moved], B.low, pos, e)

LEMMA PutBetween ==
  ASSUME NEW B, Sound(B), B.low = 0, End(B) < Cap, NEW pos \in Nat, pos <= B.len, NEW e \in Elems
  PROVE  LET D == Inserted(B, pos, e)
         IN  AddedTo(B, D, pos, e) /\ Sound(D) /\ D.low = 0 /\ D.len = B.len + 1
<1>1. PICK n, a, s : n = B.len /\ a = B.arr /\ s = B.iolen
  OBVIOUS
<1>2. /\ n \in Nat /\ 0 + n < Cap /\ n < Cap /\ s \in Nat /\ End(B) = n /\ pos <= n
      /\ a \in [Slots -> Elems \cup {Nil}] /\ Filled(B)
  BY <1>1, SoundIs
<1>3. PICK g : g = [i \in Slots |-> IF i \in (0 + pos + 1)..n THEN a[i - 1] ELSE a[i]]
  OBVIOUS
<1>4. PICK f : f = [g EXCEPT ![pos] = e]
  OBVIOUS
<1>5. B = [low |-> B.low, len |-> B.len, arr |-> B.arr, iolen |-> B.iolen]
  <2>1. B \in Buffers
    BY Zenon DEF Sound
  <2> QED BY <2>1 DEF Buffers
<1>6. PICK C : C = [B EXCEPT !.arr = g]
  OBVIOUS
<1>7. C.low = 0 /\ C.len = n /\ C.arr = g /\ C.iolen = s
  BY <1>1, <1>5, <1>6
<1>8. PICK D : D = Put(C, 0, pos, e)
  OBVIOUS
<1>9. D = Inserted(B, pos, e)
  BY <1>1, <1>2, <1>3, <1>6, <1>8, Zenon DEF Inserted
<1>10. D.low = 0 /\ D.len = n + 1 /\ D.arr = f /\ D.iolen = s + Size[e]
       /\ D = With(C, 0, n + 1, f, s + Size[e])
  BY <1>4, <1>7, <1>8 DEF Put, With
<1>11. /\ g \in [Slots -> Elems \cup {Nil}] /\ f \in [Slots -> Elems \cup {Nil}]
       /\ \A i \in 0..n : f[0 + i] = IF i < pos THEN a[0 + i]
                                     ELSE IF i = pos THEN e ELSE a[0 + (i - 1)]
  <2>1. \A i \in Slots : i \in (0 + pos + 1)..n => i - 1 \in Slots
    BY <1>2, CapIs DEF Slots
  <2>2. g \in [Slots -> Elems \cup {Nil}]
    BY <1>2, <1>3, <2>1
  <2>3. ASSUME NEW i \in 0..n
        PROVE  f[0 + i] = IF i < pos THEN a[0 + i] ELSE IF i = pos THEN e ELSE a[0 + (i - 1)]
    <3>1. /\ i \in Slots /\ 0 + i = i /\ (i \in (0 + pos + 1)..n <=> i > pos) /\ i \in Int
          /\ 0 + (i - 1) = i - 1
      BY <1>2, CapIs DEF Slots
    <3>2. g[i] = IF i > pos THEN a[i - 1] ELSE a[i]
      BY <1>3, <3>1, Zenon
    <3>3. f[i] = IF i = pos THEN e ELSE g[i]
      BY <1>4, <2>2, <3>1
    <3>4. i < pos \/ i = pos \/ i > pos
      BY <3>1
    <3> QED BY <3>1, <3>2, <3>3, <3>4
  <2> QED BY <1>4, <2>2, <2>3
<1>12. \A i \in 0..(n - 1) : a[0 + i] \in Elems
  BY <1>1, <1>2, Zenon DEF Filled
<1>13. \A i \in 0..n : f[0 + i] \in Elems
  <2> TAKE i \in 0..n
  <2>1. i < pos => i \in 0..(n - 1)
    BY <1>2
  <2>2. i > pos => i - 1 \in 0..(n - 1) /\ ~(i < pos) /\ i # pos
    BY <1>2
  <2>3. i < pos \/ i = pos \/ i > pos
    BY <1>2
  <2> QED BY <1>11, <1>12, <2>1, <2>2, <2>3
<1>14. D \in Buffers
  <2>1. Size[e] \in Nat
    BY IovsAssumption
  <2>2. 0 \in Nat /\ n + 1 \in Nat /\ 0 + (n + 1) <= Cap /\ s + Size[e] \in Nat
    BY <1>2, <2>1, CapIs
  <2> QED BY <1>10, <1>11, <2>2, WithIn
<1>15. End(D) <= Cap
  BY <1>2, <1>10, CapIs DEF End
<1>16. Filled(D)
  <2>1. (n + 1) - 1 = n /\ n + 1 \in Nat /\ 0 \in Nat
    BY <1>2
  <2> QED BY <1>10, <1>13, <2>1, Zenon DEF Filled
<1>17. AddedTo(B, D, pos, e)
  <2>1. pos \in 0..n
    BY <1>2
  <2> QED BY <1>1, <1>2, <1>10, <1>11, <1>16, <2>1, Zenon DEF AddedTo
<1>18. Sound(D)
  BY <1>1, <1>10, <1>14, <1>15, <1>17, AddedIsSound, Zenon
<1> QED BY <1>1, <1>9, <1>10, <1>17, <1>18, Zenon

(* The first entry taken, or the last.                                     *)
LEMMA TakenHead ==
  ASSUME NEW B, Sound(B), B.len > 0
  PROVE  LET D == Taken(B, B.low + 1, B.low)
         IN  /\ DroppedFrom(B, D, 0) /\ Sound(D) /\ D.low = B.low + 1 /\ D.len = B.len - 1
             /\ B.arr[B.low] \in Elems
<1>1. PICK l, n, a, s : l = B.low /\ n = B.len /\ a = B.arr /\ s = B.iolen
  OBVIOUS
<1>2. /\ l \in Nat /\ n \in Nat /\ l + n <= Cap /\ n > 0 /\ s \in Nat
      /\ a \in [Slots -> Elems \cup {Nil}] /\ Filled(B) /\ s = Bytes(Items(B))
  BY <1>1, SoundIs
<1>3. PICK f : f = [a EXCEPT ![l] = Nil]
  OBVIOUS
<1>4. PICK D : D = Taken(B, l + 1, l)
  OBVIOUS
<1>5. D.low = l + 1 /\ D.len = n - 1 /\ D.arr = f /\ D.iolen = s - Size[a[l]]
      /\ D = With(B, l + 1, n - 1, f, s - Size[a[l]])
  BY <1>1, <1>3, <1>4 DEF Taken, With
<1>6. f \in [Slots -> Elems \cup {Nil}]
  BY <1>2, <1>3
<1>7. \A i \in 0..(n - 1) : a[l + i] \in Elems
  BY <1>1, <1>2, Zenon DEF Filled
<1>8. a[l] \in Elems
  <2>1. 0 \in 0..(n - 1) /\ l + 0 = l
    BY <1>2
  <2> QED BY <1>7, <2>1
<1>9. \A i \in 0..(n - 2) : f[(l + 1) + i] = a[l + (i + 1)] /\ f[(l + 1) + i] \in Elems
  <2> TAKE i \in 0..(n - 2)
  <2>1. (l + 1) + i \in Slots /\ (l + 1) + i # l /\ (l + 1) + i = l + (i + 1) /\ i + 1 \in 0..(n - 1)
    BY <1>2, CapIs DEF Slots
  <2>2. a[l + (i + 1)] \in Elems
    BY <1>7, <2>1
  <2> QED BY <1>2, <1>3, <2>1, <2>2
<1>10. Filled(D)
  <2>1. (n - 1) - 1 = n - 2 /\ n - 1 \in Nat /\ l + 1 \in Nat
    BY <1>2
  <2> QED BY <1>5, <1>9, <2>1, Zenon DEF Filled
<1>11. DroppedFrom(B, D, 0)
  <2>1. 0 \in 0..(n - 1)
    BY <1>2
  <2>2. \A i \in 0..(n - 2) : ~(i < 0)
    BY <1>2
  <2>3. /\ \A i \in 0..(B.len - 2) : D.arr[D.low + i] = IF i < 0 THEN B.arr[B.low + i]
                                                        ELSE B.arr[B.low + (i + 1)]
    BY <1>1, <1>5, <1>9, <2>2, Zenon
  <2> QED BY <1>1, <1>2, <1>5, <1>10, <2>1, <2>3, Zenon DEF DroppedFrom
<1>12. D \in Buffers
  <2>1. s - Size[a[l]] \in Nat
    <3>1. Bytes(Items(D)) = s - Size[B.arr[B.low + 0]]
      BY <1>2, <1>11, BytesWithout, Zenon
    <3>2. B.low + 0 = l /\ B.arr = a
      BY <1>1, <1>2
    <3>3. Bytes(Items(D)) \in Nat
      BY <1>10, ItemsShow, BytesIsNat, Zenon DEF Shows
    <3> QED BY <3>1, <3>2, <3>3
  <2>2. l + 1 \in Nat /\ n - 1 \in Nat /\ (l + 1) + (n - 1) <= Cap
    BY <1>2, CapIs
  <2> QED BY <1>5, <1>6, <2>1, <2>2, WithIn
<1>13. End(D) <= Cap
  BY <1>2, <1>5, CapIs DEF End
<1>14. Sound(D)
  <2>1. B.low + 0 = l
    BY <1>1, <1>2
  <2>2. D.iolen = B.iolen - Size[B.arr[B.low + 0]]
    BY <1>1, <1>5, <2>1
  <2> QED BY <1>11, <1>12, <1>13, <2>2, DroppedIsSound, Zenon
<1> QED BY <1>1, <1>4, <1>5, <1>8, <1>11, <1>14, Zenon

LEMMA TakenTail ==
  ASSUME NEW B, Sound(B), B.len > 0
  PROVE  LET D == Taken(B, B.low, End(B) - 1)
         IN  /\ DroppedFrom(B, D, B.len - 1) /\ Sound(D) /\ D.low = B.low /\ D.len = B.len - 1
             /\ B.arr[End(B) - 1] \in Elems /\ End(B) - 1 = B.low + (B.len - 1)
<1>1. PICK l, n, a, s : l = B.low /\ n = B.len /\ a = B.arr /\ s = B.iolen
  OBVIOUS
<1>2. /\ l \in Nat /\ n \in Nat /\ l + n <= Cap /\ n > 0 /\ s \in Nat /\ End(B) - 1 = l + (n - 1)
      /\ a \in [Slots -> Elems \cup {Nil}] /\ Filled(B) /\ s = Bytes(Items(B))
  BY <1>1, SoundIs
<1>3. PICK j : j = l + (n - 1)
  OBVIOUS
<1>4. PICK f : f = [a EXCEPT ![j] = Nil]
  OBVIOUS
<1>5. PICK D : D = Taken(B, l, j)
  OBVIOUS
<1>6. D.low = l /\ D.len = n - 1 /\ D.arr = f /\ D.iolen = s - Size[a[j]]
      /\ D = With(B, l, n - 1, f, s - Size[a[j]])
  BY <1>1, <1>4, <1>5 DEF Taken, With
<1>7. f \in [Slots -> Elems \cup {Nil}]
  BY <1>2, <1>4
<1>8. \A i \in 0..(n - 1) : a[l + i] \in Elems
  BY <1>1, <1>2, Zenon DEF Filled
<1>9. a[j] \in Elems
  <2>1. n - 1 \in 0..(n - 1)
    BY <1>2
  <2> QED BY <1>3, <1>8, <2>1
<1>10. \A i \in 0..(n - 2) : f[l + i] = a[l + i] /\ f[l + i] \in Elems /\ i < n - 1
  <2> TAKE i \in 0..(n - 2)
  <2>1. l + i \in Slots /\ l + i # j /\ i \in 0..(n - 1) /\ i < n - 1
    BY <1>2, <1>3, CapIs DEF Slots
  <2>2. a[l + i] \in Elems
    BY <1>8, <2>1
  <2> QED BY <1>2, <1>4, <2>1, <2>2
<1>11. Filled(D)
  <2>1. (n - 1) - 1 = n - 2 /\ n - 1 \in Nat
    BY <1>2
  <2> QED BY <1>2, <1>6, <1>10, <2>1, Zenon DEF Filled
<1>12. DroppedFrom(B, D, n - 1)
  <2>1. n - 1 \in 0..(n - 1)
    BY <1>2
  <2>3. \A i \in 0..(B.len - 2) : D.arr[D.low + i] = IF i < n - 1 THEN B.arr[B.low + i]
                                                     ELSE B.arr[B.low + (i + 1)]
    BY <1>1, <1>6, <1>10, Zenon
  <2> QED BY <1>1, <1>2, <1>6, <1>11, <2>1, <2>3, Zenon DEF DroppedFrom
<1>13. Bytes(Items(D)) = s - Size[a[j]]
  <2>1. Bytes(Items(D)) = Bytes(Items(B)) - Size[B.arr[B.low + (n - 1)]]
    BY <1>12, BytesWithout
  <2> QED BY <1>1, <1>2, <1>3, <2>1
<1>14. D \in Buffers
  <2>1. s - Size[a[j]] \in Nat
    <3>1. Bytes(Items(D)) \in Nat
      BY <1>11, ItemsShow, BytesIsNat, Zenon DEF Shows
    <3> QED BY <1>13, <3>1
  <2>2. l \in Nat /\ n - 1 \in Nat /\ l + (n - 1) <= Cap
    BY <1>2, CapIs
  <2> QED BY <1>6, <1>7, <2>1, <2>2, WithIn
<1>15. End(D) <= Cap
  BY <1>2, <1>6, CapIs DEF End
<1>16. Sound(D)
  <2>1. D.iolen = B.iolen - Size[B.arr[B.low + (n - 1)]]
    BY <1>1, <1>3, <1>6, Zenon
  <2> QED BY <1>12, <1>14, <1>15, <2>1, DroppedIsSound, Zenon
<1> QED BY <1>1, <1>2, <1>3, <1>5, <1>6, <1>9, <1>12, <1>16, Zenon
(* What cat makes of its buffer, when it copies and when it counts.        *)
Copied(D, S) ==
  [D EXCEPT !.arr = [i \in Slots |-> IF i \in End(D)..(End(D) + S.len - 1)
                                       THEN S.arr[S.low + i - End(D)] ELSE D.arr[i]]]

LEMMA BufferIs ==
  ASSUME NEW B, Sound(B)
  PROVE  B = [low |-> B.low, len |-> B.len, arr |-> B.arr, iolen |-> B.iolen]
<1>1. B \in Buffers
  BY Zenon DEF Sound
<1> QED BY <1>1 DEF Buffers

LEMMA CopyBehind ==
  ASSUME NEW B, NEW S, Sound(B), Sound(S), End(B) + S.len <= Cap
  PROVE  LET D == Copied(B, S)
         IN  /\ Sound(D) /\ D.low = B.low /\ D.len = B.len /\ D.iolen = B.iolen
             /\ Items(D) = Items(B) /\ CopiedBehind(D, S)
<1>1. PICK l, n, a, s, m, k, b : /\ l = B.low /\ n = B.len /\ a = B.arr /\ s = B.iolen
                                 /\ m = S.low /\ k = S.len /\ b = S.arr
  OBVIOUS
<1>2. /\ l \in Nat /\ n \in Nat /\ s \in Nat /\ End(B) = l + n /\ l + n <= Cap
      /\ a \in [Slots -> Elems \cup {Nil}] /\ Filled(B) /\ s = Bytes(Items(B))
  BY <1>1, SoundIs
<1>3. /\ m \in Nat /\ k \in Nat /\ m + k <= Cap /\ b \in [Slots -> Elems \cup {Nil}] /\ Filled(S)
      /\ l + n + k <= Cap
  BY <1>1, <1>2, SoundIs
<1>4. PICK f : f = [i \in Slots |-> IF i \in (l + n)..(l + n + k - 1) THEN b[m + i - (l + n)]
                                                                        ELSE a[i]]
  OBVIOUS
<1>5. PICK D : D = [B EXCEPT !.arr = f]
  OBVIOUS
<1>6. D = Copied(B, S)
  BY <1>1, <1>2, <1>4, <1>5, Zenon DEF Copied
<1>7. D.low = l /\ D.len = n /\ D.arr = f /\ D.iolen = s
      /\ D = [low |-> l, len |-> n, arr |-> f, iolen |-> s]
  BY <1>1, <1>5, BufferIs
<1>8. f \in [Slots -> Elems \cup {Nil}]
  <2>1. \A i \in Slots : i \in (l + n)..(l + n + k - 1) => m + i - (l + n) \in Slots
    BY <1>2, <1>3, CapIs DEF Slots
  <2> QED BY <1>2, <1>3, <1>4, <2>1
<1>9. \A i \in 0..(n - 1) : f[l + i] = a[l + i] /\ a[l + i] \in Elems
  <2>1. \A i \in 0..(n - 1) : l + i \in Slots /\ ~(l + i \in (l + n)..(l + n + k - 1))
    BY <1>2, <1>3, CapIs DEF Slots
  <2>2. \A i \in 0..(n - 1) : a[l + i] \in Elems
    BY <1>1, <1>2, Zenon DEF Filled
  <2> QED BY <1>4, <2>1, <2>2, Zenon
<1>10. \A i \in 0..(k - 1) : f[(l + n) + i] = b[m + i]
  <2> TAKE i \in 0..(k - 1)
  <2>1. PICK j : j = (l + n) + i
    OBVIOUS
  <2>2. j \in Slots /\ j \in (l + n)..(l + n + k - 1) /\ m + j - (l + n) = m + i
    BY <1>2, <1>3, <2>1, CapIs DEF Slots
  <2>3. f[j] = b[m + j - (l + n)]
    BY <1>4, <2>2, Zenon
  <2> QED BY <2>1, <2>2, <2>3
<1>11. D \in Buffers
  <2>1. l \in 0..Cap /\ n \in 0..Cap
    BY <1>2, CapIs
  <2> QED BY <1>2, <1>7, <1>8, <2>1 DEF Buffers
<1>12. End(D) = l + n
  BY <1>7, Zenon DEF End
<1>13. Filled(D)
  BY <1>2, <1>7, <1>9, Zenon DEF Filled
<1>14. Items(D) = Items(B)
  <2>1. PICK t, u : t = Items(D) /\ u = Items(B)
    OBVIOUS
  <2>2. Shows(t, D) /\ Shows(u, B)
    BY <1>2, <1>13, <2>1, ItemsShow, Zenon
  <2>3. t \in Seq(Elems) /\ Len(t) = n /\ \A i \in 0..(n - 1) : t[i + 1] = f[l + i]
    BY <1>7, <2>2, Zenon DEF Shows
  <2>4. u \in Seq(Elems) /\ Len(u) = n /\ \A i \in 0..(n - 1) : u[i + 1] = a[l + i]
    BY <1>1, <2>2, Zenon DEF Shows
  <2>5. \A i \in 0..(n - 1) : t[i + 1] = u[i + 1]
    BY <1>9, <2>3, <2>4, Zenon
  <2> QED BY <1>2, <2>1, <2>3, <2>4, <2>5, SameEntries
<1>15. Sound(D)
  <2>1. \A i \in 0..(D.len - 1) : D.arr[D.low + i] \in Elems
    BY <1>7, <1>9, Zenon
  <2>2. D.iolen = Bytes(Items(D))
    BY <1>2, <1>7, <1>14, Zenon
  <2>3. End(D) <= Cap
    BY <1>2, <1>12
  <2> QED BY <1>11, <2>1, <2>2, <2>3, Zenon DEF Sound
<1>16. CopiedBehind(D, S)
  <2>1. End(D) + S.len <= Cap
    BY <1>1, <1>2, <1>3, <1>12
  <2> QED BY <1>1, <1>7, <1>10, <1>12, <2>1, Zenon DEF CopiedBehind
<1> QED BY <1>1, <1>6, <1>7, <1>14, <1>15, <1>16, Zenon

Counted(B, S) == With(B, B.low, B.len + S.len, B.arr, B.iolen + S.iolen)

LEMMA CountJoins ==
  ASSUME NEW B, NEW S, Sound(B), Sound(S), CopiedBehind(B, S)
  PROVE  LET D == Counted(B, S)
         IN  /\ JoinedTo(B, S, D) /\ Sound(D) /\ D.low = B.low /\ D.len = B.len + S.len
<1>1. PICK l, n, a, s, m, k, b, r : /\ l = B.low /\ n = B.len /\ a = B.arr /\ s = B.iolen
                                    /\ m = S.low /\ k = S.len /\ b = S.arr /\ r = S.iolen
  OBVIOUS
<1>2. /\ l \in Nat /\ n \in Nat /\ s \in Nat /\ End(B) = l + n
      /\ a \in [Slots -> Elems \cup {Nil}] /\ Filled(B) /\ s = Bytes(Items(B))
  BY <1>1, SoundIs
<1>3. m \in Nat /\ k \in Nat /\ Filled(S) /\ r \in Nat /\ r = Bytes(Items(S))
  BY <1>1, SoundIs
<1>4. l + n + k <= Cap
  <2>1. End(B) + S.len <= Cap
    BY Zenon DEF CopiedBehind
  <2> QED BY <1>1, <1>2, <2>1
<1>5. PICK D : D = Counted(B, S)
  OBVIOUS
<1>6. D.low = l /\ D.len = n + k /\ D.arr = a /\ D.iolen = s + r
      /\ D = With(B, l, n + k, a, s + r)
  BY <1>1, <1>5 DEF Counted, With
<1>7. \A i \in 0..(n - 1) : a[l + i] \in Elems
  BY <1>1, <1>2, Zenon DEF Filled
<1>8. \A i \in 0..(k - 1) : a[l + (n + i)] = b[m + i] /\ b[m + i] \in Elems
  <2>1. \A i \in 0..(k - 1) : a[(l + n) + i] = b[m + i]
    BY <1>1, <1>2, Zenon DEF CopiedBehind
  <2>2. \A i \in 0..(k - 1) : b[m + i] \in Elems
    BY <1>1, <1>3, Zenon DEF Filled
  <2>3. \A i \in 0..(k - 1) : (l + n) + i = l + (n + i)
    BY <1>2, <1>3
  <2> QED BY <2>1, <2>2, <2>3
<1>9. \A i \in 0..((n + k) - 1) : a[l + i] \in Elems
  <2> TAKE i \in 0..((n + k) - 1)
  <2>1. i < n => i \in 0..(n - 1)
    BY <1>2, <1>3
  <2>2. ~(i < n) => i - n \in 0..(k - 1) /\ n + (i - n) = i
    BY <1>2, <1>3
  <2> QED BY <1>7, <1>8, <2>1, <2>2
<1>10. Filled(D)
  <2>1. n + k \in Nat
    BY <1>2, <1>3
  <2> QED BY <1>2, <1>6, <1>9, <2>1, Zenon DEF Filled
<1>11. JoinedTo(B, S, D)
  BY <1>1, <1>2, <1>3, <1>6, <1>8, <1>10, Zenon DEF JoinedTo
<1>12. D \in Buffers
  <2>1. n + k \in Nat /\ l + (n + k) <= Cap /\ s + r \in Nat
    BY <1>2, <1>3, <1>4, CapIs
  <2> QED BY <1>2, <1>6, <2>1, WithIn
<1>13. End(D) <= Cap
  BY <1>2, <1>3, <1>4, <1>6, CapIs DEF End
<1>14. D.iolen = Bytes(Items(D))
  BY <1>2, <1>3, <1>6, <1>11, BytesJoined, Zenon
<1>15. Sound(D)
  <2>1. \A i \in 0..(D.len - 1) : D.arr[D.low + i] \in Elems
    BY <1>6, <1>9, Zenon
  <2> QED BY <1>12, <1>13, <1>14, <2>1, Zenon DEF Sound
<1> QED BY <1>1, <1>5, <1>6, <1>11, <1>15, Zenon
-----------------------------------------------------------------------------
(* The calls, and those that stay apart.                                   *)

LEMMA CallFacts ==
  ASSUME NEW c \in Calls
  PROVE  /\ c.b \in Bufs /\ c # Nil
         /\ c.op \in {"push_head", "push_tail", "insert"} => c.e \in Elems
         /\ c.op = "insert" => c.pos \in Nat
         /\ c.op = "cat" => c.src \in Bufs /\ c = [op |-> "cat", b |-> c.b, src |-> c.src]
         /\ c.op \in {"push_head", "push_tail", "insert", "cat", "pop_head", "pop_tail", "stream",
                      "len", "renew", "iter", "next", "prev"}
<1>1. c # Nil
  BY CallsAssumption
<1> QED BY <1>1 DEF Calls

LEMMA RestsAreNot ==
  ASSUME NEW d \in Rests
  PROVE  d # Nil /\ d.op \in {"cat_count", "stream", "stream_end"}
<1>1. d # Nil
  BY CallsAssumption
<1> QED BY <1>1 DEF Rests

Buildings == Adds \cup Pops \cup {"renew"}

LEMMA ApartFacts ==
  ASSUME NEW c, NEW d, Apart(c, d)
  PROVE  /\ d.op \in {"insert", "stream", "iter", "next", "prev"} /\ c.op \in Buildings => c.b # d.b
         /\ d.op = "cat" /\ c.op \in Buildings => c.b # d.src
         /\ c.b = d.b =>
              /\ c.op # "renew"
              /\ ~(c.op \in {"next", "prev"} /\ d.op \in {"next", "prev"})
              /\ ~(c.op \in Pops /\ d.op \in Pops)
              /\ ~(c.op = "cat" /\ d.op \in Adds \ {"push_head"})
              /\ ~(d.op = "cat" /\ c.op \in Adds \ {"push_head"})
<1>1. Watches(d) \cap Changes(c) = {} /\ ~Rivals(c, d) /\ ~Rivals(d, c)
  BY Zenon DEF Apart
<1>2. c.op \in Buildings => Changes(c) = {c.b}
  BY Zenon DEF Changes, Buildings
<1>3. d.op \in {"insert", "stream", "iter", "next", "prev"} => Watches(d) = {d.b}
  BY DEF Watches
<1>4. d.op = "cat" => Watches(d) = {d.src}
  BY DEF Watches
<1>5. d.op \in {"insert", "stream", "iter", "next", "prev"} /\ c.op \in Buildings => c.b # d.b
  BY <1>1, <1>2, <1>3
<1>6. d.op = "cat" /\ c.op \in Buildings => c.b # d.src
  BY <1>1, <1>2, <1>4
<1>7. c.b = d.b =>
        /\ c.op # "renew"
        /\ ~(c.op \in {"next", "prev"} /\ d.op \in {"next", "prev"})
        /\ ~(c.op \in Pops /\ d.op \in Pops)
        /\ ~(c.op = "cat" /\ d.op \in Adds \ {"push_head"})
        /\ ~(d.op = "cat" /\ c.op \in Adds \ {"push_head"})
  BY <1>1 DEF Rivals
<1> QED BY <1>5, <1>6, <1>7, Zenon

LEMMA ApartIsMutual == ASSUME NEW c, NEW d, Apart(c, d) PROVE Apart(d, c)
BY Zenon DEF Apart

-----------------------------------------------------------------------------
(* What a step of one thread leaves the others.                            *)

(* A step of t in its call: which of its buffers it may change, and how.   *)
Keeps(t, b) ==
  LET c == call[t]
      B == iovs[b]
      D == iovs'[b]
  IN /\ Sound(D)
     /\ D # B => b = c.b /\ (c.op = "renew" \/ (c.op \in Adds \cup Pops /\ mtx[b] = t))
     /\ mtx'[b] # mtx[b] => mtx[b] \in {Nil, t} \/ (b = c.b /\ c.op = "renew")
     /\ key'[b] # key[b] =>
          b = c.b /\ (c.op \in {"next", "prev"} \/ (c.op \in {"iter", "renew"} /\ key'[b] = HEAD))
     /\ c.op \in Adds => D.len >= B.len
     /\ c.op \in Pops \cup {"push_head"} => End(D) <= End(B)
     /\ c.op = "push_tail" => End(D) <= End(B) \/ (End(D) <= End(B) + 1 /\ call'[t] = Nil)

(* The call goes on, or is over.                                           *)
Goes(t) ==
  \E x \in {call[t], Nil}, y \in Calls \cup Rests \cup {Nil} :
    /\ x = Nil => y = Nil
    /\ call' = [call EXCEPT ![t] = x] /\ todo' = [todo EXCEPT ![t] = y]

Effect(t) ==
  /\ call[t] # Nil /\ Goes(t)
  /\ iovs' \in [Bufs -> Buffers] /\ mtx' \in [Bufs -> Threads \cup {Nil}] /\ key' \in [Bufs -> Keys]
  /\ \A b \in Bufs : Keeps(t, b)

LEMMA EffectTypes ==
  ASSUME TypesHold, NEW t \in Threads, Effect(t)
  PROVE  /\ TypesHold' /\ call'[t] \in {call[t], Nil}
         /\ \A u \in Threads : u # t => call'[u] = call[u] /\ todo'[u] = todo[u]
<1>1. PICK x \in {call[t], Nil}, y \in Calls \cup Rests \cup {Nil} :
        /\ x = Nil => y = Nil
        /\ call' = [call EXCEPT ![t] = x] /\ todo' = [todo EXCEPT ![t] = y]
  BY Zenon DEF Effect, Goes
<1>2. /\ call \in [Threads -> Calls \cup {Nil}] /\ todo \in [Threads -> Calls \cup Rests \cup {Nil}]
      /\ \A u \in Threads : call[u] = Nil => todo[u] = Nil
  BY Zenon DEF TypesHold
<1>3. x \in Calls \cup {Nil}
  BY <1>2
<1>4. call' \in [Threads -> Calls \cup {Nil}] /\ todo' \in [Threads -> Calls \cup Rests \cup {Nil}]
  BY <1>1, <1>2, <1>3, Zenon
<1>5. call'[t] = x /\ todo'[t] = y
  BY <1>1, <1>2, Zenon
<1>6. \A u \in Threads : u # t => call'[u] = call[u] /\ todo'[u] = todo[u]
  BY <1>1, <1>2, Zenon
<1>7. \A u \in Threads : call'[u] = Nil => todo'[u] = Nil
  BY <1>1, <1>2, <1>5, <1>6, Zenon
<1>8. iovs' \in [Bufs -> Buffers] /\ mtx' \in [Bufs -> Threads \cup {Nil}] /\ key' \in [Bufs -> Keys]
  BY Zenon DEF Effect
<1>9. TypesHold'
  BY <1>4, <1>7, <1>8, Zenon DEF TypesHold
<1> QED BY <1>5, <1>6, <1>9, Zenon

(* What StillFits and Rest say is about the buffers alone.                 *)
LEMMA OthersFit ==
  ASSUME IInv, NEW t \in Threads, Effect(t), NEW u \in Threads, u # t, call[u] # Nil
  PROVE  StillFits(call[u])'
<1> DEFINE c == call[t]
           d == call[u]
<1>1. d \in Calls /\ c \in Calls /\ Apart(c, d) /\ StillFits(d)
  BY Zenon DEF IInv, TypesHold, AllApart, ThreadOk, Effect
<1>2. call'[u] = d
  BY EffectTypes, Zenon DEF IInv
<1>3. d.b \in Bufs
  BY <1>1, CallFacts
<1> HIDE DEF c, d
<1>4. Keeps(t, d.b)
  BY <1>3, Zenon DEF Effect
<1>5. ASSUME d.op \in {"insert", "next", "prev"} PROVE iovs'[d.b] = iovs[d.b]
  <2>1. c.op \notin Adds \cup Pops \cup {"renew"} \/ c.b # d.b
    BY <1>1, <1>5, ApartFacts DEF Buildings
  <2> QED BY <1>4, <2>1 DEF Keeps, c
<1>6. ASSUME d.op \in {"next", "prev"} PROVE key'[d.b] = key[d.b] \/ key'[d.b] = HEAD
  <2>1. c.op \notin {"next", "prev"} \/ c.b # d.b
    BY <1>1, <1>6, ApartFacts
  <2> QED BY <1>4, <2>1 DEF Keeps, c
<1>7. Sound(iovs[d.b])
  BY <1>3, Zenon DEF IInv
<1>8. iovs[d.b].len \in Nat
  BY <1>7, SoundIs
<1>9. (d.op = "insert" => iovs'[d.b].low = 0 \/ d.pos > iovs'[d.b].len)
  BY <1>1, <1>5 DEF StillFits
<1>10. d.op = "next" => key'[d.b] \in HEAD..(iovs'[d.b].len - 1)
  <2> HAVE d.op = "next"
  <2>1. key[d.b] \in HEAD..(iovs[d.b].len - 1)
    BY <1>1 DEF StillFits
  <2>2. HEAD \in HEAD..(iovs[d.b].len - 1)
    BY <1>8 DEF HEAD
  <2> QED BY <1>5, <1>6, <2>1, <2>2
<1>11. d.op = "prev" => \/ key'[d.b] \in {HEAD} \cup 1..(iovs'[d.b].len - 1)
                        \/ key'[d.b] = TAIL /\ iovs'[d.b].len > 0
  <2> HAVE d.op = "prev"
  <2>1. \/ key[d.b] \in {HEAD} \cup 1..(iovs[d.b].len - 1)
        \/ key[d.b] = TAIL /\ iovs[d.b].len > 0
    BY <1>1 DEF StillFits
  <2>2. iovs'[d.b] = iovs[d.b] /\ (key'[d.b] = key[d.b] \/ key'[d.b] = HEAD)
    BY <1>5, <1>6
  <2>3. HEAD \in {HEAD} \cup 1..(iovs[d.b].len - 1)
    BY Zenon
  <2> QED BY <2>1, <2>2, <2>3, Zenon
<1> QED BY <1>2, <1>9, <1>10, <1>11, Zenon DEF StillFits, d
LEMMA OthersRest ==
  ASSUME IInv, NEW t \in Threads, Effect(t), NEW u \in Threads, u # t, todo[u] # Nil
  PROVE  Rest(u, call[u], todo[u])'
<1> DEFINE c == call[t]
           d == call[u]
           B == iovs[d.b]
           D == iovs'[d.b]
<1>1. /\ d # Nil /\ d \in Calls /\ c \in Calls /\ Apart(c, d) /\ Rest(u, d, todo[u])
      /\ u # Nil
  <2>1. u # Nil
    BY IovsAssumption
  <2> QED BY <2>1, Zenon DEF IInv, TypesHold, AllApart, ThreadOk, Effect
<1>2. call'[u] = d /\ todo'[u] = todo[u]
  BY EffectTypes, Zenon DEF IInv
<1>3. d.b \in Bufs /\ (d.op = "cat" => d.src \in Bufs)
  BY <1>1, CallFacts
<1> HIDE DEF c, d
<1>4. Keeps(t, d.b)
  BY <1>3, Zenon DEF Effect
<1>5. Sound(B) /\ Sound(D)
  BY <1>3, <1>4, Zenon DEF IInv, Keeps
<1>6. /\ B.low \in Nat /\ B.len \in Nat /\ B.low + B.len <= Cap /\ End(B) = B.low + B.len
      /\ D.low \in Nat /\ D.len \in Nat /\ D.low + D.len <= Cap /\ End(D) = D.low + D.len
  BY <1>5, SoundIs
<1>7. ASSUME d.op \in {"insert", "stream"} PROVE D = B
  <2>1. c.op \notin Adds \cup Pops \cup {"renew"} \/ c.b # d.b
    BY <1>1, <1>7, ApartFacts DEF Buildings
  <2> QED BY <1>4, <2>1 DEF Keeps, c
<1>8. ASSUME d.op = "cat" PROVE iovs'[d.src] = iovs[d.src]
  <2>1. c.op \notin Adds \cup Pops \cup {"renew"} \/ c.b # d.src
    BY <1>1, <1>8, ApartFacts DEF Buildings
  <2>2. Keeps(t, d.src)
    BY <1>3, <1>8, Zenon DEF Effect
  <2> QED BY <2>1, <2>2 DEF Keeps, c
<1>9. ASSUME todo[u] = d, Unlocked(d) PROVE Unlocked(d)'
  <2>1. d.op \in Adds \cup Pops
    BY <1>9 DEF Unlocked
  <2>2. d.op \in Pops => D.len > 0
    <3> HAVE d.op \in Pops
    <3>1. B.len > 0
      BY <1>9 DEF Unlocked
    <3>2. c.b = d.b => c.op \notin Pops \cup {"renew"}
      BY <1>1, ApartFacts
    <3>3. D # B => c.op \in Adds
      BY <1>4, <3>2 DEF Keeps, c
    <3>4. c.op \in Adds => D.len >= B.len
      BY <1>4 DEF Keeps, c
    <3> QED BY <1>6, <3>1, <3>3, <3>4
  <2>3. d.op = "insert" => d.pos <= D.len /\ End(D) < Cap
    BY <1>7, <1>9 DEF Unlocked
  <2>4. d.op = "cat" => End(D) + iovs'[d.src].len <= Cap
    <3> HAVE d.op = "cat"
    <3>1. End(B) + iovs[d.src].len <= Cap
      BY <1>9 DEF Unlocked
    <3>2. c.b = d.b => c.op \notin {"renew", "push_tail", "insert", "cat"}
      BY <1>1, ApartFacts DEF Adds
    <3>3. D # B => c.op \in Pops \cup {"push_head"}
      BY <1>4, <3>2 DEF Keeps, Adds, c
    <3>4. c.op \in Pops \cup {"push_head"} => End(D) <= End(B)
      BY <1>4 DEF Keeps, c
    <3>5. Sound(iovs[d.src])
      BY <1>3, Zenon DEF IInv
    <3>6. iovs[d.src].len \in Nat
      BY <3>5, SoundIs
    <3>7. End(D) <= End(B)
      BY <1>6, <3>3, <3>4
    <3> QED BY <1>6, <1>8, <3>1, <3>6, <3>7, CapIs
  <2> QED BY <1>2, <2>1, <2>2, <2>3, <2>4, Zenon DEF Unlocked, d
<1>10. ASSUME d.op = "cat", mtx[d.b] = u PROVE D = B /\ mtx'[d.b] = u
  <2>1. c.b = d.b => c.op # "renew"
    BY <1>1, ApartFacts
  <2>2. mtx[d.b] \notin {Nil, t}
    BY <1>1, <1>10
  <2> QED BY <1>4, <1>10, <2>1, <2>2 DEF Keeps, c
<1>11. CASE todo[u] = d /\ Unlocked(d)
  BY <1>2, <1>9, <1>11, Zenon DEF Rest, d
<1>12. CASE /\ d.op = "insert" /\ d.pos > B.len /\ End(B) < Cap
            /\ todo[u] = [op |-> "push_tail", b |-> d.b, e |-> d.e]
  <2>1. D = B
    BY <1>7, <1>12
  <2> QED BY <1>2, <1>12, <2>1, Zenon DEF Rest, d
<1>13. CASE /\ d.op = "cat" /\ d.b # d.src /\ mtx[d.b] = u
            /\ todo[u] = [d EXCEPT !.op = "cat_count"] /\ CopiedBehind(B, iovs[d.src])
  <2>1. D = B /\ mtx'[d.b] = u /\ iovs'[d.src] = iovs[d.src]
    BY <1>8, <1>10, <1>13
  <2>2. CopiedBehind(D, iovs'[d.src])
    BY <1>13, <2>1, Zenon
  <2> QED BY <1>2, <1>13, <2>1, <2>2, Zenon DEF Rest, d
<1>14. CASE /\ d.op = "stream"
            /\ \/ todo[u] = [op |-> "stream", b |-> d.b, size |-> B.iolen]
               \/ todo[u] = [op |-> "stream_end", b |-> d.b, items |-> Items(B)]
  <2>1. D = B
    BY <1>7, <1>14
  <2> QED BY <1>2, <1>14, <2>1, Zenon DEF Rest, d
<1> QED BY <1>1, <1>11, <1>12, <1>13, <1>14, Zenon DEF Rest

(* A place is used up by the push it was kept for.                         *)
LEMMA RoomIsKept ==
  ASSUME IInv, NEW t \in Threads, Effect(t)
  PROVE  RoomKept'
<1> DEFINE c == call[t]
<1>1. /\ c \in Calls /\ c # Nil /\ call'[t] \in {c, Nil}
      /\ \A u \in Threads : u # t => call'[u] = call[u]
      /\ \A u \in Threads : u # t /\ call[u] # Nil => Apart(c, call[u])
  BY EffectTypes, Zenon DEF IInv, TypesHold, AllApart, Effect
<1> HIDE DEF c
<1> SUFFICES ASSUME NEW b \in Bufs PROVE End(iovs'[b]) + Cardinality(Pushing(b)') <= Cap
  BY Zenon DEF RoomKept
<1> DEFINE P == Pushing(b)
           Q == Pushing(b)'
           m == End(iovs[b])
           n == End(iovs'[b])
<1>2. Q \subseteq P
  <2>1. Q = {u \in Threads : call'[u] # Nil /\ call'[u].op = "push_tail" /\ call'[u].b = b}
    BY Zenon DEF Pushing
  <2>2. P = {u \in Threads : call[u] # Nil /\ call[u].op = "push_tail" /\ call[u].b = b}
    BY Zenon DEF Pushing
  <2>3. \A u \in Threads : call'[u] # Nil => call'[u] = call[u]
    BY <1>1, Zenon DEF c
  <2> QED BY <2>1, <2>2, <2>3, Zenon
<1>3. IsFiniteSet(P) /\ Cardinality(P) \in Nat
  <2>1. P \subseteq Threads
    BY Zenon DEF Pushing
  <2>2. IsFiniteSet(P)
    BY <2>1, FS_Subset, IovsAssumption
  <2> QED BY <2>2, FS_CardinalityType
<1>4. Keeps(t, b) /\ Sound(iovs[b]) /\ m + Cardinality(P) <= Cap
  BY Zenon DEF Effect, IInv, RoomKept
<1>5. m \in Nat /\ n \in Nat /\ n <= Cap
  <2>1. Sound(iovs'[b])
    BY <1>4 DEF Keeps
  <2> QED BY <1>4, <2>1, SoundIs
<1>6. Q \in SUBSET P
  BY <1>2, Zenon
<1> HIDE DEF P, Q, m, n
<1>7. IsFiniteSet(Q) /\ Cardinality(Q) \in Nat /\ Cardinality(Q) <= Cardinality(P)
  <2>1. IsFiniteSet(Q) /\ Cardinality(Q) <= Cardinality(P)
    BY <1>3, <1>6, FS_Subset
  <2> QED BY <2>1, FS_CardinalityType
<1>8. CASE n <= m
  BY <1>3, <1>4, <1>5, <1>7, <1>8, CapIs DEF Q, n
<1>9. CASE n > m
  <2>1. b = c.b /\ c.op \in {"renew", "insert", "cat", "push_tail"}
    <3>1. iovs'[b] # iovs[b]
      BY <1>5, <1>9 DEF m, n
    <3>2. b = c.b /\ c.op \in Adds \cup Pops \cup {"renew"}
      BY <1>4, <3>1 DEF Keeps, c
    <3>3. c.op \notin Pops \cup {"push_head"}
      BY <1>4, <1>5, <1>9 DEF Keeps, c, m, n
    <3> QED BY <3>2, <3>3 DEF Adds
  <2>2. CASE c.op = "push_tail"
    <3>1. n <= m + 1 /\ call'[t] = Nil
      BY <1>4, <1>5, <1>9, <2>2 DEF Keeps, c, m, n
    <3>2. t \in P /\ t \notin Q
      <4>1. t \in P
        BY <1>1, <2>1, <2>2, Zenon DEF P, Pushing, c
      <4>2. t \notin Q
        BY <3>1, Zenon DEF Q, Pushing
      <4> QED BY <4>1, <4>2
    <3>3. IsFiniteSet(P \ {t}) /\ Cardinality(P \ {t}) = Cardinality(P) - 1
      BY <1>3, <3>2, FS_RemoveElement
    <3>4. Q \in SUBSET (P \ {t})
      BY <1>6, <3>2
    <3>5. Cardinality(Q) <= Cardinality(P \ {t})
      BY <3>3, <3>4, FS_Subset
    <3> QED BY <1>3, <1>4, <1>5, <1>7, <3>1, <3>3, <3>5, CapIs DEF Q, n
  <2>3. CASE c.op # "push_tail"
    <3>1. Q = {}
      <4> SUFFICES ASSUME NEW u \in Threads, call'[u] # Nil, call'[u].op = "push_tail", call'[u].b = b
                   PROVE  FALSE
        BY Zenon DEF Q, Pushing
      <4>1. u # t
        BY <1>1, <2>3
      <4>2. call'[u] = call[u] /\ Apart(c, call[u]) /\ Apart(call[u], c)
        BY <1>1, <4>1, ApartIsMutual, Zenon
      <4>3. c.op = "insert" => call[u].b # c.b
        BY <4>2, ApartFacts DEF Buildings, Adds
      <4>4. c.b = call[u].b => c.op # "renew" /\ ~(c.op = "cat" /\ call[u].op \in Adds \ {"push_head"})
        BY <4>2, ApartFacts
      <4>5. "push_tail" \in Adds \ {"push_head"}
        BY DEF Adds
      <4> QED BY <2>1, <2>3, <4>2, <4>3, <4>4, <4>5
    <3>2. Cardinality(Q) = 0
      BY <3>1, FS_EmptySet
    <3> QED BY <1>5, <3>2, CapIs DEF Q, n
  <2> QED BY <2>2, <2>3
<1> QED BY <1>5, <1>8, <1>9

LEMMA EffectKeeps ==
  ASSUME IInv, NEW t \in Threads, Effect(t), ThreadOk(t)'
  PROVE  IInv'
<1>1. /\ TypesHold' /\ call'[t] \in {call[t], Nil}
      /\ \A u \in Threads : u # t => call'[u] = call[u] /\ todo'[u] = todo[u]
  BY EffectTypes, Zenon DEF IInv
<1>2. \A b \in Bufs : Sound(iovs'[b])
  BY Zenon DEF Effect, Keeps
<1>3. AllApart'
  <2>1. \A u \in Threads : call'[u] # Nil => call'[u] = call[u]
    BY <1>1, Zenon
  <2> QED BY <2>1, Zenon DEF IInv, AllApart
<1>4. ASSUME NEW u \in Threads, u # t PROVE ThreadOk(u)'
  <2>1. call'[u] # Nil => StillFits(call[u])'
    BY <1>1, <1>4, OthersFit, Zenon
  <2>2. todo'[u] # Nil => Rest(u, call[u], todo[u])'
    BY <1>1, <1>4, OthersRest, Zenon
  <2> QED BY <2>1, <2>2, Zenon DEF ThreadOk
<1>5. \A u \in Threads : ThreadOk(u)'
  BY <1>4, Zenon
<1> QED BY <1>1, <1>2, <1>3, <1>5, RoomIsKept, Zenon DEF IInv
-----------------------------------------------------------------------------
(* Steps that answer a call, or leave it to go on.                         *)

LEMMA AnswerGoes ==
  ASSUME TypesHold, NEW t \in Threads, NEW o, Answer(t, o)
  PROVE  Goes(t) /\ call'[t] = Nil /\ ThreadOk(t)' /\ G!Answer(t, o)
<1>1. call' = [call EXCEPT ![t] = Nil] /\ todo' = [todo EXCEPT ![t] = Nil]
  BY Zenon DEF Answer
<1>2. call'[t] = Nil /\ todo'[t] = Nil
  BY <1>1, Zenon DEF TypesHold
<1>3. Goes(t)
  BY <1>1, Zenon DEF Goes
<1>4. ThreadOk(t)'
  BY <1>2, Zenon DEF ThreadOk
<1>5. G!Answer(t, o)
  BY Zenon DEF Answer, G!Answer
<1> QED BY <1>2, <1>3, <1>4, <1>5, Zenon

LEMMA RestGoes ==
  ASSUME TypesHold, NEW t \in Threads, call[t] # Nil, NEW y \in Calls \cup Rests, UNCHANGED call,
         todo' = [todo EXCEPT ![t] = y]
  PROVE  Goes(t) /\ call'[t] = call[t] /\ todo'[t] = y
<1>1. call' = [call EXCEPT ![t] = call[t]]
  BY DEF TypesHold
<1>2. todo'[t] = y
  BY Zenon DEF TypesHold
<1>3. y \in Calls \cup Rests \cup {Nil} /\ call[t] \in {call[t], Nil}
  BY Zenon
<1>4. Goes(t)
  BY <1>1, <1>3, Zenon DEF Goes
<1> QED BY <1>2, <1>4, Zenon

LEMMA WaitGoes ==
  ASSUME TypesHold, NEW t \in Threads, call[t] # Nil, UNCHANGED <<call, todo>>
  PROVE  Goes(t) /\ call'[t] = call[t] /\ todo'[t] = todo[t]
<1>1. call' = [call EXCEPT ![t] = call[t]] /\ todo' = [todo EXCEPT ![t] = todo[t]]
  BY DEF TypesHold
<1>2. todo[t] \in Calls \cup Rests \cup {Nil} /\ call[t] \in {call[t], Nil}
  BY Zenon DEF TypesHold
<1>3. Goes(t)
  BY <1>1, <1>2, Zenon DEF Goes
<1> QED BY <1>3, Zenon

(* A mutex is taken that was free, or given back.                          *)
Frees(t) == /\ mtx' \in [Bufs -> Threads \cup {Nil}]
            /\ \A b \in Bufs : mtx'[b] # mtx[b] => mtx[b] \in {Nil, t}

LEMMA OneMutex ==
  ASSUME TypesHold, NEW t \in Threads, NEW b \in Bufs, mtx[b] \in {Nil, t},
         NEW x \in Threads \cup {Nil}, mtx' = [mtx EXCEPT ![b] = x]
  PROVE  Frees(t) /\ mtx'[b] = x /\ \A a \in Bufs : a # b => mtx'[a] = mtx[a]
<1>1. mtx \in [Bufs -> Threads \cup {Nil}]
  BY Zenon DEF TypesHold
<1>2. mtx' \in [Bufs -> Threads \cup {Nil}]
  BY <1>1, Zenon
<1>3. mtx'[b] = x /\ \A a \in Bufs : a # b => mtx'[a] = mtx[a]
  BY <1>1, Zenon
<1>4. \A a \in Bufs : mtx'[a] # mtx[a] => mtx[a] \in {Nil, t}
  BY <1>3, Zenon
<1> QED BY <1>2, <1>3, <1>4, Zenon DEF Frees

LEMMA NoMutex == ASSUME TypesHold, NEW t, UNCHANGED mtx PROVE Frees(t)
BY Zenon DEF TypesHold, Frees

(* The step leaves the entries where they are.                             *)
LEMMA StillEffect ==
  ASSUME IInv, NEW t \in Threads, call[t] # Nil, UNCHANGED <<iovs, key>>, Frees(t), Goes(t)
  PROVE  Effect(t)
<1>1. ASSUME NEW b \in Bufs PROVE Keeps(t, b)
  <2>1. PICK B, n, m : B = iovs[b] /\ n = B.len /\ m = End(B)
    OBVIOUS
  <2>2. Sound(B) /\ n \in Nat /\ m \in Nat
    <3>1. Sound(B)
      BY <2>1, Zenon DEF IInv
    <3> QED BY <2>1, <3>1, SoundIs
  <2>3. n >= n /\ m <= m
    BY <2>2
  <2>4. iovs'[b] = iovs[b] /\ key'[b] = key[b]
    BY <2>1, Zenon
  <2>5. mtx'[b] # mtx[b] => mtx[b] \in {Nil, t}
    BY Zenon DEF Frees
  <2>6. /\ Sound(iovs'[b]) /\ iovs'[b].len >= iovs[b].len
        /\ End(iovs'[b]) <= End(iovs[b])
    BY <2>1, <2>2, <2>3, <2>4
  <2> QED BY <2>4, <2>5, <2>6 DEF Keeps
<1>2. iovs' \in [Bufs -> Buffers] /\ mtx' \in [Bufs -> Threads \cup {Nil}] /\ key' \in [Bufs -> Keys]
  BY Zenon DEF IInv, TypesHold, Frees
<1> QED BY <1>1, <1>2, Zenon DEF Effect

(* The buffer of the call becomes D.                                       *)
Grows(t, B, D) ==
  LET c == call[t] IN
  /\ c.op \in Adds => D.len >= B.len
  /\ c.op \in Pops \cup {"push_head"} => End(D) <= End(B)
  /\ c.op = "push_tail" => End(D) <= End(B) \/ (End(D) <= End(B) + 1 /\ call'[t] = Nil)

LEMMA ChangeEffect ==
  ASSUME IInv, NEW t \in Threads, call[t] # Nil, NEW b \in Bufs, b = call[t].b, NEW D, Sound(D),
         iovs' = [iovs EXCEPT ![b] = D], UNCHANGED key, Frees(t), Goes(t),
         call[t].op \in Adds \cup Pops, mtx[b] = t, Grows(t, iovs[b], D)
  PROVE  Effect(t)
<1>1. iovs'[b] = D /\ \A a \in Bufs : a # b => iovs'[a] = iovs[a]
  BY Zenon DEF IInv, TypesHold
<1>2. Keeps(t, b)
  <2>1. mtx'[b] # mtx[b] => mtx[b] \in {Nil, t}
    BY Zenon DEF Frees
  <2>2. iovs'[b] = D /\ key'[b] = key[b]
    BY <1>1, Zenon
  <2> QED BY <2>1, <2>2 DEF Keeps, Grows
<1>3. ASSUME NEW a \in Bufs, a # b PROVE Keeps(t, a)
  <2>1. PICK B, n, m : B = iovs[a] /\ n = B.len /\ m = End(B)
    OBVIOUS
  <2>2. Sound(B) /\ n \in Nat /\ m \in Nat
    <3>1. Sound(B)
      BY <2>1, Zenon DEF IInv
    <3> QED BY <2>1, <3>1, SoundIs
  <2>3. n >= n /\ m <= m
    BY <2>2
  <2>4. iovs'[a] = iovs[a] /\ key'[a] = key[a]
    BY <1>1, <1>3, <2>1, Zenon
  <2>5. mtx'[a] # mtx[a] => mtx[a] \in {Nil, t}
    BY Zenon DEF Frees
  <2>6. /\ Sound(iovs'[a]) /\ iovs'[a].len >= iovs[a].len
        /\ End(iovs'[a]) <= End(iovs[a])
    BY <2>1, <2>2, <2>3, <2>4
  <2> QED BY <2>4, <2>5, <2>6 DEF Keeps
<1>4. iovs' \in [Bufs -> Buffers] /\ mtx' \in [Bufs -> Threads \cup {Nil}] /\ key' \in [Bufs -> Keys]
  <2>1. D \in Buffers
    BY Zenon DEF Sound
  <2> QED BY <2>1, Zenon DEF IInv, TypesHold, Frees
<1> QED BY <1>2, <1>3, <1>4, Zenon DEF Effect

-----------------------------------------------------------------------------
(* The sequences that Segments sees.                                       *)

LEMMA ViewIs ==
  ASSUME IInv, NEW b \in Bufs
  PROVE  /\ Entries[b] = Items(iovs[b]) /\ Room[b] = iovs[b].low
         /\ Shows(Entries[b], iovs[b]) /\ Entries[b] \in Seq(Elems)
         /\ Len(Entries[b]) = iovs[b].len /\ G!Behind(b) = Cap - iovs[b].low - iovs[b].len
<1>1. Entries[b] = Items(iovs[b]) /\ Room[b] = iovs[b].low
  BY Zenon DEF Entries, Room
<1>2. Filled(iovs[b])
  BY SoundIs, Zenon DEF IInv
<1>3. Shows(Entries[b], iovs[b])
  BY <1>1, <1>2, ItemsShow, Zenon
<1>4. Entries[b] \in Seq(Elems) /\ Len(Entries[b]) = iovs[b].len
  BY <1>3, Zenon DEF Shows
<1>5. G!Behind(b) = Cap - iovs[b].low - iovs[b].len
  BY <1>1, <1>4 DEF G!Behind
<1> QED BY <1>1, <1>3, <1>4, <1>5, Zenon

LEMMA ViewStays == ASSUME UNCHANGED iovs PROVE UNCHANGED <<Entries, Room>>
BY DEF Entries, Room

LEMMA ViewNext ==
  ASSUME IInv, NEW b \in Bufs, NEW D, iovs' = [iovs EXCEPT ![b] = D]
  PROVE  /\ Entries' = [Entries EXCEPT ![b] = Items(D)] /\ Room' = [Room EXCEPT ![b] = D.low]
<1>1. iovs'[b] = D /\ \A a \in Bufs : a # b => iovs'[a] = iovs[a]
  BY Zenon DEF IInv, TypesHold
<1>2. Entries' = [a \in Bufs |-> Items(iovs'[a])] /\ Room' = [a \in Bufs |-> iovs'[a].low]
  BY DEF Entries, Room, Items
<1>3. Entries = [a \in Bufs |-> Items(iovs[a])] /\ Room = [a \in Bufs |-> iovs[a].low]
  BY Zenon DEF Entries, Room
<1>4. \A a \in Bufs : Items(iovs'[a]) = IF a = b THEN Items(D) ELSE Items(iovs[a])
  BY <1>1
<1>5. \A a \in Bufs : iovs'[a].low = IF a = b THEN D.low ELSE iovs[a].low
  BY <1>1
<1> QED BY <1>2, <1>3, <1>4, <1>5
LEMMA InsertAtIs ==
  ASSUME NEW s, NEW pos \in Nat, NEW e
  PROVE  G!InsertAt(s, pos + 1, e) = WithEntry(s, pos, e)
<1>1. (pos + 1) - 1 = pos
  OBVIOUS
<1> QED BY <1>1, Zenon DEF G!InsertAt, WithEntry

LEMMA HeadIs ==
  ASSUME NEW s \in Seq(Elems), NEW e \in Elems
  PROVE  WithEntry(s, 0, e) = <<e>> \o s
<1>1. SubSeq(s, 1, 0) = <<>>
  BY SubSeqEmpty
<1>2. SubSeq(s, 0 + 1, Len(s)) = s
  <2>1. 0 + 1 = 1
    OBVIOUS
  <2> QED BY <2>1, SubSeqFull, Zenon
<1>3. <<>> \o <<e>> = <<e>>
  <2>1. <<e>> \in Seq(Elems)
    OBVIOUS
  <2> QED BY <2>1, ConcatEmptySeq
<1> QED BY <1>1, <1>2, <1>3, Zenon DEF WithEntry

LEMMA TailIs ==
  ASSUME NEW s \in Seq(Elems), Len(s) > 0
  PROVE  WithoutEntry(s, 0) = Tail(s)
<1>1. SubSeq(s, 1, 0) = <<>>
  BY SubSeqEmpty
<1>2. s # <<>> /\ 0 + 2 = 2
  OBVIOUS
<1>3. Tail(s) = SubSeq(s, 2, Len(s)) /\ Tail(s) \in Seq(Elems)
  BY <1>2, TailIsSubSeq, HeadTailProperties
<1>4. <<>> \o Tail(s) = Tail(s)
  BY <1>3, ConcatEmptySeq
<1> QED BY <1>1, <1>2, <1>3, <1>4, Zenon DEF WithoutEntry

LEMMA FrontIs ==
  ASSUME NEW s \in Seq(Elems), Len(s) > 0
  PROVE  WithoutEntry(s, Len(s) - 1) = G!Front(s)
<1>1. PICK n \in Nat : n = Len(s) /\ n > 0
  BY LenProperties
<1>2. SubSeq(s, (n - 1) + 2, n) = <<>>
  <2>1. (n - 1) + 2 \in Int /\ n \in Int /\ n < (n - 1) + 2
    BY <1>1
  <2> QED BY <2>1, SubSeqEmpty
<1>3. SubSeq(s, 1, n - 1) \in Seq(Elems)
  <2>1. 1 \in Nat /\ n - 1 \in Nat /\ 1 <= 1 /\ 1 <= (n - 1) + 1 /\ n - 1 <= Len(s)
    BY <1>1
  <2> QED BY <2>1, SubSeqIs
<1>4. SubSeq(s, 1, n - 1) \o <<>> = SubSeq(s, 1, n - 1)
  BY <1>3, ConcatEmptySeq
<1> QED BY <1>1, <1>2, <1>4, Zenon DEF WithoutEntry, G!Front

-----------------------------------------------------------------------------
(* The steps, by what they do to the buffers.                              *)

LEMMA StillStep ==
  ASSUME IInv, NEW t \in Threads, call[t] # Nil, UNCHANGED <<iovs, key>>, Frees(t), Goes(t),
         ThreadOk(t)'
  PROVE  IInv' /\ G!Stays
<1>1. IInv'
  BY StillEffect, EffectKeeps, Zenon
<1>2. UNCHANGED <<Entries, Room, key>>
  BY ViewStays
<1> QED BY <1>1, <1>2 DEF G!Stays

LEMMA QuietStep ==
  ASSUME IInv, NEW t \in Threads, NEW o, call[t] # Nil, UNCHANGED <<iovs, key>>, Frees(t),
         Answer(t, o)
  PROVE  IInv' /\ G!Stays /\ G!Answer(t, o)
BY AnswerGoes, StillStep, Zenon DEF IInv

LEMMA RefuseStep ==
  ASSUME IInv, NEW t \in Threads, NEW rv, call[t] # Nil, UNCHANGED <<iovs, key>>, Frees(t),
         Answer(t, Outcome(rv, <<>>, 0))
  PROVE  IInv' /\ G!Refuses(t, rv)
<1>1. PICK o : o = Outcome(rv, <<>>, 0)
  OBVIOUS
<1>2. IInv' /\ G!Stays /\ G!Answer(t, o)
  BY <1>1, QuietStep, Zenon
<1>3. o = G!Outcome(rv, <<>>, 0)
  BY <1>1, Zenon DEF Outcome, G!Outcome
<1> QED BY <1>2, <1>3, Zenon DEF G!Refuses

LEMMA ChangeStep ==
  ASSUME IInv, NEW t \in Threads, NEW o, NEW b \in Bufs, NEW D, call[t] # Nil, b = call[t].b,
         Sound(D), Becomes(b, D), Unlock(b), mtx[b] = t, call[t].op \in Adds \cup Pops,
         Answer(t, o), call'[t] = Nil => Grows(t, iovs[b], D)
  PROVE  IInv' /\ G!Becomes(b, Items(D), D.low) /\ G!Answer(t, o)
<1>1. TypesHold
  BY Zenon DEF IInv
<1>2. Goes(t) /\ call'[t] = Nil /\ ThreadOk(t)' /\ G!Answer(t, o)
  BY <1>1, AnswerGoes, Zenon
<1>3. Frees(t)
  <2>1. mtx' = [mtx EXCEPT ![b] = Nil] /\ mtx[b] \in {Nil, t} /\ Nil \in Threads \cup {Nil}
    BY DEF Unlock
  <2> QED BY <1>1, <2>1, OneMutex, Zenon
<1>4. iovs' = [iovs EXCEPT ![b] = D] /\ UNCHANGED key
  BY DEF Becomes, Unlock
<1>5. Effect(t)
  BY <1>2, <1>3, <1>4, ChangeEffect, Zenon
<1>6. IInv'
  BY <1>2, <1>5, EffectKeeps, Zenon
<1>7. Entries' = [Entries EXCEPT ![b] = Items(D)] /\ Room' = [Room EXCEPT ![b] = D.low]
  BY <1>4, ViewNext
<1>8. G!Becomes(b, Items(D), D.low)
  BY <1>4, <1>7, Zenon DEF G!Becomes
<1> QED BY <1>2, <1>6, <1>8, Zenon

LEMMA HolderIs ==
  ASSUME IInv, NEW t \in Threads, todo[t] # Nil
  PROVE  /\ call[t] # Nil /\ call[t] \in Calls /\ Rest(t, call[t], todo[t]) /\ StillFits(call[t])
         /\ todo[t].b = call[t].b /\ call[t].b \in Bufs /\ Sound(iovs[call[t].b]) /\ t # Nil
<1>1. /\ call[t] # Nil /\ call[t] \in Calls /\ Rest(t, call[t], todo[t]) /\ StillFits(call[t])
      /\ t # Nil
  <2>1. t # Nil
    BY IovsAssumption
  <2> QED BY <2>1, Zenon DEF IInv, TypesHold, ThreadOk
<1>2. call[t].b \in Bufs
      /\ (call[t].op = "cat" => call[t] = [op |-> "cat", b |-> call[t].b, src |-> call[t].src])
  BY <1>1, CallFacts
<1>3. todo[t].b = call[t].b
  BY <1>1, <1>2 DEF Rest
<1>4. Sound(iovs[call[t].b])
  BY <1>2, Zenon DEF IInv
<1> QED BY <1>1, <1>2, <1>3, <1>4, Zenon

LEMMA DoneIs == Done = G!Done /\ \A rv, s, n : Outcome(rv, s, n) = G!Outcome(rv, s, n)
BY DEF Done, G!Done, Outcome, G!Outcome

LEMMA PushHeadStep ==
  ASSUME IInv, NEW t \in Threads, PushHead(t)
  PROVE  IInv' /\ G!Respond(t)
<1>1. PICK c, d, B : c = call[t] /\ d = todo[t] /\ B = iovs[d.b]
  OBVIOUS
<1>2. d # Nil /\ d.op = "push_head" /\ mtx[d.b] = t /\ UNCHANGED key /\ Unlock(d.b)
  BY <1>1 DEF PushHead, Holds, Unlock
<1>3. c # Nil /\ c \in Calls /\ Rest(t, c, d) /\ d.b = c.b /\ c.b \in Bufs /\ Sound(B)
  BY <1>1, <1>2, HolderIs, Zenon
<1>4. d = c
  BY <1>2, <1>3, CallFacts DEF Rest
<1>5. c.e \in Elems /\ c.op \in Adds /\ c.op = "push_head"
  BY <1>2, <1>3, <1>4, CallFacts DEF Adds
<1>6. Room[c.b] = B.low /\ Entries[c.b] = Items(B) /\ Entries[c.b] \in Seq(Elems)
  BY <1>1, <1>3, ViewIs, Zenon
<1>7. B.low \in Nat /\ B.len \in Nat
  BY <1>3, SoundIs
<1>8. TypesHold
  BY Zenon DEF IInv
<1>9. Frees(t)
  <2>1. mtx' = [mtx EXCEPT ![c.b] = Nil] /\ mtx[c.b] \in {Nil, t} /\ Nil \in Threads \cup {Nil}
    BY <1>2, <1>4 DEF Unlock
  <2> QED BY <1>3, <1>8, <2>1, OneMutex, Zenon
<1>10. CASE B.low = 0
  <2>1. Answer(t, Outcome("ERR_OVERFLOW", <<>>, 0)) /\ UNCHANGED iovs
    BY <1>1, <1>10, <1>7 DEF PushHead
  <2>2. IInv' /\ G!Refuses(t, "ERR_OVERFLOW")
    BY <1>1, <1>2, <1>3, <1>9, <2>1, RefuseStep
  <2>3. G!PushHead(t, c)
    BY <1>6, <1>10, <2>2, Zenon DEF G!PushHead
  <2> QED BY <1>1, <1>3, <1>5, <2>2, <2>3, Zenon DEF G!Respond
<1>11. CASE B.low > 0
  <2>1. PICK D : D = Put(B, B.low - 1, B.low - 1, c.e)
    OBVIOUS
  <2>2. Becomes(c.b, D) /\ Answer(t, Done)
    <3>1. B.low # 0
      BY <1>7, <1>11
    <3> QED BY <1>1, <1>4, <2>1, <3>1, Zenon DEF PushHead
  <2>3. AddedTo(B, D, 0, c.e) /\ Sound(D) /\ D.low = B.low - 1 /\ D.len = B.len + 1
    BY <1>3, <1>5, <1>11, <2>1, PutHead
  <2>4. Grows(t, B, D)
    <3>1. D.len >= B.len /\ End(D) <= End(B)
      BY <1>7, <2>3 DEF End
    <3> QED BY <1>1, <1>5, <3>1 DEF Grows
  <2>5. IInv' /\ G!Becomes(c.b, Items(D), D.low) /\ G!Answer(t, Done)
    <3>1. /\ call[t] # Nil /\ c.b = call[t].b /\ c.b \in Bufs /\ call[t].op \in Adds \cup Pops
          /\ Unlock(c.b) /\ mtx[c.b] = t /\ Grows(t, iovs[c.b], D)
      BY <1>1, <1>2, <1>3, <1>4, <1>5, <2>4
    <3> QED BY <2>2, <2>3, <3>1, ChangeStep, Zenon
  <2>6. Items(D) = <<c.e>> \o Items(B)
    <3>1. Items(D) = WithEntry(Items(B), 0, c.e)
      BY <2>3, ItemsWith
    <3>2. Items(B) \in Seq(Elems)
      BY <1>6
    <3> QED BY <1>5, <3>1, <3>2, HeadIs
  <2>7. G!PushHead(t, c)
    BY <1>6, <1>11, <2>3, <2>5, <2>6, DoneIs, Zenon DEF G!PushHead
  <2> QED BY <1>1, <1>3, <1>5, <2>5, <2>7, Zenon DEF G!Respond
<1> QED BY <1>7, <1>10, <1>11
LEMMA AddStep ==
  ASSUME IInv, NEW t \in Threads, NEW c, NEW D, NEW p, NEW pos \in Nat,
         c = call[t], c # Nil, c \in Calls, c.op \in {"push_tail", "insert"},
         AddedTo(iovs[c.b], D, p, c.e), Sound(D), D.low = iovs[c.b].low,
         p = IF pos > iovs[c.b].len THEN iovs[c.b].len ELSE pos,
         Becomes(c.b, D), Unlock(c.b), mtx[c.b] = t, Answer(t, Done)
  PROVE  IInv' /\ G!Add(t, c, pos)
<1>1. c.b \in Bufs /\ c.e \in Elems
  BY CallFacts
<1>2. PICK B, s : B = iovs[c.b] /\ s = Entries[c.b]
  OBVIOUS
<1>3. /\ s = Items(B) /\ Room[c.b] = B.low /\ s \in Seq(Elems) /\ Len(s) = B.len
      /\ G!Behind(c.b) = Cap - B.low - B.len
  BY <1>1, <1>2, ViewIs, Zenon
<1>4. Sound(B)
  BY <1>1, <1>2, Zenon DEF IInv
<1>5. B.low \in Nat /\ B.len \in Nat /\ End(B) = B.low + B.len
  BY <1>4, SoundIs
<1>6. D.len = B.len + 1 /\ p \in Nat /\ AddedTo(B, D, p, c.e)
  BY <1>2, <1>5 DEF AddedTo
<1>7. End(D) = B.low + B.len + 1 /\ End(D) <= Cap
  <2>1. End(D) <= Cap /\ End(D) = B.low + (B.len + 1)
    BY <1>2, <1>6, Zenon DEF Sound, End
  <2> QED BY <1>5, <2>1
<1>8. call'[t] = Nil => Grows(t, B, D)
  <2>1. D.len >= B.len /\ End(D) <= End(B) + 1
    BY <1>5, <1>6, <1>7
  <2>2. call[t].op \notin Pops \cup {"push_head"}
    BY DEF Pops
  <2> QED BY <2>1, <2>2, Zenon DEF Grows
<1>9. IInv' /\ G!Becomes(c.b, Items(D), D.low) /\ G!Answer(t, Done)
  <2>1. /\ call[t] # Nil /\ c.b = call[t].b /\ call[t].op \in Adds \cup Pops
        /\ call'[t] = Nil => Grows(t, iovs[c.b], D)
    BY <1>2, <1>8 DEF Adds
  <2> QED BY <1>1, <2>1, ChangeStep, Zenon
<1>10. Items(D) = WithEntry(s, p, c.e)
  BY <1>3, <1>6, ItemsWith
<1>11. G!InsertAt(s, IF pos > Len(s) THEN Len(s) + 1 ELSE pos + 1, c.e) = Items(D)
  <2>1. (IF pos > Len(s) THEN Len(s) + 1 ELSE pos + 1) = p + 1
    BY <1>2, <1>3
  <2>2. G!InsertAt(s, p + 1, c.e) = WithEntry(s, p, c.e)
    BY <1>6, InsertAtIs
  <2> QED BY <1>10, <2>1, <2>2
<1>12. G!Behind(c.b) > 0
  BY <1>3, <1>5, <1>7, CapIs
<1>13. G!Becomes(c.b, G!InsertAt(s, IF pos > Len(s) THEN Len(s) + 1 ELSE pos + 1, c.e), Room[c.b])
  <2>1. D.low = Room[c.b]
    BY <1>2, <1>3
  <2> QED BY <1>9, <1>11, <2>1
<1>14. G!Answer(t, G!Done)
  BY <1>9, DoneIs
<1> QED BY <1>2, <1>9, <1>12, <1>13, <1>14, Zenon DEF G!Add

LEMMA RoomFor ==
  ASSUME IInv, NEW t \in Threads, call[t] # Nil, call[t].op = "push_tail", call[t].b \in Bufs
  PROVE  End(iovs[call[t].b]) < Cap
<1>1. PICK b \in Bufs : b = call[t].b
  OBVIOUS
<1>2. PICK P, n : P = Pushing(b) /\ n = End(iovs[b])
  OBVIOUS
<1>3. t \in P /\ P \subseteq Threads
  BY <1>1, <1>2, Zenon DEF Pushing
<1>4. IsFiniteSet(P)
  BY <1>3, FS_Subset, IovsAssumption
<1>5. Cardinality(P) \in Nat
  BY <1>4, FS_CardinalityType
<1>6. Cardinality(P) # 0
  <2>1. P # {}
    BY <1>3, Zenon
  <2> QED BY <1>4, <2>1, FS_EmptySet
<1>7. n + Cardinality(P) <= Cap /\ n \in Nat
  <2>1. Sound(iovs[b])
    BY Zenon DEF IInv
  <2>2. n \in Nat
    BY <1>2, <2>1, SoundIs
  <2> QED BY <1>2, <2>2, Zenon DEF IInv, RoomKept
<1>8. n < Cap
  BY <1>5, <1>6, <1>7, CapIs
<1> QED BY <1>1, <1>2, <1>8

LEMMA PushTailStep ==
  ASSUME IInv, NEW t \in Threads, PushTail(t)
  PROVE  IInv' /\ G!Respond(t)
<1>1. PICK c, d, B : c = call[t] /\ d = todo[t] /\ B = iovs[d.b]
  OBVIOUS
<1>2. d # Nil /\ d.op = "push_tail" /\ mtx[d.b] = t /\ Unlock(d.b)
  BY <1>1 DEF PushTail, Holds
<1>3. c # Nil /\ c \in Calls /\ Rest(t, c, d) /\ d.b = c.b /\ c.b \in Bufs /\ Sound(B)
  BY <1>1, <1>2, HolderIs, Zenon
<1>4. \/ d = c /\ c.op = "push_tail"
      \/ /\ c.op = "insert" /\ c.pos > iovs[c.b].len /\ End(iovs[c.b]) < Cap
         /\ d = [op |-> "push_tail", b |-> c.b, e |-> c.e]
  BY <1>2, <1>3, CallFacts DEF Rest
<1>5. d.e = c.e /\ c.e \in Elems
  BY <1>3, <1>4, CallFacts
<1>6. End(B) < Cap
  <2>1. CASE d = c /\ c.op = "push_tail"
    BY <1>1, <1>3, <2>1, RoomFor
  <2>2. CASE End(iovs[c.b]) < Cap
    BY <1>1, <1>3, <2>2
  <2> QED BY <1>4, <2>1, <2>2
<1>7. B.low \in Nat /\ B.len \in Nat /\ End(B) = B.low + B.len
  BY <1>3, SoundIs
<1>8. PICK D : D = Put(B, B.low, End(B), c.e)
  OBVIOUS
<1>9. AddedTo(B, D, B.len, c.e) /\ Sound(D) /\ D.low = B.low /\ D.len = B.len + 1
  BY <1>3, <1>5, <1>6, <1>8, PutTail
<1>10. Becomes(c.b, D) /\ Answer(t, Done)
  <2>1. End(B) \in Slots
    BY <1>6, <1>7, CapIs DEF Slots
  <2> QED BY <1>1, <1>3, <1>5, <1>8, <2>1, Zenon DEF PushTail
<1>11. ASSUME NEW pos \in Nat, pos >= B.len PROVE IInv' /\ G!Add(t, c, pos)
  <2>1. B.len = IF pos > B.len THEN B.len ELSE pos
    BY <1>7, <1>11
  <2>2. /\ c.op \in {"push_tail", "insert"} /\ iovs[c.b] = B /\ Unlock(c.b) /\ mtx[c.b] = t
    BY <1>1, <1>2, <1>3, <1>4
  <2> QED BY <1>1, <1>3, <1>9, <1>10, <2>1, <2>2, AddStep
<1>12. CASE c.op = "push_tail"
  <2>1. Len(Entries[c.b]) = B.len
    BY <1>1, <1>3, ViewIs, Zenon
  <2>2. B.len >= B.len
    BY <1>7
  <2>3. IInv' /\ G!Add(t, c, B.len)
    BY <1>7, <1>11, <2>2
  <2> QED BY <1>1, <1>3, <1>12, <2>1, <2>3, Zenon DEF G!Respond
<1>13. CASE c.op = "insert" /\ c.pos > iovs[c.b].len
  <2>1. c.pos \in Nat /\ c.pos >= B.len
    BY <1>1, <1>3, <1>7, <1>13, CallFacts
  <2>2. IInv' /\ G!Add(t, c, c.pos)
    BY <1>11, <2>1
  <2> QED BY <1>1, <1>3, <1>13, <2>2, Zenon DEF G!Respond
<1> QED BY <1>4, <1>12, <1>13

LEMMA InsertStep ==
  ASSUME IInv, NEW t \in Threads, Insert(t)
  PROVE  IInv' /\ G!Respond(t)
<1>1. PICK c, d, B : c = call[t] /\ d = todo[t] /\ B = iovs[d.b]
  OBVIOUS
<1>2. d # Nil /\ d.op = "insert" /\ mtx[d.b] = t /\ Unlock(d.b)
  BY <1>1 DEF Insert, Holds
<1>3. c # Nil /\ c \in Calls /\ Rest(t, c, d) /\ d.b = c.b /\ c.b \in Bufs /\ Sound(B) /\ StillFits(c)
  BY <1>1, <1>2, HolderIs, Zenon
<1>4. d = c /\ Unlocked(c)
  BY <1>2, <1>3, CallFacts DEF Rest
<1>5. c.e \in Elems /\ c.pos \in Nat /\ c.op = "insert" /\ c.pos <= B.len /\ End(B) < Cap
  BY <1>1, <1>2, <1>3, <1>4, CallFacts DEF Unlocked
<1>6. B.low \in Nat /\ B.len \in Nat /\ End(B) = B.low + B.len
  BY <1>3, SoundIs
<1>7. B.low = 0
  BY <1>1, <1>3, <1>5, <1>6 DEF StillFits
<1>8. PICK D : D = Inserted(B, c.pos, c.e)
  OBVIOUS
<1>9. AddedTo(B, D, c.pos, c.e) /\ Sound(D) /\ D.low = 0 /\ D.len = B.len + 1
  BY <1>3, <1>5, <1>7, <1>8, PutBetween
<1>10. Becomes(c.b, D) /\ Answer(t, Done)
  <2>1. End(B) \in Slots
    BY <1>5, <1>6, CapIs DEF Slots
  <2> QED BY <1>1, <1>4, <1>8, <2>1, Zenon DEF Insert, Inserted
<1>11. IInv' /\ G!Add(t, c, c.pos)
  <2>1. c.pos = IF c.pos > B.len THEN B.len ELSE c.pos
    BY <1>5, <1>6
  <2>2. /\ c.op \in {"push_tail", "insert"} /\ iovs[c.b] = B /\ Unlock(c.b) /\ mtx[c.b] = t
        /\ D.low = B.low
    BY <1>1, <1>2, <1>3, <1>5, <1>7, <1>9
  <2> QED BY <1>1, <1>3, <1>5, <1>9, <1>10, <2>1, <2>2, AddStep
<1> QED BY <1>1, <1>3, <1>5, <1>11, Zenon DEF G!Respond
LEMMA PopStep ==
  ASSUME IInv, NEW t \in Threads, Pop(t)
  PROVE  IInv' /\ G!Respond(t)
<1>1. PICK c, d, B, s : c = call[t] /\ d = todo[t] /\ B = iovs[d.b] /\ s = Entries[c.b]
  OBVIOUS
<1>2. d # Nil /\ d.op \in Pops /\ mtx[d.b] = t /\ Unlock(d.b)
  BY <1>1 DEF Pop, Holds
<1>3. c # Nil /\ c \in Calls /\ Rest(t, c, d) /\ d.b = c.b /\ c.b \in Bufs /\ Sound(B)
  BY <1>1, <1>2, HolderIs, Zenon
<1>4. d = c /\ Unlocked(c)
  BY <1>2, <1>3, CallFacts DEF Rest, Pops
<1>5. B.len > 0 /\ c.op \in {"pop_head", "pop_tail"} /\ c.op \notin Adds \cup {"push_tail"}
  <2>1. c.op \in {"pop_head", "pop_tail"}
    BY <1>2, <1>4 DEF Pops
  <2>2. B.len > 0
    BY <1>1, <1>2, <1>4, Zenon DEF Unlocked
  <2> QED BY <2>1, <2>2 DEF Adds
<1>6. B.low \in Nat /\ B.len \in Nat /\ End(B) = B.low + B.len
  BY <1>3, SoundIs
<1>7. /\ s = Items(B) /\ Room[c.b] = B.low /\ s \in Seq(Elems) /\ Len(s) = B.len
      /\ \A i \in 0..(B.len - 1) : s[i + 1] = B.arr[B.low + i]
  <2>1. /\ s = Items(B) /\ Room[c.b] = B.low /\ Shows(s, B)
    BY <1>1, <1>3, ViewIs, Zenon
  <2> QED BY <2>1, Zenon DEF Shows
<1>8. s # <<>>
  BY <1>5, <1>7
<1>9. ASSUME NEW D, NEW i, Sound(D), D.len = B.len - 1, D.low \in {B.low, B.low + 1},
             End(D) <= End(B), Becomes(c.b, D), Answer(t, Outcome("ok", <<i>>, Size[i]))
      PROVE  IInv' /\ G!Becomes(c.b, Items(D), D.low) /\ G!Answer(t, G!One(i))
  <2>1. PICK o : o = Outcome("ok", <<i>>, Size[i])
    OBVIOUS
  <2>2. o = G!One(i)
    BY <2>1, DoneIs DEF G!One
  <2>3. Grows(t, B, D)
    BY <1>1, <1>5, <1>9 DEF Grows
  <2>4. /\ call[t] # Nil /\ c.b = call[t].b /\ call[t].op \in Adds \cup Pops /\ Unlock(c.b)
        /\ mtx[c.b] = t /\ Grows(t, iovs[c.b], D)
    BY <1>1, <1>2, <1>3, <1>4, <2>3
  <2> QED BY <1>3, <1>9, <2>1, <2>2, <2>4, ChangeStep, Zenon
<1>10. CASE c.op = "pop_head"
  <2>1. PICK D, e : D = Taken(B, B.low + 1, B.low) /\ e = B.arr[B.low]
    OBVIOUS
  <2>2. DroppedFrom(B, D, 0) /\ Sound(D) /\ D.low = B.low + 1 /\ D.len = B.len - 1
    BY <1>3, <1>5, <2>1, TakenHead
  <2>3. Becomes(c.b, D) /\ Answer(t, Outcome("ok", <<e>>, Size[e]))
    BY <1>1, <1>4, <1>5, <1>10, <2>1, Zenon DEF Pop
  <2>4. End(D) <= End(B)
    BY <1>6, <2>2 DEF End
  <2>5. IInv' /\ G!Becomes(c.b, Items(D), D.low) /\ G!Answer(t, G!One(e))
    BY <1>9, <2>2, <2>3, <2>4
  <2>6. e = s[1]
    <3>1. 0 \in 0..(B.len - 1) /\ 0 + 1 = 1 /\ B.low + 0 = B.low
      BY <1>5, <1>6
    <3> QED BY <1>7, <2>1, <3>1
  <2>7. Items(D) = Tail(s)
    <3>1. Items(D) = WithoutEntry(s, 0)
      BY <1>7, <2>2, ItemsWithout
    <3>2. Len(s) > 0 /\ s \in Seq(Elems)
      BY <1>5, <1>7
    <3> QED BY <3>1, <3>2, TailIs
  <2>8. G!Pop(t, c)
    BY <1>1, <1>7, <1>8, <1>10, <2>2, <2>5, <2>6, <2>7, Zenon DEF G!Pop
  <2> QED BY <1>1, <1>3, <1>5, <2>5, <2>8, Zenon DEF G!Respond
<1>11. CASE c.op = "pop_tail"
  <2>1. PICK D, e : D = Taken(B, B.low, End(B) - 1) /\ e = B.arr[End(B) - 1]
    OBVIOUS
  <2>2. /\ DroppedFrom(B, D, B.len - 1) /\ Sound(D) /\ D.low = B.low /\ D.len = B.len - 1
        /\ End(B) - 1 = B.low + (B.len - 1)
    BY <1>3, <1>5, <2>1, TakenTail
  <2>3. Becomes(c.b, D) /\ Answer(t, Outcome("ok", <<e>>, Size[e]))
    <3>1. c.op # "pop_head"
      BY <1>11
    <3> QED BY <1>1, <1>4, <1>5, <3>1, <2>1, Zenon DEF Pop
  <2>4. End(D) <= End(B)
    BY <1>6, <2>2 DEF End
  <2>5. IInv' /\ G!Becomes(c.b, Items(D), D.low) /\ G!Answer(t, G!One(e))
    BY <1>9, <2>2, <2>3, <2>4
  <2>6. e = G!Last(s)
    <3>1. B.len - 1 \in 0..(B.len - 1) /\ (B.len - 1) + 1 = B.len
      BY <1>5, <1>6
    <3>2. s[(B.len - 1) + 1] = B.arr[B.low + (B.len - 1)]
      BY <1>7, <3>1, Zenon
    <3> QED BY <1>7, <2>1, <2>2, <3>1, <3>2 DEF G!Last
  <2>7. Items(D) = G!Front(s)
    <3>1. Items(D) = WithoutEntry(s, Len(s) - 1)
      BY <1>7, <2>2, ItemsWithout
    <3>2. Len(s) > 0 /\ s \in Seq(Elems)
      BY <1>5, <1>7
    <3> QED BY <3>1, <3>2, FrontIs
  <2>8. G!Pop(t, c)
    BY <1>1, <1>7, <1>8, <1>11, <2>2, <2>5, <2>6, <2>7, Zenon DEF G!Pop
  <2> QED BY <1>1, <1>3, <1>5, <2>5, <2>8, Zenon DEF G!Respond
<1> QED BY <1>5, <1>10, <1>11

(* A step that leaves every sequence as it is: the call goes on.           *)
LEMMA CatCountStep ==
  ASSUME IInv, NEW t \in Threads, CatCount(t)
  PROVE  IInv' /\ G!Respond(t)
<1>1. PICK c, d, B, S : c = call[t] /\ d = todo[t] /\ B = iovs[d.b] /\ S = iovs[d.src]
  OBVIOUS
<1>2. d # Nil /\ d.op = "cat_count" /\ mtx[d.b] = t /\ Unlock(d.b)
  BY <1>1 DEF CatCount, Holds
<1>3. c # Nil /\ c \in Calls /\ Rest(t, c, d) /\ d.b = c.b /\ c.b \in Bufs /\ Sound(B)
  BY <1>1, <1>2, HolderIs, Zenon
<1>4. /\ c.op = "cat" /\ d.src = c.src /\ c.src \in Bufs
      /\ CopiedBehind(iovs[c.b], iovs[c.src])
  BY <1>2, <1>3, CallFacts DEF Rest, Unlocked, Adds, Pops
<1>5. Sound(S) /\ CopiedBehind(B, S)
  BY <1>1, <1>3, <1>4 DEF IInv
<1>6. PICK D : D = Counted(B, S)
  OBVIOUS
<1>7. JoinedTo(B, S, D) /\ Sound(D) /\ D.low = B.low /\ D.len = B.len + S.len
  BY <1>3, <1>5, <1>6, CountJoins
<1>8. Becomes(c.b, D) /\ Answer(t, Done)
  BY <1>1, <1>3, <1>6, Zenon DEF CatCount, Counted
<1>9. /\ B.low \in Nat /\ B.len \in Nat /\ S.len \in Nat /\ B.low + B.len + S.len <= Cap
  <2>1. B.low \in Nat /\ B.len \in Nat /\ S.len \in Nat
    BY <1>3, <1>5, SoundIs
  <2>2. B.low + B.len + S.len <= Cap
    BY <1>5, <2>1 DEF CopiedBehind, End
  <2> QED BY <2>1, <2>2
<1>10. Grows(t, B, D)
  <2>1. D.len >= B.len
    BY <1>7, <1>9
  <2> QED BY <1>1, <1>4, <2>1 DEF Grows, Pops
<1>11. IInv' /\ G!Becomes(c.b, Items(D), D.low) /\ G!Answer(t, Done)
  <2>1. /\ call[t] # Nil /\ c.b = call[t].b /\ call[t].op \in Adds \cup Pops
        /\ Unlock(c.b) /\ mtx[c.b] = t /\ Grows(t, iovs[c.b], D)
    BY <1>1, <1>2, <1>3, <1>4, <1>10 DEF Adds
  <2> QED BY <1>3, <1>7, <1>8, <2>1, ChangeStep, Zenon
<1>12. /\ Entries[c.b] = Items(B) /\ Room[c.b] = B.low /\ Entries[c.src] = Items(S)
       /\ Len(Entries[c.src]) = S.len /\ G!Behind(c.b) = Cap - B.low - B.len
  BY <1>1, <1>3, <1>4, ViewIs, Zenon
<1>13. G!Behind(c.b) >= Len(Entries[c.src])
  BY <1>9, <1>12, CapIs
<1>14. Items(D) = Entries[c.b] \o Entries[c.src]
  <2>1. Items(D) = Items(B) \o Items(S)
    BY <1>7, ItemsJoined, Zenon
  <2> QED BY <1>12, <2>1, Zenon
<1>15. G!Cat(t, c)
  BY <1>7, <1>11, <1>12, <1>13, <1>14, DoneIs, Zenon DEF G!Cat
<1> QED BY <1>1, <1>3, <1>4, <1>11, <1>15, Zenon DEF G!Respond
LEMMA SameOk ==
  ASSUME IInv, NEW t \in Threads, UNCHANGED <<iovs, key, call, todo>>,
         \A b \in Bufs : mtx[b] = t => mtx'[b] = t
  PROVE  ThreadOk(t)'
<1>1. call[t] # Nil => StillFits(call[t])'
  <2>1. call[t] # Nil => StillFits(call[t])
    BY Zenon DEF IInv, ThreadOk
  <2> QED BY <2>1 DEF StillFits
<1>2. todo[t] # Nil => Rest(t, call[t], todo[t])'
  <2> HAVE todo[t] # Nil
  <2>1. Rest(t, call[t], todo[t]) /\ call[t].b \in Bufs
    BY HolderIs, Zenon
  <2>2. mtx[call[t].b] = t => mtx'[call[t].b] = t
    BY <2>1, Zenon
  <2> QED BY <2>1, <2>2 DEF Rest, Unlocked, CopiedBehind
<1> QED BY <1>1, <1>2 DEF ThreadOk

LEMMA LockStep ==
  ASSUME IInv, NEW t \in Threads, Lock(t) \/ LockSource(t)
  PROVE  IInv' /\ UNCHANGED G!gvars
<1>1. PICK c, d : c = call[t] /\ d = todo[t]
  OBVIOUS
<1>2. d # Nil /\ UNCHANGED <<iovs, key, call, ret, todo>>
  BY <1>1 DEF Lock, LockSource, Holds
<1>3. c # Nil /\ c \in Calls /\ Rest(t, c, d) /\ d.b = c.b /\ c.b \in Bufs /\ t # Nil
  BY <1>1, <1>2, HolderIs, Zenon
<1>4. PICK b \in Bufs : mtx[b] = Nil /\ mtx' = [mtx EXCEPT ![b] = t]
  <2>1. CASE Lock(t)
    BY <1>1, <1>3, <2>1 DEF Lock
  <2>2. CASE LockSource(t)
    <3>1. d.op = "cat" /\ mtx[d.src] = Nil /\ mtx' = [mtx EXCEPT ![d.src] = t]
      BY <1>1, <2>2 DEF LockSource, Holds
    <3>2. d.src \in Bufs
      BY <1>3, <3>1, CallFacts DEF Rest
    <3> QED BY <3>1, <3>2
  <2> QED BY <2>1, <2>2
<1>5. TypesHold
  BY Zenon DEF IInv
<1>6. Frees(t) /\ mtx'[b] = t /\ \A a \in Bufs : a # b => mtx'[a] = mtx[a]
  <2>1. mtx[b] \in {Nil, t} /\ t \in Threads \cup {Nil}
    BY <1>4
  <2> QED BY <1>4, <1>5, <2>1, OneMutex, Zenon
<1>7. ThreadOk(t)'
  <2>1. \A a \in Bufs : mtx[a] = t => mtx'[a] = t
    BY <1>6
  <2> QED BY <1>2, <2>1, SameOk
<1>8. Goes(t)
  BY <1>1, <1>2, <1>3, <1>5, WaitGoes
<1>9. IInv' /\ G!Stays
  BY <1>1, <1>2, <1>3, <1>6, <1>7, <1>8, StillStep
<1> QED BY <1>2, <1>9 DEF G!Stays, G!gvars

LEMMA CatCopyStep ==
  ASSUME IInv, NEW t \in Threads, CatCopy(t)
  PROVE  IInv' /\ UNCHANGED G!gvars
<1>1. PICK c, d, B, S : c = call[t] /\ d = todo[t] /\ B = iovs[d.b] /\ S = iovs[d.src]
  OBVIOUS
<1>2. d # Nil /\ d.op = "cat" /\ mtx[d.b] = t /\ d.b # d.src /\ mtx[d.src] = t /\ UNCHANGED key
  BY <1>1 DEF CatCopy, Holds
<1>3. c # Nil /\ c \in Calls /\ Rest(t, c, d) /\ d.b = c.b /\ c.b \in Bufs /\ Sound(B) /\ t # Nil
  BY <1>1, <1>2, HolderIs, Zenon
<1>4. d = c /\ Unlocked(c)
  BY <1>2, <1>3, CallFacts DEF Rest
<1>5. c.op = "cat" /\ c.src \in Bufs /\ Sound(S) /\ End(B) + S.len <= Cap
  <2>1. c.op = "cat" /\ c.src \in Bufs
    BY <1>2, <1>3, <1>4, CallFacts
  <2>2. Sound(S)
    BY <1>1, <1>4, <2>1 DEF IInv
  <2>3. End(B) + S.len <= Cap
    BY <1>1, <1>4, <2>1 DEF Unlocked
  <2> QED BY <2>1, <2>2, <2>3
<1>6. PICK D : D = Copied(B, S)
  OBVIOUS
<1>7. /\ Sound(D) /\ D.low = B.low /\ D.len = B.len
      /\ Items(D) = Items(B) /\ CopiedBehind(D, S)
  BY <1>3, <1>5, <1>6, CopyBehind
<1>8. PICK y : y = [d EXCEPT !.op = "cat_count"]
  OBVIOUS
<1>9. /\ iovs' = [iovs EXCEPT ![c.b] = D] /\ mtx' = [mtx EXCEPT ![c.src] = Nil]
      /\ todo' = [todo EXCEPT ![t] = y] /\ UNCHANGED <<call, ret>>
  BY <1>1, <1>4, <1>5, <1>6, <1>8, Zenon DEF CatCopy, Copied, Becomes
<1>10. y \in Calls \cup Rests
  <2>1. c = [op |-> "cat", b |-> c.b, src |-> c.src]
    BY <1>3, <1>5, CallFacts
  <2>2. y = [op |-> "cat_count", b |-> c.b, src |-> c.src]
    BY <1>4, <1>8, <2>1
  <2> QED BY <1>3, <1>5, <2>2 DEF Rests
<1>11. TypesHold
  BY Zenon DEF IInv
<1>12. Goes(t) /\ call'[t] = c /\ todo'[t] = y
  BY <1>1, <1>3, <1>9, <1>10, <1>11, RestGoes
<1>13. Frees(t) /\ mtx'[c.b] = t
  <2>1. mtx[c.src] \in {Nil, t} /\ Nil \in Threads \cup {Nil} /\ c.b # c.src /\ mtx[c.b] = t
    BY <1>2, <1>4
  <2>2. Frees(t) /\ \A a \in Bufs : a # c.src => mtx'[a] = mtx[a]
    BY <1>5, <1>9, <1>11, <2>1, OneMutex, Zenon
  <2> QED BY <1>3, <2>1, <2>2
<1>14. Grows(t, B, D)
  <2>1. D.len >= B.len
    BY <1>3, <1>7, SoundIs
  <2> QED BY <1>1, <1>5, <2>1 DEF Grows, Pops
<1>15. Effect(t)
  <2>1. /\ call[t] # Nil /\ c.b = call[t].b /\ call[t].op \in Adds \cup Pops
        /\ mtx[c.b] = t /\ Grows(t, iovs[c.b], D)
    BY <1>1, <1>2, <1>3, <1>4, <1>5, <1>14 DEF Adds
  <2> QED BY <1>2, <1>3, <1>7, <1>9, <1>12, <1>13, <2>1, ChangeEffect, Zenon
<1>16. iovs'[c.b] = D /\ iovs'[c.src] = S
  BY <1>1, <1>2, <1>3, <1>4, <1>5, <1>9 DEF IInv, TypesHold
<1>17. ThreadOk(t)'
  <2>1. Rest(t, call[t], todo[t])'
    <3>1. /\ c.op = "cat" /\ c.b # c.src /\ mtx'[c.b] = t
          /\ y = [c EXCEPT !.op = "cat_count"] /\ CopiedBehind(iovs'[c.b], iovs'[c.src])
      BY <1>2, <1>4, <1>5, <1>7, <1>8, <1>13, <1>16
    <3> QED BY <1>12, <3>1, Zenon DEF Rest
  <2>2. StillFits(call[t])'
    BY <1>5, <1>12 DEF StillFits
  <2> QED BY <2>1, <2>2, Zenon DEF ThreadOk
<1>18. IInv'
  BY <1>15, <1>17, EffectKeeps, Zenon
<1>19. Entries' = Entries /\ Room' = Room
  <2>1. Entries' = [Entries EXCEPT ![c.b] = Items(D)] /\ Room' = [Room EXCEPT ![c.b] = D.low]
    BY <1>3, <1>9, ViewNext
  <2>2. Entries[c.b] = Items(D) /\ Room[c.b] = D.low
    BY <1>1, <1>3, <1>7, ViewIs
  <2>3. Entries = [a \in Bufs |-> Entries[a]] /\ Room = [a \in Bufs |-> Room[a]]
    BY DEF Entries, Room
  <2> QED BY <2>1, <2>2, <2>3
<1> QED BY <1>2, <1>9, <1>18, <1>19 DEF G!gvars

LEMMA StreamCopyStep ==
  ASSUME IInv, NEW t \in Threads, StreamCopy(t)
  PROVE  IInv' /\ UNCHANGED G!gvars
<1>1. PICK c, d, B, s : c = call[t] /\ d = todo[t] /\ B = iovs[d.b] /\ s = Items(B)
  OBVIOUS
<1>2. d # Nil /\ d.op = "stream" /\ mtx[d.b] = t /\ Unlock(d.b) /\ UNCHANGED iovs
  BY <1>1 DEF StreamCopy, Holds
<1>3. c # Nil /\ c \in Calls /\ Rest(t, c, d) /\ d.b = c.b /\ c.b \in Bufs /\ Sound(B) /\ t # Nil
  BY <1>1, <1>2, HolderIs, Zenon
<1>4. c.op = "stream" /\ d.size = B.iolen
  <2>1. /\ c.op = "stream" /\ d = [op |-> "stream", b |-> c.b, size |-> iovs[c.b].iolen]
    BY <1>2, <1>3, CallFacts DEF Rest, Unlocked, Adds, Pops
  <2> QED BY <1>1, <1>3, <2>1
<1>5. s \in Seq(Elems) /\ Bytes(s) = B.iolen /\ B.iolen \in Nat
  <2>1. Shows(s, B) /\ Bytes(s) = B.iolen /\ B.iolen \in Nat
    BY <1>1, <1>3, SoundIs, ItemsShow, Zenon
  <2> QED BY <2>1, Zenon DEF Shows
<1>6. PICK y : y = [op |-> "stream_end", b |-> c.b, items |-> s]
  OBVIOUS
<1>7. todo' = [todo EXCEPT ![t] = y] /\ UNCHANGED <<call, ret>>
  <2>1. Bytes(s) <= d.size
    BY <1>4, <1>5
  <2> QED BY <1>1, <1>3, <1>6, <2>1, Zenon DEF StreamCopy
<1>8. y \in Calls \cup Rests
  BY <1>3, <1>5, <1>6 DEF Rests
<1>9. TypesHold
  BY Zenon DEF IInv
<1>10. Goes(t) /\ call'[t] = c /\ todo'[t] = y
  BY <1>1, <1>3, <1>7, <1>8, <1>9, RestGoes
<1>11. Frees(t) /\ UNCHANGED key
  <2>1. /\ mtx' = [mtx EXCEPT ![c.b] = Nil] /\ mtx[c.b] \in {Nil, t} /\ Nil \in Threads \cup {Nil}
        /\ UNCHANGED key
    BY <1>2, <1>3 DEF Unlock
  <2> QED BY <1>3, <1>9, <2>1, OneMutex, Zenon
<1>12. ThreadOk(t)'
  <2>1. Rest(t, call[t], todo[t])'
    <3>1. y = [op |-> "stream_end", b |-> c.b, items |-> Items(iovs'[c.b])]
      BY <1>1, <1>2, <1>3, <1>6
    <3> QED BY <1>4, <1>10, <3>1, Zenon DEF Rest
  <2>2. StillFits(call[t])'
    BY <1>4, <1>10 DEF StillFits
  <2> QED BY <2>1, <2>2, Zenon DEF ThreadOk
<1>13. IInv' /\ G!Stays
  BY <1>1, <1>2, <1>3, <1>10, <1>11, <1>12, StillStep
<1> QED BY <1>7, <1>13 DEF G!Stays, G!gvars

LEMMA SameBytes == ASSUME NEW s PROVE G!Bytes(s) = Bytes(s)
BY DEF G!Bytes, Bytes

LEMMA StreamEndStep ==
  ASSUME IInv, NEW t \in Threads, StreamEnd(t)
  PROVE  IInv' /\ G!Respond(t)
<1>1. PICK c, d, B, s : c = call[t] /\ d = todo[t] /\ B = iovs[d.b] /\ s = Items(B)
  OBVIOUS
<1>2. d # Nil /\ d.op = "stream_end" /\ UNCHANGED <<iovs, mtx, key>>
      /\ Answer(t, Outcome("ok", d.items, B.iolen))
  BY <1>1 DEF StreamEnd
<1>3. c # Nil /\ c \in Calls /\ Rest(t, c, d) /\ d.b = c.b /\ c.b \in Bufs /\ Sound(B)
  BY <1>1, <1>2, HolderIs, Zenon
<1>4. c.op = "stream" /\ d.items = s
  <2>1. /\ c.op = "stream" /\ d = [op |-> "stream_end", b |-> c.b, items |-> Items(iovs[c.b])]
    BY <1>2, <1>3, CallFacts DEF Rest, Unlocked, Adds, Pops
  <2> QED BY <1>1, <1>3, <2>1
<1>5. s = Entries[c.b] /\ G!Bytes(s) = B.iolen
  BY <1>1, <1>3, ViewIs, SoundIs, SameBytes, Zenon
<1>6. Frees(t)
  BY <1>2, NoMutex DEF IInv
<1>7. IInv' /\ G!Stays /\ G!Answer(t, Outcome("ok", d.items, B.iolen))
  BY <1>1, <1>2, <1>3, <1>6, QuietStep
<1>8. G!Stream(t, c)
  BY <1>4, <1>5, <1>7, DoneIs, Zenon DEF G!Stream
<1> QED BY <1>1, <1>3, <1>4, <1>7, <1>8, Zenon DEF G!Respond
(* Enter answers with an error, or finds out what there is to do.          *)
LEMMA EnterErrorStep ==
  ASSUME IInv, NEW t \in Threads, Enter(t), Check(call[t]) # "ok"
  PROVE  IInv' /\ G!Respond(t)
<1>1. PICK c, B, rv : c = call[t] /\ B = iovs[c.b] /\ rv = Check(c)
  OBVIOUS
<1>2. c # Nil /\ UNCHANGED <<iovs, mtx, key>> /\ Answer(t, Outcome(rv, <<>>, 0))
  BY <1>1 DEF Enter
<1>3. c \in Calls
  BY <1>1, <1>2 DEF IInv, TypesHold
<1>4. c.b \in Bufs /\ (c.op = "cat" => c.src \in Bufs) /\ (c.op = "insert" => c.pos \in Nat)
  BY <1>3, CallFacts
<1>5. Sound(B)
  BY <1>1, <1>4 DEF IInv
<1>6. B.low \in Nat /\ B.len \in Nat /\ End(B) = B.low + B.len /\ B.low + B.len <= Cap
  BY <1>5, SoundIs
<1>7. /\ Entries[c.b] \in Seq(Elems) /\ Len(Entries[c.b]) = B.len
      /\ G!Behind(c.b) = Cap - B.low - B.len
  BY <1>1, <1>4, ViewIs, Zenon
<1>8. Frees(t)
  BY <1>2, NoMutex DEF IInv
<1>9. IInv' /\ G!Refuses(t, rv)
  BY <1>1, <1>2, <1>8, RefuseStep
<1>10. \/ c.op = "insert" /\ End(B) + 1 > Cap /\ rv = "ERR_OVERFLOW"
       \/ c.op \in Pops /\ B.len = 0 /\ rv = "ERR_EMPTY"
       \/ c.op = "cat" /\ End(B) + iovs[c.src].len > Cap /\ rv = "ERR_OVERFLOW"
  BY <1>1 DEF Check
<1>11. CASE c.op = "insert" /\ End(B) + 1 > Cap /\ rv = "ERR_OVERFLOW"
  <2>1. G!Behind(c.b) = 0
    BY <1>6, <1>7, <1>11, CapIs
  <2>2. G!Add(t, c, c.pos)
    BY <1>9, <1>11, <2>1, Zenon DEF G!Add
  <2> QED BY <1>1, <1>2, <1>9, <1>11, <2>2, Zenon DEF G!Respond
<1>12. CASE c.op \in Pops /\ B.len = 0 /\ rv = "ERR_EMPTY"
  <2>1. Entries[c.b] = <<>>
    BY <1>7, <1>12, EmptySeq
  <2>2. G!Pop(t, c)
    BY <1>9, <1>12, <2>1, Zenon DEF G!Pop
  <2>3. c.op \in {"pop_head", "pop_tail"}
    BY <1>12 DEF Pops
  <2> QED BY <1>1, <1>2, <1>9, <2>2, <2>3, Zenon DEF G!Respond
<1>13. CASE c.op = "cat" /\ End(B) + iovs[c.src].len > Cap /\ rv = "ERR_OVERFLOW"
  <2>1. Len(Entries[c.src]) = iovs[c.src].len /\ Sound(iovs[c.src])
    BY <1>4, <1>13, ViewIs, Zenon DEF IInv
  <2>2. iovs[c.src].len \in Nat
    BY <2>1, SoundIs
  <2>3. G!Behind(c.b) < Len(Entries[c.src])
    BY <1>6, <1>7, <1>13, <2>1, <2>2, CapIs
  <2>4. G!Cat(t, c)
    BY <1>9, <1>13, <2>3, Zenon DEF G!Cat
  <2> QED BY <1>1, <1>2, <1>9, <1>13, <2>4, Zenon DEF G!Respond
<1> QED BY <1>10, <1>11, <1>12, <1>13

LEMMA EnterStep ==
  ASSUME IInv, NEW t \in Threads, Enter(t), Check(call[t]) = "ok"
  PROVE  IInv' /\ UNCHANGED G!gvars
<1>1. PICK c, B, y : c = call[t] /\ B = iovs[c.b] /\ y = TurnedInto(c)
  OBVIOUS
<1>2. /\ c # Nil /\ todo[t] = Nil /\ c.op \in Adds \cup Pops \cup {"stream"} /\ Check(c) = "ok"
      /\ todo' = [todo EXCEPT ![t] = y] /\ UNCHANGED <<iovs, mtx, key, call, ret>>
  BY <1>1 DEF Enter
<1>3. c \in Calls
  BY <1>1, <1>2 DEF IInv, TypesHold
<1>4. /\ c.b \in Bufs /\ (c.op = "cat" => c.src \in Bufs)
      /\ (c.op = "insert" => c.pos \in Nat /\ c.e \in Elems)
  BY <1>3, CallFacts
<1>5. Sound(B)
  BY <1>1, <1>4 DEF IInv
<1>6. /\ B.low \in Nat /\ B.len \in Nat /\ End(B) = B.low + B.len /\ B.low + B.len <= Cap
      /\ B.iolen \in Nat
  BY <1>5, SoundIs
<1>7. /\ c.op = "insert" => End(B) < Cap
      /\ c.op \in Pops => B.len > 0
      /\ c.op = "cat" => End(B) + iovs[c.src].len <= Cap
  <2>1. /\ ~(c.op = "insert" /\ End(B) + 1 > Cap)
        /\ ~(c.op \in Pops /\ B.len = 0)
        /\ ~(c.op = "cat" /\ End(B) + iovs[c.src].len > Cap)
    BY <1>1, <1>2 DEF Check
  <2>2. c.op = "cat" => iovs[c.src].len \in Nat
    <3> HAVE c.op = "cat"
    <3>1. Sound(iovs[c.src])
      BY <1>4 DEF IInv
    <3> QED BY <3>1, SoundIs
  <2> QED BY <1>6, <2>1, <2>2, CapIs
<1>8. y \in Calls \cup Rests /\ Rest(t, c, y)
  <2>1. CASE c.op = "insert" /\ c.pos > B.len
    <3>1. y = [op |-> "push_tail", b |-> c.b, e |-> c.e]
      BY <1>1, <2>1 DEF TurnedInto
    <3>2. y \in Calls
      BY <1>4, <2>1, <3>1 DEF Calls
    <3> QED BY <1>1, <1>7, <2>1, <3>1, <3>2 DEF Rest
  <2>2. CASE c.op = "stream"
    <3>1. y = [op |-> "stream", b |-> c.b, size |-> B.iolen]
      BY <1>1, <2>2 DEF TurnedInto
    <3>2. y \in Rests
      BY <1>4, <1>6, <3>1 DEF Rests
    <3> QED BY <1>1, <2>2, <3>1, <3>2 DEF Rest
  <2>3. CASE c.op # "stream" /\ ~(c.op = "insert" /\ c.pos > B.len)
    <3>1. y = c
      BY <1>1, <2>3 DEF TurnedInto
    <3>2. c.op = "insert" => c.pos <= B.len
      BY <1>4, <1>6, <2>3
    <3>3. Unlocked(c)
      BY <1>1, <1>2, <1>7, <2>3, <3>2 DEF Unlocked
    <3> QED BY <1>3, <3>1, <3>3 DEF Rest
  <2> QED BY <2>1, <2>2, <2>3
<1>9. TypesHold
  BY Zenon DEF IInv
<1>10. Goes(t) /\ call'[t] = c /\ todo'[t] = y
  BY <1>1, <1>2, <1>8, <1>9, RestGoes
<1>11. ThreadOk(t)'
  <2>1. StillFits(c)
    BY <1>1, <1>2 DEF IInv, ThreadOk
  <2>2. StillFits(call[t])'
    BY <1>1, <1>2, <2>1 DEF StillFits
  <2>3. Rest(t, call[t], todo[t])'
    BY <1>2, <1>8, <1>10 DEF Rest, Unlocked, CopiedBehind
  <2> QED BY <2>2, <2>3, Zenon DEF ThreadOk
<1>12. Frees(t)
  BY <1>2, <1>9, NoMutex
<1>13. IInv' /\ G!Stays
  BY <1>1, <1>2, <1>10, <1>11, <1>12, StillStep
<1> QED BY <1>2, <1>13 DEF G!Stays, G!gvars

LEMMA LengthStep ==
  ASSUME IInv, NEW t \in Threads, Length(t)
  PROVE  IInv' /\ G!Respond(t)
<1>1. PICK c, n : c = call[t] /\ n = iovs[c.b].len
  OBVIOUS
<1>2. c # Nil /\ c.op = "len" /\ UNCHANGED <<iovs, mtx, key>> /\ Answer(t, Outcome("ok", <<>>, n))
  BY <1>1 DEF Length, Begins
<1>3. c.b \in Bufs
  BY <1>1, <1>2, CallFacts DEF IInv, TypesHold
<1>4. Len(Entries[c.b]) = n
  BY <1>1, <1>3, ViewIs, Zenon
<1>5. Frees(t)
  BY <1>2, NoMutex DEF IInv
<1>6. IInv' /\ G!Stays /\ G!Answer(t, Outcome("ok", <<>>, n))
  BY <1>1, <1>2, <1>5, QuietStep
<1>7. G!Length(t, c)
  BY <1>4, <1>6, DoneIs, Zenon DEF G!Length
<1> QED BY <1>1, <1>2, <1>6, <1>7, Zenon DEF G!Respond

LEMMA RenewStep ==
  ASSUME IInv, NEW t \in Threads, Renew(t)
  PROVE  IInv' /\ G!Respond(t)
<1>1. PICK c, b : c = call[t] /\ b = c.b
  OBVIOUS
<1>2. /\ c # Nil /\ c.op = "renew" /\ iovs' = [iovs EXCEPT ![b] = Fresh]
      /\ mtx' = [mtx EXCEPT ![b] = Nil] /\ key' = [key EXCEPT ![b] = HEAD] /\ Answer(t, Done)
  BY <1>1 DEF Renew, Begins, Becomes
<1>3. b \in Bufs
  BY <1>1, <1>2, CallFacts DEF IInv, TypesHold
<1>4. TypesHold
  BY Zenon DEF IInv
<1>5. Goes(t) /\ call'[t] = Nil /\ ThreadOk(t)' /\ G!Answer(t, Done)
  BY <1>2, <1>4, AnswerGoes
<1>6. /\ iovs'[b] = Fresh /\ key'[b] = HEAD
      /\ \A a \in Bufs : a # b => iovs'[a] = iovs[a] /\ mtx'[a] = mtx[a] /\ key'[a] = key[a]
  BY <1>2, <1>3, <1>4, Zenon DEF TypesHold
<1>7. Sound(Fresh)
  BY FreshIsSound, Zenon
<1>8. c.op \notin Adds \cup Pops \cup {"push_head", "push_tail"}
  BY <1>2 DEF Adds, Pops
<1>9. ASSUME NEW a \in Bufs PROVE Keeps(t, a)
  <2>1. CASE a = b
    BY <1>1, <1>2, <1>6, <1>7, <1>8, <2>1 DEF Keeps
  <2>2. CASE a # b
    <3>1. Sound(iovs'[a]) /\ iovs'[a] = iovs[a] /\ mtx'[a] = mtx[a] /\ key'[a] = key[a]
      BY <1>6, <2>2 DEF IInv
    <3> QED BY <1>1, <1>8, <3>1 DEF Keeps
  <2> QED BY <2>1, <2>2
<1>10. Effect(t)
  <2>1. iovs' \in [Bufs -> Buffers]
    <3>1. Fresh \in Buffers
      BY <1>7, Zenon DEF Sound
    <3> QED BY <1>2, <1>4, <3>1, Zenon DEF TypesHold
  <2>2. mtx' \in [Bufs -> Threads \cup {Nil}] /\ key' \in [Bufs -> Keys]
    <3>1. HEAD \in Keys
      BY Zenon DEF Keys
    <3> QED BY <1>2, <1>4, <3>1 DEF TypesHold
  <2> QED BY <1>1, <1>2, <1>5, <1>9, <2>1, <2>2, Zenon DEF Effect
<1>11. IInv'
  BY <1>5, <1>10, EffectKeeps, Zenon
<1>12. Entries' = [Entries EXCEPT ![b] = <<>>] /\ Room' = [Room EXCEPT ![b] = Start]
  <2>1. Entries' = [Entries EXCEPT ![b] = Items(Fresh)] /\ Room' = [Room EXCEPT ![b] = Fresh.low]
    BY <1>2, <1>3, ViewNext
  <2> QED BY <2>1, FreshIsSound, Zenon
<1>13. G!Renew(t, c)
  BY <1>1, <1>2, <1>5, <1>12, DoneIs, Zenon DEF G!Renew, G!HEAD, HEAD
<1> QED BY <1>1, <1>2, <1>11, <1>13, Zenon DEF G!Respond
(* The iterator goes to k.                                                 *)
LEMMA KeyStep ==
  ASSUME IInv, NEW t \in Threads, NEW b \in Bufs, NEW k \in Keys, NEW o, call[t] # Nil,
         b = call[t].b, call[t].op \in {"next", "prev"} \/ (call[t].op = "iter" /\ k = HEAD),
         UNCHANGED <<iovs, mtx>>, key' = [key EXCEPT ![b] = k], Answer(t, o)
  PROVE  IInv' /\ G!Answer(t, o) /\ UNCHANGED <<Entries, Room>>
<1>1. PICK c : c = call[t]
  OBVIOUS
<1>2. TypesHold
  BY Zenon DEF IInv
<1>3. Goes(t) /\ call'[t] = Nil /\ ThreadOk(t)' /\ G!Answer(t, o)
  BY <1>2, AnswerGoes
<1>4. key'[b] = k /\ \A a \in Bufs : a # b => key'[a] = key[a]
  BY <1>2, Zenon DEF TypesHold
<1>5. c.op \notin Adds \cup Pops \cup {"push_head", "push_tail"}
  BY <1>1 DEF Adds, Pops
<1>6. ASSUME NEW a \in Bufs PROVE Keeps(t, a)
  <2>1. Sound(iovs'[a]) /\ iovs'[a] = iovs[a] /\ mtx'[a] = mtx[a]
    BY DEF IInv
  <2>2. key'[a] # key[a] => a = c.b /\ (c.op \in {"next", "prev"} \/ (c.op = "iter" /\ key'[a] = HEAD))
    BY <1>1, <1>4
  <2> QED BY <1>1, <1>5, <2>1, <2>2 DEF Keeps
<1>7. iovs' \in [Bufs -> Buffers] /\ mtx' \in [Bufs -> Threads \cup {Nil}] /\ key' \in [Bufs -> Keys]
  BY <1>2 DEF TypesHold
<1>8. Effect(t)
  BY <1>3, <1>6, <1>7, Zenon DEF Effect
<1>9. IInv'
  BY <1>3, <1>8, EffectKeeps, Zenon
<1> QED BY <1>3, <1>9, ViewStays

LEMMA IterStep ==
  ASSUME IInv, NEW t \in Threads, Iter(t)
  PROVE  IInv' /\ G!Respond(t)
<1>1. PICK c, b : c = call[t] /\ b = c.b
  OBVIOUS
<1>2. /\ c # Nil /\ c.op = "iter" /\ UNCHANGED <<iovs, mtx>>
      /\ key' = [key EXCEPT ![b] = HEAD] /\ Answer(t, Done)
  BY <1>1 DEF Iter, Begins
<1>3. b \in Bufs
  BY <1>1, <1>2, CallFacts DEF IInv, TypesHold
<1>4. HEAD \in Keys
  BY Zenon DEF Keys
<1>5. IInv' /\ G!Answer(t, Done) /\ UNCHANGED <<Entries, Room>>
  BY <1>1, <1>2, <1>3, <1>4, KeyStep
<1>6. G!Step(t, c, G!HEAD)
  <2>1. G!HEAD = HEAD
    BY DEF HEAD, G!HEAD
  <2>2. Done = G!Outcome("ok", IF G!HEAD \in {G!HEAD, G!TAIL} THEN <<>> ELSE <<Entries[c.b][G!HEAD + 1]>>, 0)
    BY Zenon DEF Done, Outcome, G!Outcome
  <2>3. G!Answer(t, G!Outcome("ok", IF G!HEAD \in {G!HEAD, G!TAIL}
                                      THEN <<>> ELSE <<Entries[c.b][G!HEAD + 1]>>, 0))
    BY <1>5, <2>2
  <2>4. key' = [key EXCEPT ![c.b] = G!HEAD]
    BY <1>1, <1>2, <2>1
  <2> QED BY <1>5, <2>3, <2>4, Zenon DEF G!Step
<1> QED BY <1>1, <1>2, <1>5, <1>6, Zenon DEF G!Respond

LEMMA Ends == HEAD = G!HEAD /\ TAIL = G!TAIL /\ HEAD = -1
BY SMT DEF HEAD, TAIL, G!HEAD, G!TAIL

LEMMA MoveStep ==
  ASSUME IInv, NEW t \in Threads, NEW c, NEW j \in Keys, c = call[t], c # Nil, c \in Calls,
         c.op \in {"next", "prev"}, Moves(t, j), j = TAIL \/ j \in 0..(iovs[c.b].len - 1)
  PROVE  IInv' /\ G!Step(t, c, j)
<1>1. PICK b, B, s : b = c.b /\ B = iovs[b] /\ s = Entries[b]
  OBVIOUS
<1>2. b \in Bufs
  BY <1>1, CallFacts
<1>3. Sound(B) /\ Shows(s, B)
  BY <1>1, <1>2, ViewIs, Zenon DEF IInv
<1>4. B.low \in Nat /\ B.len \in Nat /\ B.low + B.len <= Cap
  BY <1>3, SoundIs
<1>5. PICK o : o = CASE j = TAIL -> Done
                     [] j # TAIL /\ B.low + j \in Slots -> Outcome("ok", <<B.arr[B.low + j]>>, 0)
                     [] OTHER -> Wild
  OBVIOUS
<1>6. key' = [key EXCEPT ![b] = j] /\ Answer(t, o) /\ UNCHANGED <<iovs, mtx>>
  BY <1>1, <1>5, Zenon DEF Moves
<1>7. IInv' /\ G!Answer(t, o) /\ UNCHANGED <<Entries, Room>>
  BY <1>1, <1>2, <1>6, KeyStep
<1>8. o = G!Outcome("ok", IF j \in {G!HEAD, G!TAIL} THEN <<>> ELSE <<s[j + 1]>>, 0)
  <2>1. CASE j = TAIL
    <3>1. o = Done
      BY <1>5, <2>1
    <3>2. j \in {G!HEAD, G!TAIL}
      BY <2>1, Ends
    <3> QED BY <3>1, <3>2, Zenon DEF Done, Outcome, G!Outcome
  <2>2. CASE j # TAIL
    <3>1. j \in 0..(B.len - 1)
      BY <1>1, <2>2
    <3>2. B.low + j \in Slots
      BY <1>4, <3>1, CapIs DEF Slots
    <3>3. o = Outcome("ok", <<B.arr[B.low + j]>>, 0)
      BY <1>5, <2>2, <3>2
    <3>4. s[j + 1] = B.arr[B.low + j]
      BY <1>3, <3>1, Zenon DEF Shows
    <3>5. j \notin {G!HEAD, G!TAIL}
      BY <2>2, <3>1, Ends
    <3> QED BY <3>3, <3>4, <3>5, Zenon DEF Outcome, G!Outcome
  <2> QED BY <2>1, <2>2
<1> QED BY <1>1, <1>6, <1>7, <1>8, Zenon DEF G!Step

LEMMA IterNextStep ==
  ASSUME IInv, NEW t \in Threads, IterNext(t)
  PROVE  IInv' /\ G!Respond(t)
<1>1. PICK c, k, n, j : /\ c = call[t] /\ k = key[c.b] /\ n = iovs[c.b].len
                        /\ j = IF k = n - 1 THEN TAIL ELSE k + 1
  OBVIOUS
<1>2. c # Nil /\ c.op = "next"
  BY <1>1 DEF IterNext, Begins
<1>3. c \in Calls /\ StillFits(c)
  BY <1>1, <1>2 DEF IInv, TypesHold, ThreadOk
<1>4. c.b \in Bufs
  BY <1>3, CallFacts
<1>5. Sound(iovs[c.b]) /\ Len(Entries[c.b]) = n
  BY <1>1, <1>4, ViewIs, Zenon DEF IInv
<1>6. n \in Nat /\ n <= Cap
  <2>1. iovs[c.b].low \in Nat /\ iovs[c.b].len \in Nat /\ iovs[c.b].low + iovs[c.b].len <= Cap
    BY <1>5, SoundIs
  <2> QED BY <1>1, <2>1, CapIs
<1>7. k \in HEAD..(n - 1)
  BY <1>1, <1>2, <1>3 DEF StillFits
<1>8. k \in Int /\ k >= -1 /\ k < n /\ k # TAIL
  BY <1>6, <1>7, Ends, CapIs
<1>9. Moves(t, j)
  BY <1>1, <1>8, Zenon DEF IterNext
<1>10. j \in Keys /\ (j = TAIL \/ j \in 0..(n - 1))
  <2>1. j \in Nat /\ (j = TAIL \/ j \in 0..(n - 1))
    BY <1>1, <1>6, <1>8, CapIs
  <2> QED BY <2>1, Zenon DEF Keys
<1>11. IInv' /\ G!Step(t, c, j)
  BY <1>1, <1>2, <1>3, <1>9, <1>10, MoveStep
<1>12. j = IF key[c.b] + 1 < Len(Entries[c.b]) THEN key[c.b] + 1 ELSE G!TAIL
  <2>1. k = key[c.b] /\ Len(Entries[c.b]) = n /\ G!TAIL = TAIL
    BY <1>1, <1>5, Ends, Zenon
  <2>2. k + 1 < n <=> k # n - 1
    BY <1>6, <1>8
  <2> QED BY <1>1, <2>1, <2>2, Zenon
<1>13. G!Next(t, c)
  BY <1>11, <1>12, Zenon DEF G!Next
<1> QED BY <1>1, <1>2, <1>11, <1>13, Zenon DEF G!Respond

LEMMA IterPrevStep ==
  ASSUME IInv, NEW t \in Threads, IterPrev(t)
  PROVE  IInv' /\ G!Respond(t)
<1>1. PICK c, k, n : c = call[t] /\ k = key[c.b] /\ n = iovs[c.b].len
  OBVIOUS
<1>2. c # Nil /\ c.op = "prev"
  BY <1>1 DEF IterPrev, Begins
<1>3. c \in Calls /\ StillFits(c)
  BY <1>1, <1>2 DEF IInv, TypesHold, ThreadOk
<1>4. c.b \in Bufs
  BY <1>3, CallFacts
<1>5. Sound(iovs[c.b]) /\ Len(Entries[c.b]) = n
  BY <1>1, <1>4, ViewIs, Zenon DEF IInv
<1>6. n \in Nat /\ n <= Cap
  <2>1. iovs[c.b].low \in Nat /\ iovs[c.b].len \in Nat /\ iovs[c.b].low + iovs[c.b].len <= Cap
    BY <1>5, SoundIs
  <2> QED BY <1>1, <2>1, CapIs
<1>7. k \in {HEAD} \cup 1..(n - 1) \/ (k = TAIL /\ n > 0)
  BY <1>1, <1>2, <1>3 DEF StillFits
<1>8. HEAD # TAIL
  BY Ends, CapIs
<1>9. ASSUME NEW j \in Keys, IInv', G!Step(t, c, j),
             j = CASE key[c.b] = G!HEAD -> G!HEAD
                   [] key[c.b] = G!TAIL -> Len(Entries[c.b]) - 1
                   [] OTHER -> key[c.b] - 1
      PROVE  IInv' /\ G!Respond(t)
  <2>1. G!Prev(t, c)
    BY <1>9, Zenon DEF G!Prev
  <2> QED BY <1>1, <1>2, <1>9, <2>1, Zenon DEF G!Respond
<1>10. CASE k = HEAD
  <2>1. Answer(t, Done) /\ UNCHANGED <<iovs, mtx, key>>
    BY <1>1, <1>8, <1>10 DEF IterPrev
  <2>2. key' = [key EXCEPT ![c.b] = HEAD] /\ HEAD \in Keys
    <3>1. key \in [Bufs -> Keys] /\ key[c.b] = HEAD
      BY <1>1, <1>10, Zenon DEF IInv, TypesHold
    <3>2. key = [key EXCEPT ![c.b] = HEAD]
      BY <1>4, <3>1, Zenon
    <3> QED BY <2>1, <3>2, Zenon DEF Keys
  <2>3. IInv' /\ G!Answer(t, Done) /\ UNCHANGED <<Entries, Room>>
    BY <1>1, <1>2, <1>4, <2>1, <2>2, KeyStep
  <2>4. Done = G!Outcome("ok", IF HEAD \in {G!HEAD, G!TAIL} THEN <<>> ELSE <<Entries[c.b][HEAD + 1]>>, 0)
    <3>1. HEAD \in {G!HEAD, G!TAIL}
      BY Ends
    <3> QED BY <3>1, Zenon DEF Done, Outcome, G!Outcome
  <2>5. G!Step(t, c, HEAD)
    BY <2>2, <2>3, <2>4, Zenon DEF G!Step
  <2>6. HEAD = CASE key[c.b] = G!HEAD -> G!HEAD
                 [] key[c.b] = G!TAIL -> Len(Entries[c.b]) - 1
                 [] OTHER -> key[c.b] - 1
    BY <1>1, <1>8, <1>10, Ends
  <2> QED BY <1>9, <2>2, <2>3, <2>5, <2>6
<1>11. CASE k = TAIL
  <2>1. Moves(t, n - 1)
    BY <1>1, <1>8, <1>11 DEF IterPrev
  <2>2. n - 1 \in 0..(n - 1) /\ n - 1 \in Keys
    <3>1. n - 1 \in 0..(n - 1) /\ n - 1 \in Nat
      BY <1>6, <1>7, <1>8, <1>11, Ends, CapIs
    <3> QED BY <3>1, Zenon DEF Keys
  <2>3. IInv' /\ G!Step(t, c, n - 1)
    BY <1>1, <1>2, <1>3, <2>1, <2>2, MoveStep
  <2>4. n - 1 = CASE key[c.b] = G!HEAD -> G!HEAD
                  [] key[c.b] = G!TAIL -> Len(Entries[c.b]) - 1
                  [] OTHER -> key[c.b] - 1
    BY <1>1, <1>5, <1>8, <1>11, Ends
  <2> QED BY <1>9, <2>2, <2>3, <2>4
<1>12. CASE k \notin {HEAD, TAIL}
  <2>1. Moves(t, k - 1)
    BY <1>1, <1>12 DEF IterPrev
  <2>2. k - 1 \in 0..(n - 1) /\ k - 1 \in Keys
    <3>1. k - 1 \in 0..(n - 1) /\ k - 1 \in Nat
      BY <1>6, <1>7, <1>12
    <3> QED BY <3>1, Zenon DEF Keys
  <2>3. IInv' /\ G!Step(t, c, k - 1)
    BY <1>1, <1>2, <1>3, <2>1, <2>2, MoveStep
  <2>4. k - 1 = CASE key[c.b] = G!HEAD -> G!HEAD
                  [] key[c.b] = G!TAIL -> Len(Entries[c.b]) - 1
                  [] OTHER -> key[c.b] - 1
    BY <1>1, <1>12, Ends
  <2> QED BY <1>9, <2>2, <2>3, <2>4
<1> QED BY <1>10, <1>11, <1>12
-----------------------------------------------------------------------------
(* A new call.                                                             *)

LEMMA RequestFacts ==
  ASSUME Care, IInv, NEW t \in Threads, NEW c \in CallsOf[t], Request(t, c)
  PROVE  /\ c \in Calls /\ call[t] = Nil /\ todo[t] = Nil /\ Careful(c)
         /\ call' = [call EXCEPT ![t] = c] /\ call'[t] = c
         /\ \A u \in Threads : u # t => call'[u] = call[u]
         /\ UNCHANGED <<iovs, mtx, key, todo>>
<1>1. c \in Calls
  BY CallsAssumption, Zenon
<1>2. call[t] = Nil /\ Careful(c) /\ call' = [call EXCEPT ![t] = c] /\ UNCHANGED <<iovs, mtx, key, todo>>
  BY Zenon DEF Request
<1>3. call \in [Threads -> Calls \cup {Nil}] /\ todo[t] = Nil
  BY <1>2, Zenon DEF IInv, TypesHold
<1>4. call'[t] = c /\ \A u \in Threads : u # t => call'[u] = call[u]
  BY <1>2, <1>3, Zenon
<1> QED BY <1>1, <1>2, <1>3, <1>4, Zenon

(* What Fits sees when the call begins is what StillFits keeps.            *)
LEMMA FitsAtFirst ==
  ASSUME IInv, NEW c \in Calls, Fits(c)
  PROVE  StillFits(c)
<1>1. PICK b, B, k : b = c.b /\ B = iovs[b] /\ k = key[b]
  OBVIOUS
<1>2. b \in Bufs
  BY <1>1, CallFacts
<1>3. k \in Keys /\ Sound(B)
  BY <1>1, <1>2, Zenon DEF IInv, TypesHold
<1>4. k = -1 \/ k \in Nat
  BY <1>3, Ends DEF Keys
<1>5. B.len \in Nat
  BY <1>3, SoundIs
<1>6. /\ c.op = "insert" => B.low = 0 \/ c.pos > B.len
      /\ c.op = "next" => k < B.len
      /\ c.op = "prev" => \/ k \in {HEAD} \cup 1..(B.len - 1)
                          \/ k = TAIL /\ B.len > 0
  BY <1>1, Zenon DEF Fits
<1>7. c.op = "next" => k \in HEAD..(B.len - 1)
  BY <1>4, <1>5, <1>6, Ends
<1> QED BY <1>1, <1>6, <1>7, Zenon DEF StillFits

(* What is left to do is about the buffers and their mutexes.              *)
LEMMA StaysTheRest ==
  ASSUME NEW t \in Threads, call'[t] = call[t], UNCHANGED <<iovs, mtx, todo>>,
         Rest(t, call[t], todo[t])
  PROVE  Rest(t, call[t], todo[t])'
<1>1. PICK c, d : c = call[t] /\ d = todo[t]
  OBVIOUS
<1>2. Unlocked(c)' <=> Unlocked(c)
  BY Zenon DEF Unlocked, End
<1>3. CopiedBehind(iovs[c.b], iovs[c.src])' <=> CopiedBehind(iovs[c.b], iovs[c.src])
  BY Zenon DEF CopiedBehind, End
<1>4. End(iovs[c.b])' = End(iovs[c.b]) /\ Items(iovs[c.b])' = Items(iovs[c.b])
  BY Zenon DEF End, Items
<1>5. Rest(t, c, d)
  BY <1>1, Zenon
<1>6. Rest(t, c, d)'
  BY <1>2, <1>3, <1>4, <1>5, Zenon DEF Rest
<1> QED BY <1>1, <1>6, Zenon

LEMMA RequestKeepsRoom ==
  ASSUME Care, IInv, NEW t \in Threads, NEW c \in CallsOf[t], Request(t, c)
  PROVE  RoomKept'
<1>1. /\ c \in Calls /\ call[t] = Nil /\ Careful(c) /\ call'[t] = c
      /\ \A u \in Threads : u # t => call'[u] = call[u]
      /\ UNCHANGED iovs
  BY RequestFacts, Zenon
<1>2. c # Nil
  BY <1>1, CallFacts
<1> SUFFICES ASSUME NEW b \in Bufs PROVE End(iovs[b]) + Cardinality(Pushing(b)') <= Cap
  BY <1>1, Zenon DEF RoomKept, End
<1>3. End(iovs[b]) + Cardinality(Pushing(b)) <= Cap
  BY Zenon DEF IInv, RoomKept
<1>4. IsFiniteSet(Pushing(b))
  <2>1. Pushing(b) \subseteq Threads
    BY Zenon DEF Pushing
  <2>2. IsFiniteSet(Threads)
    BY IovsAssumption, Zenon
  <2> QED BY <2>1, <2>2, FS_Subset
<1>5. CASE c.op = "push_tail" /\ c.b = b
  <2>1. Pushing(b)' = Pushing(b) \cup {t} /\ t \notin Pushing(b)
    <3>1. t \notin Pushing(b) /\ t \in Pushing(b)'
      BY <1>1, <1>2, <1>5, Zenon DEF Pushing
    <3>2. \A u \in Threads : u # t => (u \in Pushing(b)' <=> u \in Pushing(b))
      BY <1>1, Zenon DEF Pushing
    <3>3. Pushing(b) \subseteq Threads /\ Pushing(b)' \subseteq Threads
      BY Zenon DEF Pushing
    <3> QED BY <3>1, <3>2, <3>3, Zenon
  <2>2. Cardinality(Pushing(b)') = Cardinality(Pushing(b)) + 1
    BY <1>4, <2>1, FS_AddElement
  <2>3. End(iovs[b]) + Cardinality(Pushing(b)) < Cap
    BY <1>1, <1>5, Zenon DEF Careful, Fits, Pushing
  <2>4. Cardinality(Pushing(b)) \in Nat
    BY <1>4, FS_CardinalityType
  <2>5. End(iovs[b]) \in Nat
    <3>1. Sound(iovs[b])
      BY Zenon DEF IInv
    <3> QED BY <3>1, SoundIs
  <2> QED BY <2>2, <2>3, <2>4, <2>5, CapIs
<1>6. CASE ~(c.op = "push_tail" /\ c.b = b)
  <2>1. Pushing(b)' = Pushing(b)
    BY <1>1, <1>2, <1>6, Zenon DEF Pushing
  <2> QED BY <1>3, <2>1
<1> QED BY <1>5, <1>6

LEMMA RequestKeepsApart ==
  ASSUME Care, IInv, NEW t \in Threads, NEW c \in CallsOf[t], Request(t, c)
  PROVE  AllApart'
<1>1. Careful(c) /\ call[t] = Nil /\ call'[t] = c /\ \A u \in Threads : u # t => call'[u] = call[u]
  BY RequestFacts, Zenon
<1>2. \A u \in Threads : call[u] # Nil => Apart(c, call[u]) /\ Apart(call[u], c)
  BY <1>1, ApartIsMutual, Zenon DEF Careful
<1> SUFFICES ASSUME NEW u \in Threads, NEW w \in Threads, u # w, call'[u] # Nil, call'[w] # Nil
             PROVE  Apart(call'[u], call'[w])
  BY Zenon DEF AllApart, Apart, Watches, Changes, Rivals
<1>3. u # t /\ w # t => Apart(call[u], call[w])
  BY <1>1, Zenon DEF IInv, AllApart
<1> QED BY <1>1, <1>2, <1>3, Zenon

LEMMA RequestStep ==
  ASSUME Care, IInv, NEW t \in Threads, NEW c \in CallsOf[t], Request(t, c)
  PROVE  IInv' /\ G!Request(t, c)
<1>1. /\ c \in Calls /\ call[t] = Nil /\ todo[t] = Nil /\ Careful(c)
      /\ call' = [call EXCEPT ![t] = c] /\ call'[t] = c
      /\ \A u \in Threads : u # t => call'[u] = call[u]
      /\ UNCHANGED <<iovs, mtx, key, todo>>
  BY RequestFacts, Zenon
<1>2. TypesHold'
  <2>1. TypesHold /\ c # Nil
    BY <1>1, CallFacts DEF IInv
  <2>2. call' \in [Threads -> Calls \cup {Nil}]
    BY <1>1, <2>1, Zenon DEF TypesHold
  <2>3. \A u \in Threads : call'[u] = Nil => todo'[u] = Nil
    BY <1>1, <2>1, Zenon DEF TypesHold
  <2> QED BY <1>1, <2>1, <2>2, <2>3, Zenon DEF TypesHold
<1>3. ASSUME NEW b \in Bufs PROVE Sound(iovs[b])'
  <2>1. Sound(iovs[b]) /\ iovs'[b] = iovs[b]
    BY <1>1, Zenon DEF IInv
  <2>2. Sound(iovs'[b])
    BY <2>1, Zenon
  <2> QED BY <2>2
<1>4. RoomKept' /\ AllApart'
  BY RequestKeepsRoom, RequestKeepsApart, Zenon
<1>5. ASSUME NEW u \in Threads PROVE ThreadOk(u)'
  <2>1. ThreadOk(u) /\ todo'[u] = todo[u]
    BY <1>1, Zenon DEF IInv
  <2>2. CASE u = t
    <3>1. StillFits(c)
      BY <1>1, FitsAtFirst, Zenon DEF Careful
    <3>2. StillFits(c)'
      BY <1>1, <3>1, Zenon DEF StillFits
    <3>3. todo'[u] = Nil /\ call'[u] = c
      BY <1>1, <2>1, <2>2, Zenon
    <3> QED BY <3>2, <3>3, Zenon DEF ThreadOk
  <2>3. CASE u # t
    <3>1. call'[u] = call[u] /\ UNCHANGED <<iovs, mtx, key, todo>>
      BY <1>1, <2>3, Zenon
    <3>2. call[u] # Nil => StillFits(call[u])'
      BY <2>1, <3>1, Zenon DEF ThreadOk, StillFits
    <3>3. todo[u] # Nil => Rest(u, call[u], todo[u])'
      BY <2>1, <3>1, StaysTheRest, Zenon DEF ThreadOk
    <3> QED BY <2>1, <3>1, <3>2, <3>3, Zenon DEF ThreadOk
  <2> QED BY <2>2, <2>3
<1>6. IInv'
  BY <1>2, <1>3, <1>4, <1>5, Zenon DEF IInv
<1>7. G!Request(t, c)
  <2>1. ret' = [ret EXCEPT ![t] = G!Done]
    BY Zenon DEF Request, Done, Outcome, G!Done, G!Outcome
  <2>2. UNCHANGED <<Entries, Room>>
    BY <1>1, ViewStays, Zenon
  <2> QED BY <1>1, <2>1, <2>2, Zenon DEF G!Request
<1> QED BY <1>6, <1>7
-----------------------------------------------------------------------------
(* The first state, and steps of somebody else.                            *)

LEMMA AtFirst ==
  ASSUME IInit
  PROVE  IInv /\ G!GInit
<1>1. /\ iovs = [b \in Bufs |-> Fresh] /\ mtx = [b \in Bufs |-> Nil] /\ key = [b \in Bufs |-> HEAD]
      /\ call = [t \in Threads |-> Nil] /\ todo = [t \in Threads |-> Nil]
      /\ ret = [t \in Threads |-> Done]
  BY Zenon DEF IInit
<1>2. Sound(Fresh) /\ Items(Fresh) = <<>> /\ Fresh.low = Start /\ Fresh.len = 0 /\ Fresh \in Buffers
  BY FreshIsSound, Zenon DEF Sound
<1>3. TypesHold
  <2>1. HEAD \in Keys
    BY Zenon DEF Keys
  <2> QED BY <1>1, <1>2, <2>1, Zenon DEF TypesHold
<1>4. \A b \in Bufs : Sound(iovs[b])
  <2> SUFFICES ASSUME NEW b \in Bufs PROVE Sound(iovs[b])
    OBVIOUS
  <2>1. iovs[b] = Fresh
    BY <1>1, Zenon
  <2> QED BY <1>2, <2>1
<1>5. RoomKept
  <2> SUFFICES ASSUME NEW b \in Bufs PROVE End(iovs[b]) + Cardinality(Pushing(b)) <= Cap
    BY Zenon DEF RoomKept
  <2>1. Pushing(b) = {}
    BY <1>1, Zenon DEF Pushing
  <2>2. Cardinality(Pushing(b)) = 0
    BY <2>1, FS_EmptySet
  <2>3. End(iovs[b]) \in Nat /\ End(iovs[b]) <= Cap
    <3>1. Sound(iovs[b])
      BY <1>4, Zenon
    <3> QED BY <3>1, SoundIs
  <2> QED BY <2>2, <2>3, CapIs
<1>6. AllApart /\ \A t \in Threads : ThreadOk(t)
  BY <1>1, Zenon DEF AllApart, ThreadOk
<1>7. Entries = [b \in Bufs |-> <<>>] /\ Room = [b \in Bufs |-> Start]
  BY <1>1, <1>2, Zenon DEF Entries, Room
<1>8. key = [b \in Bufs |-> G!HEAD] /\ ret = [t \in Threads |-> G!Done]
  BY <1>1, Ends, Zenon DEF Done, Outcome, G!Done, G!Outcome
<1> QED BY <1>1, <1>3, <1>4, <1>5, <1>6, <1>7, <1>8, Zenon DEF IInv, G!GInit

LEMMA NothingHappens ==
  ASSUME IInv, UNCHANGED ivars
  PROVE  IInv' /\ UNCHANGED G!gvars
<1>1. UNCHANGED <<iovs, mtx, key, call, ret, todo>>
  BY Zenon DEF ivars
<1>2. TypesHold'
  BY <1>1, Zenon DEF IInv, TypesHold
<1>3. \A b \in Bufs : Sound(iovs[b])'
  <2> SUFFICES ASSUME NEW b \in Bufs PROVE Sound(iovs[b])'
    OBVIOUS
  <2>1. Sound(iovs[b]) /\ iovs'[b] = iovs[b]
    BY <1>1, Zenon DEF IInv
  <2>2. Sound(iovs'[b])
    BY <2>1, Zenon
  <2> QED BY <2>2
<1>4. \A b \in Bufs : Pushing(b)' = Pushing(b)
  BY <1>1, Zenon DEF Pushing
<1>5. RoomKept'
  <2> SUFFICES ASSUME NEW b \in Bufs PROVE End(iovs'[b]) + Cardinality(Pushing(b)') <= Cap
    BY Zenon DEF RoomKept, End
  <2>1. End(iovs[b]) + Cardinality(Pushing(b)) <= Cap
    BY Zenon DEF IInv, RoomKept
  <2>2. iovs'[b] = iovs[b] /\ Pushing(b)' = Pushing(b)
    BY <1>1, <1>4, Zenon
  <2>3. End(iovs'[b]) = End(iovs[b])
    BY <2>2, Zenon
  <2> QED BY <2>1, <2>2, <2>3
<1>6. AllApart'
  <2> SUFFICES ASSUME NEW t \in Threads, NEW u \in Threads, t # u, call'[t] # Nil, call'[u] # Nil
               PROVE  Apart(call'[t], call'[u])
    BY Zenon DEF AllApart, Apart, Watches, Changes, Rivals
  <2>1. call[t] # Nil /\ call[u] # Nil => Apart(call[t], call[u])
    BY Zenon DEF IInv, AllApart
  <2> QED BY <1>1, <2>1, Zenon
<1>7. ASSUME NEW t \in Threads PROVE ThreadOk(t)'
  <2>1. ThreadOk(t)
    BY Zenon DEF IInv
  <2>2. call[t] # Nil => StillFits(call[t])'
    BY <1>1, <2>1, Zenon DEF ThreadOk, StillFits
  <2>3. todo[t] # Nil => Rest(t, call[t], todo[t])'
    BY <1>1, <2>1, StaysTheRest, Zenon DEF ThreadOk
  <2> QED BY <1>1, <2>2, <2>3, Zenon DEF ThreadOk
<1>8. IInv'
  BY <1>2, <1>3, <1>5, <1>6, <1>7, Zenon DEF IInv
<1>9. UNCHANGED <<Entries, Room, key, call, ret>>
  BY <1>1, ViewStays, Zenon
<1> QED BY <1>8, <1>9, Zenon DEF G!gvars
-----------------------------------------------------------------------------
(* The theorems.                                                           *)

LEMMA WorkStep ==
  ASSUME IInv, NEW t \in Threads, Works(t)
  PROVE  IInv' /\ (G!Respond(t) \/ UNCHANGED G!gvars)
<1>1. CASE Enter(t)
  BY <1>1, EnterErrorStep, EnterStep, Zenon
<1>2. CASE PushHead(t)
  BY <1>2, PushHeadStep, Zenon
<1>3. CASE PushTail(t)
  BY <1>3, PushTailStep, Zenon
<1>4. CASE Insert(t)
  BY <1>4, InsertStep, Zenon
<1>5. CASE Pop(t)
  BY <1>5, PopStep, Zenon
<1>6. CASE CatCopy(t)
  BY <1>6, CatCopyStep, Zenon
<1>7. CASE CatCount(t)
  BY <1>7, CatCountStep, Zenon
<1>8. CASE StreamCopy(t)
  BY <1>8, StreamCopyStep, Zenon
<1>9. CASE StreamEnd(t)
  BY <1>9, StreamEndStep, Zenon
<1>10. CASE Length(t)
  BY <1>10, LengthStep, Zenon
<1>11. CASE Renew(t)
  BY <1>11, RenewStep, Zenon
<1>12. CASE Iter(t)
  BY <1>12, IterStep, Zenon
<1>13. CASE IterNext(t)
  BY <1>13, IterNextStep, Zenon
<1>14. CASE IterPrev(t)
  BY <1>14, IterPrevStep, Zenon
<1> QED BY <1>1, <1>2, <1>3, <1>4, <1>5, <1>6, <1>7, <1>8, <1>9, <1>10, <1>11, <1>12, <1>13, <1>14,
           Zenon DEF Works

LEMMA EveryStep ==
  ASSUME Care, IInv, [INext]_ivars
  PROVE  IInv' /\ [G!GNext]_(G!gvars)
<1>1. CASE UNCHANGED ivars
  BY <1>1, NothingHappens, Zenon
<1>2. CASE INext
  <2>1. PICK t \in Threads : \/ Works(t) \/ Locks(t)
                             \/ \E c \in CallsOf[t] : Request(t, c)
    BY <1>2, Zenon DEF INext
  <2>2. CASE Works(t)
    <3>1. IInv' /\ (G!Respond(t) \/ UNCHANGED G!gvars)
      BY <2>2, WorkStep, Zenon
    <3> QED BY <3>1, Zenon DEF G!GNext
  <2>3. CASE Locks(t)
    BY <2>3, LockStep, Zenon DEF Locks
  <2>4. CASE \E c \in CallsOf[t] : Request(t, c)
    <3>1. PICK c \in CallsOf[t] : Request(t, c)
      BY <2>4
    <3>2. IInv' /\ G!Request(t, c)
      BY <3>1, RequestStep, Zenon
    <3> QED BY <3>2, Zenon DEF G!GNext
  <2> QED BY <2>1, <2>2, <2>3, <2>4, Zenon
<1> QED BY <1>1, <1>2, Zenon

(* Every buffer has its entries between low and its end, with their bytes  *)
(* counted, and what a call has checked before it takes a mutex, or has    *)
(* copied under it, is still so when it goes on: the checks of             *)
(* nftp_iovs_insert, nftp_iovs_pop, nftp_iovs_cat and nftp_iovs2stream     *)
(* outside their mutexes, if the applications keep to Careful.             *)
THEOREM BuffersStaySound == ASSUME Care PROVE ISpec => []IInv
<1>1. IInit => IInv
  BY AtFirst, Zenon
<1>2. IInv /\ [INext]_ivars => IInv'
  BY EveryStep, Zenon
<1> QED BY <1>1, <1>2, PTL DEF ISpec

(* The buffers of iovs.c, with their mutexes and the array they move the   *)
(* entries in, are sequences of entries each call takes one step on: any   *)
(* number of threads and buffers, any calls that keep to Careful.          *)
THEOREM BuffersAreSegments == ASSUME Care PROVE ISpec => IsSegments
<1>1. IInit => G!GInit
  BY AtFirst, Zenon
<1>2. IInv /\ [INext]_ivars => [G!GNext]_(G!gvars)
  BY EveryStep, Zenon
<1> QED BY <1>1, <1>2, BuffersStaySound, PTL DEF ISpec, IsSegments, G!GSpec
=============================================================================
