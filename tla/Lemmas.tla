------------------------------- MODULE Lemmas -------------------------------
(***************************************************************************)
(* Induction over natural numbers, and functions defined by recursion over *)
(* 0..n, as statements about sets and functions.  The theorems of          *)
(* NaturalsInduction are about every operator P(_); the provers find       *)
(* instances of a statement about every set S by themselves.  And the      *)
(* facts about products, quotients and sequences that the provers do not   *)
(* find.                                                                   *)
(***************************************************************************)
EXTENDS Integers, Sequences, WellFoundedInduction, SequenceTheorems, TLAPS

Less == {p \in Nat \X Nat : p[1] < p[2]}

(* A set of natural numbers that is not empty has a least element.         *)
LEMMA LeastElement ==
  ASSUME NEW T, T \subseteq Nat, T # {}
  PROVE  \E x \in T : \A y \in T : x <= y
<1>1. IsWellFoundedOn(Less, Nat)
  BY NatLessThanWellFounded DEF OpToRel, Less
<1>2. PICK x \in T : \A y \in T : ~(<<y, x>> \in Less)
  BY <1>1, WFMin
<1>3. \A y \in T : ~(y < x)
  BY <1>2 DEF Less
<1> QED
  BY <1>3

(* Induction: P holds for every number in S = {n \in Nat : P(n)}.          *)
LEMMA SetInduction ==
  ASSUME NEW S, 0 \in S, \A n \in Nat : n \in S => n + 1 \in S
  PROVE  \A n \in Nat : n \in S
<1> SUFFICES ASSUME NEW m \in Nat, m \notin S PROVE FALSE
  OBVIOUS
<1>1. PICK x \in Nat \ S : \A y \in Nat \ S : x <= y
  BY LeastElement
<1>2. x # 0 /\ x - 1 \in Nat /\ x - 1 \in S
  BY <1>1
<1> QED
  BY <1>1, <1>2

(* Induction up to m.                                                      *)
LEMMA IntervalInduction ==
  ASSUME NEW m \in Nat, NEW S, 0 \in S, \A n \in 0..(m - 1) : n \in S => n + 1 \in S
  PROVE  \A n \in 0..m : n \in S
<1> DEFINE T == {n \in Nat : n <= m => n \in S}
<1>1. 0 \in T
  OBVIOUS
<1>2. \A n \in Nat : n \in T => n + 1 \in T
  OBVIOUS
<1>3. \A n \in Nat : n \in T
  <2> HIDE DEF T
  <2> QED BY <1>1, <1>2, SetInduction
<1> QED
  BY <1>3

(* A function is defined by its first value and the step from one value to *)
(* the next.                                                               *)
LEMMA RecursionExists ==
  ASSUME NEW S, NEW c \in S, NEW n \in Nat, NEW step \in [1..n -> [S -> S]]
  PROVE  \E g \in [0..n -> S] : g[0] = c /\ \A i \in 1..n : g[i] = step[i][g[i - 1]]
<1> DEFINE Good(g, m) == g[0] = c /\ \A i \in 1..m : g[i] = step[i][g[i - 1]]
           T == {m \in 0..n : \E g \in [0..m -> S] : Good(g, m)}
<1>1. 0 \in T
  <2> DEFINE h == [i \in 0..0 |-> c]
  <2>1. h \in [0..0 -> S] /\ Good(h, 0)
    OBVIOUS
  <2>2. \E g \in [0..0 -> S] : Good(g, 0)
    <3> HIDE DEF h, Good
    <3> QED BY <2>1
  <2> QED BY <2>2
<1>2. ASSUME NEW m \in 0..(n - 1), m \in T PROVE m + 1 \in T
  <2>1. PICK g \in [0..m -> S] : Good(g, m)
    BY <1>2
  <2> DEFINE h == [i \in 0..(m + 1) |-> IF i = m + 1 THEN step[i][g[m]] ELSE g[i]]
  <2>2. m + 1 \in 1..n /\ g[m] \in S
    OBVIOUS
  <2>3. step[m + 1][g[m]] \in S
    BY <2>2
  <2>4. h \in [0..(m + 1) -> S]
    BY <2>3
  <2>5. h[0] = c
    BY <2>1
  <2>6. \A i \in 1..(m + 1) : h[i] = step[i][h[i - 1]]
    <3> TAKE i \in 1..(m + 1)
    <3>1. CASE i = m + 1
      BY <3>1
    <3>2. CASE i # m + 1
      BY <3>2, <2>1
    <3> QED BY <3>1, <3>2
  <2>7. Good(h, m + 1)
    BY <2>5, <2>6
  <2>8. \E f \in [0..(m + 1) -> S] : Good(f, m + 1)
    <3> HIDE DEF h, Good
    <3> QED BY <2>4, <2>7
  <2> QED BY <2>8, <2>2
<1>3. \A m \in 0..n : m \in T
  <2> HIDE DEF T
  <2> QED BY <1>1, <1>2, IntervalInduction
<1>4. n \in T
  BY <1>3
<1> QED
  BY <1>4

(* The same, in a form in which provers find the instance at once.         *)
IsRecursion(n, S, c, step) == n \in Nat /\ c \in S /\ step \in [1..n -> [S -> S]]

Runs(g, n, S, c, step) ==
  g \in [0..n -> S] /\ g[0] = c /\ \A i \in 1..n : g[i] = step[i][g[i - 1]]

LEMMA Recursion ==
  ASSUME NEW n, NEW S, NEW c, NEW step, IsRecursion(n, S, c, step)
  PROVE  \E g : Runs(g, n, S, c, step)
<1>1. n \in Nat /\ c \in S /\ step \in [1..n -> [S -> S]]
  BY DEF IsRecursion
<1>2. \E g \in [0..n -> S] : g[0] = c /\ \A i \in 1..n : g[i] = step[i][g[i - 1]]
  BY <1>1, RecursionExists
<1> QED BY <1>2 DEF Runs

-----------------------------------------------------------------------------
(* Products and quotients.                                                 *)

LEMMA ProductsGrow ==
  ASSUME NEW a \in Nat, NEW b \in Nat, NEW c \in Nat, a <= b
  PROVE  a * c \in Nat /\ b * c \in Nat /\ a * c <= b * c
<1>1. (b - a) * c \in Nat
  BY SMT
<1>2. (b - a) * c = b * c - a * c
  BY SMT
<1> QED BY <1>1, <1>2, SMT

LEMMA Division ==
  ASSUME NEW a \in Nat, NEW b \in Nat \ {0}
  PROVE  a \div b \in Nat /\ a % b \in 0..(b - 1) /\ a = (a \div b) * b + (a % b)
<1>1. a \div b \in Nat /\ a % b \in 0..(b - 1)
  <2>1. a \div b \in Nat
    OBVIOUS
  <2>2. a % b \in 0..(b - 1)
    OBVIOUS
  <2> QED BY <2>1, <2>2
<1>2. a % b = a - (a \div b) * b
  OBVIOUS
<1> QED BY <1>1, <1>2

LEMMA DivisionIsUnique ==
  ASSUME NEW q \in Nat, NEW d \in Nat \ {0}, NEW r \in 0..(d - 1)
  PROVE  (q * d + r) \div d = q /\ (q * d + r) % d = r
OBVIOUS

LEMMA SmallRemainder ==
  ASSUME NEW d \in Nat \ {0}, NEW r \in 0..(d - 1)
  PROVE  r \div d = 0 /\ r % d = r
OBVIOUS

LEMMA QuotientBelow ==
  ASSUME NEW a \in Nat, NEW b \in Nat \ {0}, NEW c \in Nat, a < c * b
  PROVE  a \div b < c
<1>1. PICK q \in Nat, r \in 0..(b - 1) : q = a \div b /\ a = q * b + r
  BY Division
<1>2. c <= q => c * b <= q * b /\ q * b \in Nat /\ c * b \in Nat
  BY ProductsGrow
<1> QED BY <1>1, <1>2

-----------------------------------------------------------------------------
(* Sequences with an entry more or less.                                   *)

WithEntry(s, pos, e) == SubSeq(s, 1, pos) \o <<e>> \o SubSeq(s, pos + 1, Len(s))
WithoutEntry(s, pos) == SubSeq(s, 1, pos) \o SubSeq(s, pos + 2, Len(s))

LEMMA SubSeqIs ==
  ASSUME NEW S, NEW s \in Seq(S), NEW m \in Nat, NEW n \in Nat,
         1 <= m, m <= n + 1, n <= Len(s)
  PROVE  /\ SubSeq(s, m, n) \in Seq(S) /\ Len(SubSeq(s, m, n)) = n - m + 1
         /\ \A k \in 1..(n - m + 1) : SubSeq(s, m, n)[k] = s[m + k - 1]
<1>1. \A i \in m..n : s[i] \in S
  <2>1. Len(s) \in Nat /\ \A i \in 1..Len(s) : s[i] \in S
    BY LenProperties
  <2> QED BY <2>1
<1>2. m \in Int /\ n \in Int
  OBVIOUS
<1>3. /\ SubSeq(s, m, n) \in Seq(S)
      /\ Len(SubSeq(s, m, n)) = IF m <= n THEN n - m + 1 ELSE 0
      /\ \A k \in 1..(n - m + 1) : SubSeq(s, m, n)[k] = s[m + k - 1]
  BY <1>1, <1>2, SubSeqProperties
<1>4. (IF m <= n THEN n - m + 1 ELSE 0) = n - m + 1
  OBVIOUS
<1> QED BY <1>3, <1>4, Zenon

LEMMA WithEntryIs ==
  ASSUME NEW S, NEW s \in Seq(S), NEW pos \in 0..Len(s), NEW e \in S
  PROVE  /\ WithEntry(s, pos, e) \in Seq(S) /\ Len(WithEntry(s, pos, e)) = Len(s) + 1
         /\ \A k \in 1..(Len(s) + 1) :
              WithEntry(s, pos, e)[k] = IF k <= pos THEN s[k]
                                   ELSE IF k = pos + 1 THEN e ELSE s[k - 1]
<1>1. PICK n \in Nat : n = Len(s) /\ pos \in 0..n
  BY LenProperties
<1>2. PICK a : a = SubSeq(s, 1, pos)
  OBVIOUS
<1>3. a \in Seq(S) /\ Len(a) = pos /\ \A k \in 1..pos : a[k] = s[k]
  <2>1. /\ SubSeq(s, 1, pos) \in Seq(S) /\ Len(SubSeq(s, 1, pos)) = pos - 1 + 1
        /\ \A k \in 1..(pos - 1 + 1) : SubSeq(s, 1, pos)[k] = s[1 + k - 1]
    <3>1. 1 \in Nat /\ pos \in Nat /\ 1 <= 1 /\ 1 <= pos + 1 /\ pos <= Len(s)
      BY <1>1
    <3> QED BY <3>1, SubSeqIs
  <2>2. pos - 1 + 1 = pos /\ \A k \in 1..pos : 1 + k - 1 = k
    BY <1>1
  <2> QED BY <1>2, <2>1, <2>2, Zenon
<1>4. <<e>> \in Seq(S) /\ Len(<<e>>) = 1 /\ <<e>>[1] = e
  <2>1. <<e>> \in Seq(S)
    OBVIOUS
  <2>2. Len(<<e>>) = 1 /\ <<e>>[1] = e
    OBVIOUS
  <2> QED BY <2>1, <2>2
<1>5. PICK c : c = SubSeq(s, pos + 1, n)
  OBVIOUS
<1>6. c \in Seq(S) /\ Len(c) = n - pos /\ \A k \in 1..(n - pos) : c[k] = s[pos + k]
  <2>1. /\ SubSeq(s, pos + 1, n) \in Seq(S) /\ Len(SubSeq(s, pos + 1, n)) = n - (pos + 1) + 1
        /\ \A k \in 1..(n - (pos + 1) + 1) : SubSeq(s, pos + 1, n)[k] = s[(pos + 1) + k - 1]
    <3>1. pos + 1 \in Nat /\ 1 <= pos + 1 /\ pos + 1 <= n + 1 /\ n <= Len(s)
      BY <1>1
    <3> QED BY <3>1, SubSeqIs
  <2>2. n - (pos + 1) + 1 = n - pos /\ \A k \in 1..(n - pos) : (pos + 1) + k - 1 = pos + k
    BY <1>1
  <2> QED BY <1>5, <2>1, <2>2, Zenon
<1>7. PICK d : d = a \o <<e>>
  OBVIOUS
<1>8. d \in Seq(S) /\ Len(d) = pos + 1
      /\ \A k \in 1..(pos + 1) : d[k] = IF k <= pos THEN a[k] ELSE <<e>>[k - pos]
  <2>1. /\ a \o <<e>> \in Seq(S) /\ Len(a \o <<e>>) = Len(a) + Len(<<e>>)
        /\ \A k \in 1..(Len(a) + Len(<<e>>)) :
             (a \o <<e>>)[k] = IF k <= Len(a) THEN a[k] ELSE <<e>>[k - Len(a)]
    BY <1>3, <1>4, ConcatProperties
  <2> QED BY <2>1, <1>3, <1>4, <1>7, Zenon
<1>9. PICK f : f = d \o c
  OBVIOUS
<1>10. f \in Seq(S) /\ Len(f) = (pos + 1) + (n - pos)
       /\ \A k \in 1..((pos + 1) + (n - pos)) :
            f[k] = IF k <= pos + 1 THEN d[k] ELSE c[k - (pos + 1)]
  <2>1. /\ d \o c \in Seq(S) /\ Len(d \o c) = Len(d) + Len(c)
        /\ \A k \in 1..(Len(d) + Len(c)) : (d \o c)[k] = IF k <= Len(d) THEN d[k] ELSE c[k - Len(d)]
    BY <1>6, <1>8, ConcatProperties
  <2> QED BY <2>1, <1>6, <1>8, <1>9, Zenon
<1>11. (pos + 1) + (n - pos) = n + 1
  BY <1>1
<1>12. \A k \in 1..(n + 1) : f[k] = IF k <= pos THEN s[k] ELSE IF k = pos + 1 THEN e ELSE s[k - 1]
  <2> TAKE k \in 1..(n + 1)
  <2>0. f[k] = IF k <= pos + 1 THEN d[k] ELSE c[k - (pos + 1)]
    BY <1>10, <1>11, Zenon
  <2>1. CASE k <= pos
    <3>1. k \in 1..pos /\ k \in 1..(pos + 1) /\ k <= pos + 1
      BY <1>1, <2>1
    <3>2. d[k] = a[k] /\ a[k] = s[k]
      BY <3>1, <2>1, <1>3, <1>8, Zenon
    <3> QED BY <2>0, <2>1, <3>1, <3>2, Zenon
  <2>2. CASE k = pos + 1
    <3>1. k - pos = 1 /\ k \in 1..(pos + 1) /\ k <= pos + 1 /\ ~(k <= pos)
      BY <1>1, <2>2
    <3>2. d[k] = <<e>>[k - pos]
      BY <3>1, <1>8, Zenon
    <3> QED BY <2>0, <3>1, <3>2, <2>2, <1>4, Zenon
  <2>3. CASE k > pos + 1
    <3>1. /\ k - (pos + 1) \in 1..(n - pos) /\ ~(k <= pos + 1) /\ ~(k <= pos) /\ k # pos + 1
          /\ pos + (k - (pos + 1)) = k - 1
      BY <1>1, <2>3
    <3> QED BY <2>0, <3>1, <1>6
  <2> QED BY <2>1, <2>2, <2>3, <1>1
<1>13. f = WithEntry(s, pos, e)
  BY <1>1, <1>2, <1>5, <1>7, <1>9 DEF WithEntry
<1> QED BY <1>1, <1>10, <1>11, <1>12, <1>13

LEMMA WithEntryAt ==
  ASSUME NEW S, NEW s \in Seq(S), NEW pos \in 0..Len(s), NEW e \in S,
         NEW k \in 1..(Len(s) + 1)
  PROVE  WithEntry(s, pos, e)[k] = IF k <= pos THEN s[k]
                                   ELSE IF k = pos + 1 THEN e ELSE s[k - 1]
BY WithEntryIs

LEMMA WithoutEntryIs ==
  ASSUME NEW S, NEW s \in Seq(S), NEW pos \in 0..(Len(s) - 1)
  PROVE  /\ WithoutEntry(s, pos) \in Seq(S) /\ Len(WithoutEntry(s, pos)) = Len(s) - 1
         /\ \A k \in 1..(Len(s) - 1) :
              WithoutEntry(s, pos)[k] = IF k <= pos THEN s[k] ELSE s[k + 1]
<1>1. PICK n \in Nat : n = Len(s) /\ pos \in 0..(n - 1)
  BY LenProperties
<1>2. PICK a : a = SubSeq(s, 1, pos)
  OBVIOUS
<1>3. a \in Seq(S) /\ Len(a) = pos /\ \A k \in 1..pos : a[k] = s[k]
  <2>1. /\ SubSeq(s, 1, pos) \in Seq(S) /\ Len(SubSeq(s, 1, pos)) = pos - 1 + 1
        /\ \A k \in 1..(pos - 1 + 1) : SubSeq(s, 1, pos)[k] = s[1 + k - 1]
    <3>1. 1 \in Nat /\ pos \in Nat /\ 1 <= 1 /\ 1 <= pos + 1 /\ pos <= Len(s)
      BY <1>1
    <3> QED BY <3>1, SubSeqIs
  <2>2. pos - 1 + 1 = pos /\ \A k \in 1..pos : 1 + k - 1 = k
    BY <1>1
  <2> QED BY <1>2, <2>1, <2>2, Zenon
<1>4. PICK c : c = SubSeq(s, pos + 2, n)
  OBVIOUS
<1>5. c \in Seq(S) /\ Len(c) = n - 1 - pos
      /\ \A k \in 1..(n - 1 - pos) : c[k] = s[pos + 1 + k]
  <2>1. /\ SubSeq(s, pos + 2, n) \in Seq(S) /\ Len(SubSeq(s, pos + 2, n)) = n - (pos + 2) + 1
        /\ \A k \in 1..(n - (pos + 2) + 1) : SubSeq(s, pos + 2, n)[k] = s[(pos + 2) + k - 1]
    <3>1. pos + 2 \in Nat /\ 1 <= pos + 2 /\ pos + 2 <= n + 1 /\ n <= Len(s)
      BY <1>1
    <3> QED BY <3>1, SubSeqIs
  <2>2. n - (pos + 2) + 1 = n - 1 - pos
        /\ \A k \in 1..(n - 1 - pos) : (pos + 2) + k - 1 = pos + 1 + k
    BY <1>1
  <2> QED BY <1>4, <2>1, <2>2, Zenon
<1>6. PICK f : f = a \o c
  OBVIOUS
<1>7. f \in Seq(S) /\ Len(f) = pos + (n - 1 - pos)
      /\ \A k \in 1..(pos + (n - 1 - pos)) : f[k] = IF k <= pos THEN a[k] ELSE c[k - pos]
  <2>1. /\ a \o c \in Seq(S) /\ Len(a \o c) = Len(a) + Len(c)
        /\ \A k \in 1..(Len(a) + Len(c)) : (a \o c)[k] = IF k <= Len(a) THEN a[k] ELSE c[k - Len(a)]
    BY <1>3, <1>5, ConcatProperties
  <2> QED BY <2>1, <1>3, <1>5, <1>6, Zenon
<1>8. pos + (n - 1 - pos) = n - 1
  BY <1>1
<1>9. \A k \in 1..(n - 1) : f[k] = IF k <= pos THEN s[k] ELSE s[k + 1]
  <2> TAKE k \in 1..(n - 1)
  <2>1. CASE k <= pos
    <3>1. k \in 1..pos
      BY <1>1, <2>1
    <3> QED BY <3>1, <2>1, <1>3, <1>7, <1>8
  <2>2. CASE ~(k <= pos)
    <3>1. k - pos \in 1..(n - 1 - pos) /\ pos + 1 + (k - pos) = k + 1
      BY <1>1, <2>2
    <3> QED BY <3>1, <2>2, <1>5, <1>7, <1>8
  <2> QED BY <2>1, <2>2
<1>10. f = WithoutEntry(s, pos)
  BY <1>1, <1>2, <1>4, <1>6 DEF WithoutEntry
<1> QED BY <1>1, <1>7, <1>8, <1>9, <1>10

(* Sequences with the same entries are the same.                           *)
LEMMA SameEntries ==
  ASSUME NEW S, NEW s \in Seq(S), NEW t \in Seq(S), NEW n \in Nat, Len(s) = n, Len(t) = n,
         \A i \in 0..(n - 1) : s[i + 1] = t[i + 1]
  PROVE  s = t
<1>1. ASSUME NEW k \in 1..n PROVE s[k] = t[k]
  <2>1. k - 1 \in 0..(n - 1) /\ (k - 1) + 1 = k
    OBVIOUS
  <2> QED BY <2>1
<1> QED BY <1>1, SeqEqual
=============================================================================
