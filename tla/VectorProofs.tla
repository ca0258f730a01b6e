---------------------------- MODULE VectorProofs ----------------------------
(***************************************************************************)
(* Theorems about Vector, for any capacity and any number of threads.      *)
(***************************************************************************)
EXTENDS Vector, Lemmas

Taking == {"pop_head", "pop_tail", "delete"}

Call == [op : {"push_head", "push_tail"}, e : Elems]
        \cup [op : {"pop_head", "pop_tail"}]
        \cup [op : {"insert"}, e : Elems, pos : Nat]
        \cup [op : {"delete", "get"}, pos : Int]
        \cup [op : {"getidx"}, e : Elems]

(* The threads make the calls of the vector, and one of them at most takes *)
(* entries out.                                                            *)
OneTaker ==
  /\ CallsOf \in [Threads -> SUBSET Call]
  /\ Nil \notin Threads /\ Nil \notin Call
  /\ \A t, u \in Threads :
       (\E c \in CallsOf[t] : c.op \in Taking) /\ (\E c \in CallsOf[u] : c.op \in Taking)
         => t = u

(* Whether thread t is about to take an entry out.                         *)
Takes(t) == todo[t] # Nil /\ todo[t].op \in Taking

CallsKnown ==
  /\ call \in [Threads -> Call \cup {Nil}]
  /\ todo \in [Threads -> Call \cup {Nil}]
  /\ \A t \in Threads :
       /\ call[t] # Nil => call[t] \in CallsOf[t]
       /\ todo[t] # Nil => call[t] # Nil
       /\ Takes(t) => call[t].op \in Taking
       /\ mtx = t => todo[t] # Nil /\ ~Reads(todo[t])

(* What the check found out about len still holds under the mutex.         *)
ChecksHold == \A t \in Threads : Takes(t) => len > 0

VInv == VTypeOK /\ CallsKnown /\ ChecksHold

LEMMA SlotIsSlot == ASSUME NEW i \in Int PROVE Slot(i) \in Slots
BY VectorAssumption DEF Slot, Slots

LEMMA CallFacts ==
  ASSUME NEW c \in Call
  PROVE  /\ c.op \in {"push_head", "push_tail", "pop_head", "pop_tail", "insert",
                      "delete", "get", "getidx"}
         /\ c.op \in {"push_head", "push_tail", "insert", "getidx"} => c.e \in Elems
         /\ c.op = "insert" => c.pos \in Nat
         /\ c.op \in {"delete", "get"} => c.pos \in Int
BY DEF Call

LEMMA InitInv == ASSUME OneTaker, VInit PROVE VInv
<1>1. Cap \div 4 \in Slots
  BY VectorAssumption DEF Slots
<1>2. 0 \in 0..Cap
  BY VectorAssumption
<1> QED
  BY <1>1, <1>2 DEF OneTaker, VInit, VInv, VTypeOK, CallsKnown, ChecksHold, Takes

(* An answer leaves a thread with nothing to do.                           *)
LEMMA AnswerKnown ==
  ASSUME OneTaker, VInv, NEW t \in Threads, NEW o, Answer(t, o),
         mtx' \in Threads \cup {Nil}, \A u \in Threads : mtx' = u => mtx = u /\ u # t
  PROVE  CallsKnown' /\ \A u \in Threads : /\ call'[u] = Nil => todo'[u] = Nil
                                           /\ Takes(u)' => Takes(u) /\ u # t
<1>1. \A u \in Threads : /\ call'[u] = IF u = t THEN Nil ELSE call[u]
                         /\ todo'[u] = IF u = t THEN Nil ELSE todo[u]
  BY DEF Answer, VInv, CallsKnown
<1>2. /\ call' \in [Threads -> Call \cup {Nil}]
      /\ todo' \in [Threads -> Call \cup {Nil}]
  BY DEF Answer, VInv, CallsKnown
<1> QED
  BY <1>1, <1>2 DEF VInv, CallsKnown, Takes, VTypeOK

(* Two threads never both take.                                            *)
LEMMA TakerIsOne ==
  ASSUME OneTaker, VInv, NEW t \in Threads, NEW u \in Threads, Takes(t), Takes(u)
  PROVE  t = u
<1>1. /\ call[t] \in CallsOf[t] /\ call[t].op \in Taking
      /\ call[u] \in CallsOf[u] /\ call[u].op \in Taking
  BY DEF VInv, CallsKnown, Takes
<1> QED
  BY <1>1 DEF OneTaker

(* The locked code keeps the types.                                        *)
LEMMA LockedTypes ==
  ASSUME OneTaker, VInv, NEW t \in Threads, Locked(t)
  PROVE  /\ low' \in Slots /\ len' \in 0..Cap /\ vec' \in [Slots -> Elems \cup {Nil}]
         /\ len' < len => Takes(t)
         /\ \E o : Answer(t, o)
<1> DEFINE c == todo[t]
<1>0. /\ low \in Slots /\ low \in Int /\ len \in 0..Cap /\ Cap \in Nat \ {0}
      /\ vec \in [Slots -> Elems \cup {Nil}] /\ Slots = 0..(Cap - 1)
  BY VectorAssumption DEF VInv, VTypeOK, Slots
<1>1. c \in Call /\ mtx = t /\ Defined(c)
  BY DEF Locked, Holds, VInv, CallsKnown
<1>2. CASE PushFull(t)
  BY <1>0, <1>2 DEF PushFull
<1>3. CASE c.op = "push_head" /\ PushHead(t, c.e)
  <2>1. c.e \in Elems
    BY <1>1, <1>3, CallFacts
  <2>2. low' \in Slots
    BY <1>0, <1>3, SlotIsSlot DEF PushHead, Slot
  <2>3. vec' = [vec EXCEPT ![low'] = c.e] /\ len' = len + 1 /\ len < Cap
    BY <1>3 DEF PushHead
  <2> QED
    BY <1>0, <1>3, <2>1, <2>2, <2>3 DEF PushHead
<1>4. CASE c.op = "push_tail" /\ PushTail(t, c.e)
  <2>1. c.e \in Elems /\ Slot(low + len) \in Slots
    BY <1>0, <1>1, <1>4, CallFacts, SlotIsSlot
  <2> QED
    BY <1>0, <1>4, <2>1 DEF PushTail
<1>5. CASE c.op = "insert" /\ Insert(t, c.e, c.pos)
  <2>1. c.e \in Elems /\ len < Cap
    BY <1>1, <1>5, CallFacts DEF Defined
  <2>2. \A s \in Slots : Slot(s - 1 + Cap) \in Slots
    BY <1>0, SlotIsSlot
  <2>3. vec' \in [Slots -> Elems \cup {Nil}]
    BY <1>0, <1>5, <2>1, <2>2 DEF Insert
  <2> QED
    BY <1>0, <1>5, <2>1, <2>3 DEF Insert
<1>6. CASE c.op = "delete" /\ Delete(t, c.pos)
  <2>1. Takes(t) /\ len > 0
    BY <1>1, <1>6 DEF VInv, ChecksHold, Takes, Taking, OneTaker
  <2>2. \A s \in Slots : Slot(s + 1) \in Slots
    BY <1>0, SlotIsSlot
  <2>3. vec' \in [Slots -> Elems \cup {Nil}]
    BY <1>0, <1>6, <2>2 DEF Delete
  <2> QED
    BY <1>0, <1>6, <2>1, <2>3 DEF Delete
<1>7. CASE c.op = "pop_head" /\ PopHead(t)
  <2>1. Takes(t) /\ len > 0
    BY <1>1, <1>7 DEF VInv, ChecksHold, Takes, Taking, OneTaker
  <2>2. Slot(low + 1) \in Slots
    BY <1>0, SlotIsSlot
  <2> QED
    BY <1>0, <1>7, <2>1, <2>2 DEF PopHead
<1>8. CASE c.op = "pop_tail" /\ PopTail(t)
  <2>1. Takes(t) /\ len > 0
    BY <1>1, <1>8 DEF VInv, ChecksHold, Takes, Taking, OneTaker
  <2>2. /\ low' = low /\ len' = len - 1
        /\ vec' = [vec EXCEPT ![Slot(low + len - 1)] = Nil]
    BY <1>8 DEF PopTail
  <2>3. \E o : Answer(t, o)
    BY <1>8 DEF PopTail
  <2>4. vec' \in [Slots -> Elems \cup {Nil}]
    BY <1>0, <2>2
  <2> QED
    BY <1>0, <2>1, <2>2, <2>3, <2>4
<1> QED
  BY <1>2, <1>3, <1>4, <1>5, <1>6, <1>7, <1>8 DEF Locked

LEMMA StepInv == ASSUME OneTaker, VInv, [VNext]_vvars PROVE VInv'
<1>0. /\ len \in Int /\ \A t \in Threads : t # Nil
      /\ CallsOf \in [Threads -> SUBSET Call]
  BY DEF OneTaker, VInv, VTypeOK
<1>1. CASE UNCHANGED vvars
  BY <1>1 DEF vvars, VInv, VTypeOK, CallsKnown, ChecksHold, Takes
<1>2. ASSUME NEW t \in Threads, NEW c \in CallsOf[t], Request(t, c) PROVE VInv'
  <2>1. todo[t] = Nil /\ c \in Call /\ call' = [call EXCEPT ![t] = c]
        /\ UNCHANGED <<low, len, vec, mtx, todo>>
    BY <1>0, <1>2 DEF Request, VInv, VTypeOK
  <2>2. CallsKnown'
    BY <2>1 DEF VInv, CallsKnown, Takes, OneTaker
  <2> QED
    BY <2>1, <2>2 DEF VInv, VTypeOK, ChecksHold, Takes, CallsKnown, OneTaker
<1>3. ASSUME NEW t \in Threads, Enter(t) PROVE VInv'
  <2>1. UNCHANGED <<low, len, vec, mtx>> /\ todo[t] = Nil /\ call[t] # Nil
    BY <1>3 DEF Enter
  <2>2. CASE \E o : Answer(t, o)
    <3>1. PICK o : Answer(t, o)
      BY <2>2
    <3>2. mtx' \in Threads \cup {Nil} /\ \A u \in Threads : mtx' = u => mtx = u /\ u # t
      BY <2>1 DEF VInv, VTypeOK, CallsKnown
    <3> QED
      BY <2>1, <3>1, <3>2, AnswerKnown DEF VInv, VTypeOK, ChecksHold
  <2>3. CASE Check(call[t]) = "ok" /\ todo' = [todo EXCEPT ![t] = TurnedInto(call[t])]
             /\ UNCHANGED call
    <3> DEFINE c == call[t]
    <3>1. c \in Call
      BY <2>1 DEF VInv, CallsKnown
    <3>2. TurnedInto(c) \in Call /\ (TurnedInto(c).op \in Taking => c.op \in Taking)
      BY <3>1, CallFacts DEF TurnedInto, Call, Taking
    <3>3. c.op \in Taking => len > 0
      <4>1. CASE c.op \in {"pop_head", "pop_tail"}
        BY <1>0, <2>3, <4>1 DEF Check, VInv, VTypeOK
      <4>2. CASE c.op = "delete"
        BY <1>0, <2>3, <3>1, <4>2, CallFacts DEF Check
      <4> QED
        BY <4>1, <4>2 DEF Taking
    <3>4. CallsKnown'
      BY <2>1, <2>3, <3>1, <3>2 DEF VInv, CallsKnown, Takes, OneTaker
    <3>5. ChecksHold'
      BY <2>1, <2>3, <3>2, <3>3 DEF VInv, ChecksHold, Takes, CallsKnown
    <3>6. VTypeOK'
      BY <2>1, <2>3 DEF VInv, VTypeOK, CallsKnown
    <3> QED
      BY <3>4, <3>5, <3>6 DEF VInv
  <2> QED
    BY <1>3, <2>2, <2>3 DEF Enter
<1>4. ASSUME NEW t \in Threads, Lock(t) PROVE VInv'
  BY <1>0, <1>4 DEF Lock, VInv, VTypeOK, CallsKnown, ChecksHold, Takes
<1>5. ASSUME NEW t \in Threads, Locked(t) PROVE VInv'
  <2>1. /\ low' \in Slots /\ len' \in 0..Cap /\ vec' \in [Slots -> Elems \cup {Nil}]
        /\ len' < len => Takes(t)
        /\ \E o : Answer(t, o)
    BY <1>5, LockedTypes
  <2>2. mtx = t /\ mtx' = Nil
    BY <1>5 DEF Locked, Holds, Unlock
  <2>3. CallsKnown' /\ \A u \in Threads : /\ call'[u] = Nil => todo'[u] = Nil
                                          /\ Takes(u)' => Takes(u) /\ u # t
    BY <1>0, <2>1, <2>2, AnswerKnown
  <2>4. ChecksHold'
    <3> SUFFICES ASSUME NEW u \in Threads, Takes(u)' PROVE len' > 0
      BY DEF ChecksHold, Takes
    <3>1. Takes(u) /\ u # t
      BY <2>3
    <3>2. ~Takes(t)
      BY <3>1, TakerIsOne
    <3>3. len > 0 /\ len' \in Int /\ ~(len' < len)
      BY <2>1, <3>1, <3>2 DEF VInv, ChecksHold
    <3> QED
      BY <1>0, <3>3
  <2> QED
    BY <2>1, <2>2, <2>3, <2>4 DEF VInv, VTypeOK
<1>6. ASSUME NEW t \in Threads, Get(t) \/ GetIdx(t) PROVE VInv'
  <2>1. UNCHANGED <<low, len, vec, mtx>> /\ todo[t].op \in {"get", "getidx"}
        /\ \E o : Answer(t, o)
    BY <1>6 DEF Get, GetIdx
  <2>2. mtx' \in Threads \cup {Nil} /\ \A u \in Threads : mtx' = u => mtx = u /\ u # t
    BY <2>1 DEF VInv, VTypeOK, CallsKnown, Reads
  <2> QED
    BY <2>1, <2>2, AnswerKnown DEF VInv, VTypeOK, ChecksHold
<1> QED
  BY <1>1, <1>2, <1>3, <1>4, <1>5, <1>6 DEF VNext

(* However the pushes and lookups of other threads fall between the check  *)
(* of len and the locked code, the counts and slots of the ring stay in    *)
(* range, as long as one thread takes entries out.                         *)
THEOREM RingStaysInRange ==
  ASSUME OneTaker
  PROVE  VSpec => []VTypeOK
<1>1. VInit => VInv
  BY InitInv
<1>2. VInv /\ [VNext]_vvars => VInv'
  BY StepInv
<1>3. VInv => VTypeOK
  BY DEF VInv
<1> QED
  BY <1>1, <1>2, <1>3, PTL DEF VSpec
-----------------------------------------------------------------------------
(* The ring read from low.                                                 *)

LEMMA CapIs == Cap \in Int /\ Cap > 0
BY VectorAssumption

LEMMA SlotIs ==
  ASSUME NEW x \in Nat, x < 2 * Cap
  PROVE  Slot(x) = IF x < Cap THEN x ELSE x - Cap
<1>1. PICK c \in Nat \ {0} : c = Cap
  BY CapIs
<1>2. CASE x < c
  <2>1. x \in 0..(c - 1)
    BY <1>2
  <2>2. x % c = x
    BY <2>1, SmallRemainder
  <2> QED BY <1>1, <1>2, <2>2 DEF Slot
<1>3. CASE ~(x < c)
  <2>1. PICK r : r = x - c
    OBVIOUS
  <2>2. r \in 0..(c - 1) /\ 1 * c + r = x
    BY <1>1, <1>3, <2>1
  <2>3. 1 \in Nat /\ (1 * c + r) % c = r
    BY <2>2, DivisionIsUnique
  <2>4. x % c = r
    BY <2>2, <2>3
  <2> QED BY <1>1, <1>3, <2>1, <2>4 DEF Slot
<1> QED BY <1>1, <1>2, <1>3

(* The slot of the i-th entry after the one in slot l.                     *)
LEMMA SlotFrom ==
  ASSUME NEW l \in Slots, NEW i \in Nat, i <= Cap
  PROVE  /\ Slot(l + i) = IF l + i < Cap THEN l + i ELSE l + i - Cap
         /\ Slot(l + i) \in Slots
<1>1. PICK c \in Nat : c = Cap /\ c > 0
  BY CapIs
<1>2. l \in 0..(c - 1)
  BY <1>1 DEF Slots
<1>3. PICK x \in Nat : x = l + i /\ x < 2 * c
  BY <1>1, <1>2
<1>4. Slot(x) = IF x < Cap THEN x ELSE x - Cap
  BY <1>1, <1>3, SlotIs
<1>5. (IF x < c THEN x ELSE x - c) \in 0..(c - 1)
  BY <1>1, <1>2, <1>3
<1> QED BY <1>1, <1>3, <1>4, <1>5 DEF Slots

LEMMA SlotsDiffer ==
  ASSUME NEW l \in Slots, NEW i \in Nat, NEW j \in Nat, i < Cap, j < Cap
  PROVE  Slot(l + i) = Slot(l + j) => i = j
<1>1. PICK c \in Nat : c = Cap /\ c > 0
  BY CapIs
<1>2. l \in 0..(c - 1)
  BY <1>1 DEF Slots
<1>3. i <= Cap /\ j <= Cap
  BY <1>1
<1>4. Slot(l + i) = IF l + i < c THEN l + i ELSE l + i - c
  BY <1>1, <1>3, SlotFrom
<1>5. Slot(l + j) = IF l + j < c THEN l + j ELSE l + j - c
  BY <1>1, <1>3, SlotFrom
<1> QED BY <1>1, <1>2, <1>4, <1>5

LEMMA SlotsNextTo ==
  ASSUME NEW l \in Slots, NEW i \in Nat, i < Cap
  PROVE  /\ Slot(Slot(l + i) + 1) = Slot(l + (i + 1))
         /\ i > 0 => Slot(Slot(l + i) - 1 + Cap) = Slot(l + (i - 1))
<1>1. PICK c \in Nat : c = Cap /\ c > 0
  BY CapIs
<1>2. l \in 0..(c - 1)
  BY <1>1 DEF Slots
<1>3. i <= Cap /\ i + 1 \in Nat /\ i + 1 <= Cap
  BY <1>1
<1>4. Slot(l + i) = IF l + i < c THEN l + i ELSE l + i - c
  BY <1>1, <1>3, SlotFrom
<1>5. Slot(l + (i + 1)) = IF l + (i + 1) < c THEN l + (i + 1) ELSE l + (i + 1) - c
  BY <1>1, <1>3, SlotFrom
<1>6. PICK s \in Nat : s = Slot(l + i) /\ s < c
  BY <1>1, <1>2, <1>4
<1>7. Slot(s + 1) = IF s + 1 < c THEN s + 1 ELSE s + 1 - c
  <2>1. s + 1 \in Nat /\ s + 1 < 2 * Cap
    BY <1>1, <1>6
  <2> QED BY <1>1, <2>1, SlotIs
<1>8. Slot(s + 1) = Slot(l + (i + 1))
  <2>1. CASE l + i < c
    <3>1. s + 1 = l + (i + 1)
      BY <1>2, <1>4, <1>6, <2>1
    <3> QED BY <3>1, Zenon
  <2>2. CASE ~(l + i < c)
    <3>1. s = l + i - c /\ l \in Int
      BY <1>2, <1>4, <1>6, <2>2
    <3>2. s + 1 < c /\ s + 1 = l + (i + 1) - c /\ ~(l + (i + 1) < c)
      BY <1>2, <1>3, <1>1, <2>2, <3>1
    <3> QED BY <1>5, <1>7, <3>2
  <2> QED BY <2>1, <2>2
<1>9. ASSUME i > 0 PROVE Slot(s - 1 + Cap) = Slot(l + (i - 1))
  <2>1. s - 1 + c \in Nat /\ s - 1 + c < 2 * Cap /\ i - 1 \in Nat /\ i - 1 <= Cap
    BY <1>1, <1>6, <1>9
  <2>2. Slot(s - 1 + c) = IF s - 1 + c < c THEN s - 1 + c ELSE s - 1 + c - c
    BY <1>1, <2>1, SlotIs
  <2>3. Slot(l + (i - 1)) = IF l + (i - 1) < c THEN l + (i - 1) ELSE l + (i - 1) - c
    BY <1>1, <2>1, SlotFrom
  <2>4. Slot(s - 1 + c) = Slot(l + (i - 1))
    BY <1>2, <1>4, <1>6, <1>9, <2>2, <2>3
  <2> QED BY <1>1, <2>4
<1> QED BY <1>6, <1>8, <1>9

Window(v, l, n) == [k \in 1..n |-> v[Slot(l + k - 1)]]

LEMMA WindowIs ==
  ASSUME NEW S, NEW v \in [Slots -> S], NEW l \in Slots, NEW n \in 0..Cap
  PROVE  /\ Window(v, l, n) \in Seq(S) /\ Len(Window(v, l, n)) = n
         /\ \A i \in 0..(n - 1) : Window(v, l, n)[i + 1] = v[Slot(l + i)]
<1>1. n \in Nat /\ n <= Cap /\ Cap \in Nat /\ l \in Int
  BY VectorAssumption DEF Slots
<1>2. ASSUME NEW k \in 1..n PROVE v[Slot(l + k - 1)] \in S
  <2>1. l + k - 1 \in Int
    BY <1>1
  <2>2. Slot(l + k - 1) \in Slots
    BY <2>1, SlotIsSlot
  <2> QED BY <2>2
<1>3. PICK w : w = Window(v, l, n)
  OBVIOUS
<1>4. w \in Seq(S) /\ Len(w) = n
  <2>1. w = [k \in 1..n |-> v[Slot(l + k - 1)]]
    BY <1>3 DEF Window
  <2> QED BY <2>1, <1>1, <1>2
<1>5. ASSUME NEW i \in 0..(n - 1) PROVE w[i + 1] = v[Slot(l + i)]
  <2>1. i + 1 \in 1..n /\ l + (i + 1) - 1 = l + i
    BY <1>1
  <2>2. w[i + 1] = v[Slot(l + (i + 1) - 1)]
    BY <2>1, <1>3 DEF Window
  <2> QED BY <2>1, <2>2
<1> QED BY <1>3, <1>4, <1>5

IsWindow(S, v, l, n) == v \in [Slots -> S] /\ l \in Slots /\ n \in 0..Cap
Shows(S, s, v, l, n) == /\ s \in Seq(S) /\ Len(s) = n
                        /\ \A i \in 0..(n - 1) : s[i + 1] = v[Slot(l + i)]

LEMMA WindowShows ==
  ASSUME NEW S, NEW v, NEW l, NEW n, IsWindow(S, v, l, n)
  PROVE  Shows(S, Window(v, l, n), v, l, n)
<1>1. v \in [Slots -> S] /\ l \in Slots /\ n \in 0..Cap
  BY DEF IsWindow
<1> QED BY <1>1, WindowIs, Zenon DEF Shows

(* The ring with an entry more or less, one slot at a time.                *)
AddedAt(S, v, l, w, m, n, pos, e) ==
  /\ v \in [Slots -> S] /\ w \in [Slots -> S] /\ l \in Slots /\ m \in Slots
  /\ n \in Nat /\ n < Cap /\ pos \in 0..n /\ e \in S
  /\ \A i \in 0..n : w[Slot(m + i)] = IF i < pos THEN v[Slot(l + i)]
                                      ELSE IF i = pos THEN e ELSE v[Slot(l + (i - 1))]
DroppedAt(S, v, l, w, m, n, pos) ==
  /\ v \in [Slots -> S] /\ w \in [Slots -> S] /\ l \in Slots /\ m \in Slots
  /\ n \in Nat /\ 0 < n /\ n <= Cap /\ pos \in 0..(n - 1)
  /\ \A i \in 0..(n - 2) : w[Slot(m + i)] = IF i < pos THEN v[Slot(l + i)] ELSE v[Slot(l + (i + 1))]

LEMMA WindowWith ==
  ASSUME NEW S, NEW v, NEW l, NEW w, NEW m, NEW n, NEW pos, NEW e,
         AddedAt(S, v, l, w, m, n, pos, e)
  PROVE  Window(w, m, n + 1) = WithEntry(Window(v, l, n), pos, e)
<1> n \in Nat /\ n < Cap /\ pos \in 0..n /\ e \in S
  BY DEF AddedAt
<1> v \in [Slots -> S] /\ w \in [Slots -> S] /\ l \in Slots /\ m \in Slots
  BY DEF AddedAt
<1>1. n \in 0..Cap /\ n + 1 \in 0..Cap /\ (n + 1) - 1 = n
  BY CapIs
<1>2. PICK s : s = Window(v, l, n)
  OBVIOUS
<1>3. PICK t : t = Window(w, m, n + 1)
  OBVIOUS
<1>4. s \in Seq(S) /\ Len(s) = n /\ \A i \in 0..(n - 1) : s[i + 1] = v[Slot(l + i)]
  <2>1. IsWindow(S, v, l, n)
    BY <1>1 DEF IsWindow
  <2>2. Shows(S, s, v, l, n)
    BY <1>2, <2>1, WindowShows, Zenon
  <2> QED BY <2>2, Zenon DEF Shows
<1>5. t \in Seq(S) /\ Len(t) = n + 1 /\ \A i \in 0..n : t[i + 1] = w[Slot(m + i)]
  <2>1. IsWindow(S, w, m, n + 1)
    BY <1>1 DEF IsWindow
  <2>2. Shows(S, t, w, m, n + 1)
    BY <1>3, <2>1, WindowShows, Zenon
  <2> QED BY <1>1, <2>2 DEF Shows
<1>6. PICK u : u = WithEntry(s, pos, e)
  OBVIOUS
<1>7. /\ u \in Seq(S) /\ Len(u) = n + 1
      /\ \A k \in 1..(n + 1) : u[k] = IF k <= pos THEN s[k] ELSE IF k = pos + 1 THEN e ELSE s[k - 1]
  <2>1. /\ WithEntry(s, pos, e) \in Seq(S) /\ Len(WithEntry(s, pos, e)) = Len(s) + 1
        /\ \A k \in 1..(Len(s) + 1) :
             WithEntry(s, pos, e)[k] = IF k <= pos THEN s[k]
                                  ELSE IF k = pos + 1 THEN e ELSE s[k - 1]
    <3>1. pos \in 0..Len(s)
      BY <1>4
    <3>2. s \in Seq(S)
      BY <1>4
    <3>3. e \in S
      OBVIOUS
    <3> HIDE DEF WithEntry
    <3> QED BY <3>1, <3>2, <3>3, WithEntryIs, SMTT(30)
  <2> QED BY <2>1, <1>4, <1>6, Zenon
<1>8. ASSUME NEW i \in 0..n PROVE u[i + 1] = t[i + 1]
  <2>1. /\ i + 1 \in 1..(n + 1) /\ (i + 1 <= pos <=> i < pos) /\ (i + 1 = pos + 1 <=> i = pos)
        /\ (i + 1) - 1 = i
    OBVIOUS
  <2>2. u[i + 1] = IF i < pos THEN s[i + 1] ELSE IF i = pos THEN e ELSE s[i]
    <3>1. u[i + 1] = IF i + 1 <= pos THEN s[i + 1] ELSE IF i + 1 = pos + 1 THEN e ELSE s[(i + 1) - 1]
      BY <1>7, <2>1
    <3> QED BY <2>1, <3>1
  <2>3. i < pos => s[i + 1] = v[Slot(l + i)]
    BY <1>4
  <2>4. i > pos => s[i] = v[Slot(l + (i - 1))]
    <3> HAVE i > pos
    <3>1. i - 1 \in 0..(n - 1) /\ (i - 1) + 1 = i
      OBVIOUS
    <3> QED BY <1>4, <3>1
  <2>5. t[i + 1] = w[Slot(m + i)]
    BY <1>5
  <2>6. i < pos \/ i = pos \/ i > pos
    OBVIOUS
  <2> QED BY <2>2, <2>3, <2>4, <2>5, <2>6 DEF AddedAt
<1>9. u = t
  <2>1. n + 1 \in Nat /\ \A i \in 0..((n + 1) - 1) : u[i + 1] = t[i + 1]
    BY <1>1, <1>8
  <2> QED BY <2>1, <1>5, <1>7, SameEntries
<1> QED BY <1>2, <1>3, <1>6, <1>9

LEMMA WindowWithout ==
  ASSUME NEW S, NEW v, NEW l, NEW w, NEW m, NEW n, NEW pos,
         DroppedAt(S, v, l, w, m, n, pos)
  PROVE  Window(w, m, n - 1) = WithoutEntry(Window(v, l, n), pos)
<1> n \in Nat /\ 0 < n /\ n <= Cap /\ pos \in 0..(n - 1)
  BY DEF DroppedAt
<1> v \in [Slots -> S] /\ w \in [Slots -> S] /\ l \in Slots /\ m \in Slots
  BY DEF DroppedAt
<1>1. n \in 0..Cap /\ n - 1 \in 0..Cap /\ (n - 1) - 1 = n - 2 /\ n - 1 \in Nat
  BY CapIs
<1>2. PICK s : s = Window(v, l, n)
  OBVIOUS
<1>3. PICK t : t = Window(w, m, n - 1)
  OBVIOUS
<1>4. s \in Seq(S) /\ Len(s) = n /\ \A i \in 0..(n - 1) : s[i + 1] = v[Slot(l + i)]
  <2>1. IsWindow(S, v, l, n)
    BY <1>1 DEF IsWindow
  <2>2. Shows(S, s, v, l, n)
    BY <1>2, <2>1, WindowShows, Zenon
  <2> QED BY <2>2, Zenon DEF Shows
<1>5. t \in Seq(S) /\ Len(t) = n - 1 /\ \A i \in 0..(n - 2) : t[i + 1] = w[Slot(m + i)]
  <2>1. IsWindow(S, w, m, n - 1)
    BY <1>1 DEF IsWindow
  <2>2. Shows(S, t, w, m, n - 1)
    BY <1>3, <2>1, WindowShows, Zenon
  <2> QED BY <1>1, <2>2 DEF Shows
<1>6. PICK u : u = WithoutEntry(s, pos)
  OBVIOUS
<1>7. /\ u \in Seq(S) /\ Len(u) = n - 1
      /\ \A k \in 1..(n - 1) : u[k] = IF k <= pos THEN s[k] ELSE s[k + 1]
  BY <1>4, <1>6, WithoutEntryIs
<1>8. ASSUME NEW i \in 0..(n - 2) PROVE u[i + 1] = t[i + 1]
  <2>1. i + 1 \in 1..(n - 1) /\ (i + 1 <= pos <=> i < pos) /\ i \in 0..(n - 1) /\ i + 1 \in 0..(n - 1)
    OBVIOUS
  <2>2. u[i + 1] = IF i < pos THEN s[i + 1] ELSE s[(i + 1) + 1]
    <3>1. u[i + 1] = IF i + 1 <= pos THEN s[i + 1] ELSE s[(i + 1) + 1]
      BY <1>7, <2>1
    <3> QED BY <2>1, <3>1
  <2>3. s[i + 1] = v[Slot(l + i)] /\ s[(i + 1) + 1] = v[Slot(l + (i + 1))]
    BY <1>4, <2>1
  <2>4. t[i + 1] = w[Slot(m + i)]
    BY <1>5
  <2> QED BY <2>2, <2>3, <2>4 DEF DroppedAt
<1>9. u = t
  <2>1. \A i \in 0..((n - 1) - 1) : u[i + 1] = t[i + 1]
    BY <1>1, <1>8
  <2> QED BY <2>1, <1>1, <1>5, <1>7, SameEntries
<1> QED BY <1>2, <1>3, <1>6, <1>9
(* Counting from the slot after l.                                         *)
LEMMA SlotsShift ==
  ASSUME NEW l \in Slots, NEW i \in Nat, i < Cap
  PROVE  Slot(Slot(l + 1) + i) = Slot(l + (i + 1))
<1>1. PICK c \in Nat : c = Cap /\ c > 0
  BY CapIs
<1>2. l \in 0..(c - 1)
  BY <1>1 DEF Slots
<1>3. i <= Cap /\ i + 1 \in Nat /\ i + 1 <= Cap /\ 1 \in Nat /\ 1 <= Cap
  BY <1>1
<1>4. PICK m \in Slots : m = Slot(l + 1) /\ m = IF l + 1 < c THEN l + 1 ELSE l + 1 - c
  BY <1>1, <1>3, SlotFrom
<1>5. PICK x : x = Slot(m + i) /\ x = IF m + i < c THEN m + i ELSE m + i - c
  BY <1>1, <1>3, SlotFrom
<1>6. PICK y : y = Slot(l + (i + 1)) /\ y = IF l + (i + 1) < c THEN l + (i + 1) ELSE l + (i + 1) - c
  BY <1>1, <1>3, SlotFrom
<1>7. x = y
  BY <1>1, <1>2, <1>3, <1>4, <1>5, <1>6
<1> QED BY <1>4, <1>5, <1>6, <1>7

LEMMA SlotBefore ==
  ASSUME NEW l \in Slots
  PROVE  LET m == (l - 1 + Cap) % Cap IN m \in Slots /\ Slot(m + 1) = l
<1>1. PICK c \in Nat : c = Cap /\ c > 0
  BY CapIs
<1>2. l \in 0..(c - 1)
  BY <1>1 DEF Slots
<1>3. PICK m : m = Slot(l - 1 + Cap)
  OBVIOUS
<1>4. l - 1 + c \in Nat /\ l - 1 + c < 2 * Cap /\ 1 \in Nat /\ 1 <= Cap
  BY <1>1, <1>2
<1>5. m = IF l - 1 + c < c THEN l - 1 + c ELSE l - 1 + c - c
  <2>1. PICK x \in Nat : x = l - 1 + c /\ x < 2 * Cap
    BY <1>4
  <2>2. Slot(x) = IF x < c THEN x ELSE x - c
    BY <2>1, <1>1, SlotIs
  <2> QED BY <2>1, <2>2, <1>1, <1>2, <1>3
<1>6. m \in Slots
  BY <1>1, <1>2, <1>5 DEF Slots
<1>7. Slot(m + 1) = IF m + 1 < c THEN m + 1 ELSE m + 1 - c
  BY <1>1, <1>4, <1>6, SlotFrom
<1>8. Slot(m + 1) = l
  BY <1>1, <1>2, <1>5, <1>7
<1> QED BY <1>3, <1>6, <1>8 DEF Slot

LEMMA FirstSlot == ASSUME NEW l \in Slots PROVE Slot(l + 0) = l
<1>1. l \in 0..(Cap - 1) /\ Cap \in Nat \ {0}
  BY VectorAssumption DEF Slots
<1>2. 0 \in Nat /\ 0 <= Cap /\ l + 0 < Cap /\ l + 0 = l
  BY <1>1
<1> QED BY <1>2, SlotFrom
-----------------------------------------------------------------------------
(* What the locked code does to the entries.                               *)

Stored(v, s, x) == [v EXCEPT ![s] = x]

RingOf(S, v, l, n) == v \in [Slots -> S] /\ l \in Slots /\ n \in Nat /\ n <= Cap

LEMMA PushHeadAt ==
  ASSUME NEW S, NEW v, NEW l, NEW n, NEW e,
         RingOf(S, v, l, n), n < Cap, e \in S
  PROVE  LET m == (l - 1 + Cap) % Cap IN
         Window(Stored(v, m, e), m, n + 1) = WithEntry(Window(v, l, n), 0, e)
<1> v \in [Slots -> S] /\ l \in Slots /\ n \in Nat /\ n <= Cap
  BY DEF RingOf
<1>1. PICK m \in Slots : m = (l - 1 + Cap) % Cap /\ Slot(m + 1) = l
  BY SlotBefore
<1>2. PICK w \in [Slots -> S] : w = [v EXCEPT ![m] = e]
  OBVIOUS
<1>3. ASSUME NEW i \in 0..n
      PROVE  w[Slot(m + i)] = IF i < 0 THEN v[Slot(l + i)]
                              ELSE IF i = 0 THEN e ELSE v[Slot(l + (i - 1))]
  <2>1. CASE i = 0
    BY <1>2, <2>1, FirstSlot
  <2>2. CASE i > 0
    <3>1. /\ i - 1 \in Nat /\ i - 1 < Cap /\ (i - 1) + 1 = i /\ i \in Nat /\ i < Cap
          /\ 0 \in Nat /\ 0 < Cap /\ ~(i < 0) /\ i # 0
      BY CapIs, <2>2
    <3>2. Slot(m + i) = Slot(l + (i - 1))
      <4>1. Slot(Slot(m + 1) + (i - 1)) = Slot(m + ((i - 1) + 1))
        BY <3>1, SlotsShift
      <4> QED BY <4>1, <1>1, <3>1
    <3>3. Slot(m + i) # m
      <4>1. Slot(m + i) = Slot(m + 0) => i = 0
        BY <3>1, SlotsDiffer
      <4> QED BY <4>1, <3>1, FirstSlot
    <3>4. Slot(m + i) \in Slots
      BY <3>1, SlotFrom, CapIs
    <3>5. w[Slot(m + i)] = v[Slot(m + i)]
      BY <3>3, <3>4, <1>2
    <3> QED BY <3>1, <3>2, <3>5
  <2> QED BY <2>1, <2>2
<1>4. 0 \in 0..n
  OBVIOUS
<1>5. Window(w, m, n + 1) = WithEntry(Window(v, l, n), 0, e)
  <2>1. AddedAt(S, v, l, w, m, n, 0, e)
    BY <1>3, <1>4 DEF AddedAt
  <2> QED BY <2>1, WindowWith
<1> QED BY <1>1, <1>2, <1>5 DEF Stored

LEMMA PushTailAt ==
  ASSUME NEW S, NEW v, NEW l, NEW n, NEW e,
         RingOf(S, v, l, n), n < Cap, e \in S
  PROVE  Window(Stored(v, Slot(l + n), e), l, n + 1) = WithEntry(Window(v, l, n), n, e)
<1> v \in [Slots -> S] /\ l \in Slots /\ n \in Nat /\ n <= Cap
  BY DEF RingOf
<1>1. PICK w : w = [v EXCEPT ![Slot(l + n)] = e]
  OBVIOUS
<1>2. n <= Cap
  BY CapIs
<1>3. Slot(l + n) \in Slots
  BY <1>2, SlotFrom
<1>4. w \in [Slots -> S]
  BY <1>1, <1>3
<1>5. ASSUME NEW i \in 0..n
      PROVE  w[Slot(l + i)] = IF i < n THEN v[Slot(l + i)]
                              ELSE IF i = n THEN e ELSE v[Slot(l + (i - 1))]
  <2>1. CASE i = n
    BY <1>1, <1>3, <2>1
  <2>2. CASE i < n
    <3>1. i \in Nat /\ i < Cap /\ i <= Cap /\ i # n
      BY CapIs, <2>2
    <3>2. Slot(l + i) = Slot(l + n) => i = n
      BY <3>1, SlotsDiffer
    <3>3. Slot(l + i) \in Slots
      BY <3>1, SlotFrom
    <3> QED BY <3>1, <3>2, <3>3, <2>2, <1>1
  <2> QED BY <2>1, <2>2
<1>6. n \in 0..n
  OBVIOUS
<1>7. Window(w, l, n + 1) = WithEntry(Window(v, l, n), n, e)
  <2>1. AddedAt(S, v, l, w, l, n, n, e)
    BY <1>4, <1>5, <1>6 DEF AddedAt
  <2> QED BY <2>1, WindowWith
<1> QED BY <1>1, <1>7 DEF Stored

LEMMA PopHeadAt ==
  ASSUME NEW S, NEW v, NEW l, NEW n, NEW x,
         RingOf(S, v, l, n), 0 < n, x \in S
  PROVE  Window(Stored(v, l, x), Slot(l + 1), n - 1) = WithoutEntry(Window(v, l, n), 0)
<1> v \in [Slots -> S] /\ l \in Slots /\ n \in Nat /\ n <= Cap
  BY DEF RingOf
<1>1. PICK w : w = [v EXCEPT ![l] = x]
  OBVIOUS
<1>2. w \in [Slots -> S]
  BY <1>1
<1>3. PICK m \in Slots : m = Slot(l + 1)
  <2>1. 1 \in Nat /\ 1 <= Cap
    BY CapIs
  <2> QED BY <2>1, SlotFrom
<1>4. ASSUME NEW i \in 0..(n - 2)
      PROVE  w[Slot(m + i)] = IF i < 0 THEN v[Slot(l + i)] ELSE v[Slot(l + (i + 1))]
  <2>1. /\ i \in Nat /\ i < Cap /\ ~(i < 0) /\ i + 1 \in Nat /\ i + 1 < Cap /\ i + 1 <= Cap
        /\ i + 1 # 0 /\ 0 \in Nat /\ 0 < Cap
    BY CapIs
  <2>2. Slot(m + i) = Slot(l + (i + 1))
    BY <1>3, <2>1, SlotsShift
  <2>3. Slot(l + (i + 1)) # l
    <3>1. Slot(l + (i + 1)) = Slot(l + 0) => i + 1 = 0
      BY <2>1, SlotsDiffer
    <3> QED BY <3>1, <2>1, FirstSlot
  <2>4. Slot(l + (i + 1)) \in Slots
    BY <2>1, SlotFrom
  <2> QED BY <2>1, <2>2, <2>3, <2>4, <1>1
<1>5. 0 \in 0..(n - 1)
  OBVIOUS
<1>6. Window(w, m, n - 1) = WithoutEntry(Window(v, l, n), 0)
  <2>1. DroppedAt(S, v, l, w, m, n, 0)
    BY <1>2, <1>3, <1>4, <1>5 DEF DroppedAt
  <2> QED BY <2>1, WindowWithout
<1> QED BY <1>1, <1>3, <1>6 DEF Stored

LEMMA PopTailAt ==
  ASSUME NEW S, NEW v, NEW l, NEW n, NEW x,
         RingOf(S, v, l, n), 0 < n, x \in S
  PROVE  Window(Stored(v, Slot(l + (n - 1)), x), l, n - 1) = WithoutEntry(Window(v, l, n), n - 1)
<1> v \in [Slots -> S] /\ l \in Slots /\ n \in Nat /\ n <= Cap
  BY DEF RingOf
<1>1. PICK w : w = [v EXCEPT ![Slot(l + (n - 1))] = x]
  OBVIOUS
<1>2. n - 1 \in Nat /\ n - 1 < Cap /\ n - 1 <= Cap
  BY CapIs
<1>3. w \in [Slots -> S]
  BY <1>1
<1>4. ASSUME NEW i \in 0..(n - 2)
      PROVE  w[Slot(l + i)] = IF i < n - 1 THEN v[Slot(l + i)] ELSE v[Slot(l + (i + 1))]
  <2>1. i \in Nat /\ i < Cap /\ i <= Cap /\ i < n - 1 /\ i # n - 1
    BY CapIs
  <2>2. Slot(l + i) = Slot(l + (n - 1)) => i = n - 1
    BY <1>2, <2>1, SlotsDiffer
  <2>3. Slot(l + i) \in Slots
    BY <2>1, SlotFrom
  <2> QED BY <2>1, <2>2, <2>3, <1>1
<1>5. n - 1 \in 0..(n - 1)
  OBVIOUS
<1>6. Window(w, l, n - 1) = WithoutEntry(Window(v, l, n), n - 1)
  <2>1. DroppedAt(S, v, l, w, l, n, n - 1)
    BY <1>3, <1>4, <1>5 DEF DroppedAt
  <2> QED BY <2>1, WindowWithout
<1> QED BY <1>1, <1>6 DEF Stored
Inserted(v, l, n, pos, e) ==
  [s \in Slots |->
     IF s = Slot(l + pos) THEN e
     ELSE IF \E i \in (pos + 1)..n : s = Slot(l + i) THEN v[Slot(s - 1 + Cap)] ELSE v[s]]

Deleted(v, l, n, pos) ==
  [s \in Slots |-> IF \E i \in pos..(n - 2) : s = Slot(l + i) THEN v[Slot(s + 1)] ELSE v[s]]

LEMMA InsertAt ==
  ASSUME NEW S, NEW v, NEW l, NEW n, NEW pos, NEW e,
         RingOf(S, v, l, n), n < Cap, pos \in 0..n, e \in S
  PROVE  Window(Inserted(v, l, n, pos, e), l, n + 1) = WithEntry(Window(v, l, n), pos, e)
<1> v \in [Slots -> S] /\ l \in Slots /\ n \in Nat /\ n <= Cap
  BY DEF RingOf
<1>1. PICK w : w = Inserted(v, l, n, pos, e)
  OBVIOUS
<1>2. \A s \in Slots :
        w[s] = IF s = Slot(l + pos) THEN e
               ELSE IF \E i \in (pos + 1)..n : s = Slot(l + i) THEN v[Slot(s - 1 + Cap)] ELSE v[s]
  BY <1>1 DEF Inserted
<1>3. w \in [Slots -> S]
  <2>1. Cap \in Int /\ \A s \in Slots : s \in Int
    BY CapIs DEF Slots
  <2>2. \A s \in Slots : s - 1 + Cap \in Int
    BY <2>1
  <2>3. \A s \in Slots : Slot(s - 1 + Cap) \in Slots
    BY <2>2, SlotIsSlot
  <2> QED BY <1>1, <2>3 DEF Inserted
<1>4. ASSUME NEW i \in 0..n, NEW j \in 0..n, Slot(l + i) = Slot(l + j) PROVE i = j
  <2>1. i \in Nat /\ j \in Nat /\ i < Cap /\ j < Cap
    BY CapIs
  <2> QED BY <2>1, <1>4, SlotsDiffer
<1>5. ASSUME NEW i \in 0..n
      PROVE  w[Slot(l + i)] = IF i < pos THEN v[Slot(l + i)]
                              ELSE IF i = pos THEN e ELSE v[Slot(l + (i - 1))]
  <2>1. i \in Nat /\ i < Cap /\ i <= Cap
    BY CapIs
  <2>2. PICK s \in Slots : s = Slot(l + i)
    BY <2>1, SlotFrom
  <2>3. CASE i = pos
    BY <1>2, <2>2, <2>3
  <2>4. CASE i < pos
    <3>1. s # Slot(l + pos)
      BY <1>4, <2>2, <2>4
    <3>2. ASSUME NEW j \in (pos + 1)..n PROVE s # Slot(l + j)
      <4>1. j \in 0..n /\ i # j
        BY <2>4
      <4> QED BY <4>1, <1>4, <2>2
    <3> QED BY <1>2, <2>2, <2>4, <3>1, <3>2
  <2>5. CASE i > pos
    <3>1. s # Slot(l + pos)
      BY <1>4, <2>2, <2>5
    <3>2. i \in (pos + 1)..n /\ i > 0
      BY <2>5
    <3>3. Slot(s - 1 + Cap) = Slot(l + (i - 1))
      BY <2>1, <2>2, <3>2, SlotsNextTo
    <3>4. w[s] = v[Slot(s - 1 + Cap)]
      BY <1>2, <2>2, <3>1, <3>2
    <3> QED BY <2>2, <2>5, <3>3, <3>4
  <2> QED BY <2>3, <2>4, <2>5
<1>6. AddedAt(S, v, l, w, l, n, pos, e)
  BY <1>3, <1>5 DEF AddedAt
<1> QED BY <1>1, <1>6, WindowWith

LEMMA DeleteAt ==
  ASSUME NEW S, NEW v, NEW l, NEW n, NEW pos,
         RingOf(S, v, l, n), 0 < n, pos \in 0..(n - 1)
  PROVE  Window(Deleted(v, l, n, pos), l, n - 1) = WithoutEntry(Window(v, l, n), pos)
<1> v \in [Slots -> S] /\ l \in Slots /\ n \in Nat /\ n <= Cap
  BY DEF RingOf
<1>1. PICK w : w = Deleted(v, l, n, pos)
  OBVIOUS
<1>2. \A s \in Slots :
        w[s] = IF \E i \in pos..(n - 2) : s = Slot(l + i) THEN v[Slot(s + 1)] ELSE v[s]
  BY <1>1 DEF Deleted
<1>3. w \in [Slots -> S]
  <2>1. \A s \in Slots : s + 1 \in Int
    BY CapIs DEF Slots
  <2>2. \A s \in Slots : Slot(s + 1) \in Slots
    BY <2>1, SlotIsSlot
  <2> QED BY <1>1, <2>2 DEF Deleted
<1>4. ASSUME NEW i \in 0..(n - 2)
      PROVE  w[Slot(l + i)] = IF i < pos THEN v[Slot(l + i)] ELSE v[Slot(l + (i + 1))]
  <2>1. i \in Nat /\ i < Cap /\ i <= Cap
    BY CapIs
  <2>2. PICK s \in Slots : s = Slot(l + i)
    BY <2>1, SlotFrom
  <2>3. CASE i < pos
    <3>1. ASSUME NEW j \in pos..(n - 2) PROVE s # Slot(l + j)
      <4>1. j \in Nat /\ j < Cap /\ i # j
        BY CapIs, <2>3
      <4> QED BY <4>1, <2>1, <2>2, SlotsDiffer
    <3> QED BY <1>2, <2>2, <2>3, <3>1
  <2>4. CASE ~(i < pos)
    <3>1. i \in pos..(n - 2)
      BY <2>4
    <3>2. Slot(s + 1) = Slot(l + (i + 1))
      BY <2>1, <2>2, SlotsNextTo
    <3> QED BY <1>2, <2>2, <2>4, <3>1, <3>2
  <2> QED BY <2>3, <2>4
<1>5. DroppedAt(S, v, l, w, l, n, pos)
  BY <1>3, <1>4 DEF DroppedAt
<1> QED BY <1>1, <1>5, WindowWithout
-----------------------------------------------------------------------------
(* The vector is the queue of Deque.                                       *)

(* Insert, get and getidx are called with no other call under way.  They   *)
(* need that: insert and get use the position that they compared with len, *)
(* and getidx looks at every entry, without the mutex.                     *)
OneAtATime == {"insert", "get", "getidx"} \subseteq Exclusive

Alone == \A t, u \in Threads :
           t # u /\ call[t] # Nil /\ call[u] # Nil => call[t].op \notin Exclusive

(* What a thread has to do is its call, at a position that is in range     *)
(* still, or the push that an insertion past the end has become.           *)
InRange(c) == /\ c.op = "insert" => len < Cap /\ c.pos <= len
              /\ c.op \in {"delete", "get"} => 0 <= c.pos /\ c.pos < len

AsCalled(t) ==
  \/ todo[t] = Nil
  \/ todo[t] = call[t] /\ InRange(call[t])
  \/ /\ call[t].op = "insert" /\ call[t].pos > len
     /\ todo[t] = [op |-> "push_tail", e |-> call[t].e]

DInv == VInv /\ Alone /\ \A t \in Threads : AsCalled(t)

LEMMA DInitInv == ASSUME OneTaker, VInit PROVE DInv
<1>1. VInv
  BY InitInv
<1>2. \A t \in Threads : call[t] = Nil /\ todo[t] = Nil
  BY DEF VInit
<1> QED BY <1>1, <1>2 DEF DInv, Alone, AsCalled

(* Whoever changes len leaves the positions of the others in range.        *)
LEMMA LenOfOthers ==
  ASSUME OneTaker, OneAtATime, DInv, NEW t \in Threads, NEW u \in Threads, u # t,
         Locked(t), todo'[u] = todo[u], call'[u] = call[u]
  PROVE  AsCalled(u)'
<1>1. AsCalled(u) /\ Alone /\ VInv
  BY DEF DInv
<1>2. call[t] # Nil
  BY <1>1 DEF Locked, Holds, VInv, CallsKnown, OneTaker
<1>3. CASE todo[u] = Nil
  BY <1>3 DEF AsCalled
<1>4. CASE todo[u] # Nil
  <2>1. call[u] # Nil /\ call[u] \in Call
    BY <1>1, <1>4 DEF VInv, CallsKnown
  <2>2. call[u].op \notin {"insert", "get"}
    BY <1>1, <1>2, <2>1 DEF Alone, OneAtATime
  <2>3. todo[u] = call[u] /\ InRange(call[u])
    BY <1>1, <1>4, <2>2 DEF AsCalled
  <2>4. CASE call[u].op = "delete"
    <3>1. Takes(u)
      BY <1>4, <2>3, <2>4 DEF Takes, Taking
    <3>2. ~Takes(t)
      BY <1>1, <3>1, TakerIsOne
    <3>3. len' \in 0..Cap /\ ~(len' < len)
      BY <1>1, <3>2, LockedTypes
    <3>4. len \in Nat /\ Cap \in Nat /\ call[u].pos \in Int
      BY <1>1, <2>1, <2>4, CallFacts, CapIs DEF VInv, VTypeOK
    <3>5. 0 <= call[u].pos /\ call[u].pos < len'
      BY <2>3, <2>4, <3>3, <3>4 DEF InRange
    <3> QED BY <2>3, <2>4, <3>5 DEF AsCalled, InRange
  <2>5. CASE call[u].op # "delete"
    BY <2>2, <2>3, <2>5 DEF AsCalled, InRange
  <2> QED BY <2>4, <2>5
<1> QED BY <1>3, <1>4

LEMMA AnswerFacts ==
  ASSUME OneTaker, VInv, NEW t \in Threads, NEW o, Answer(t, o)
  PROVE  \A u \in Threads : /\ call'[u] = IF u = t THEN Nil ELSE call[u]
                            /\ todo'[u] = IF u = t THEN Nil ELSE todo[u]
BY DEF Answer, VInv, CallsKnown

LEMMA DStepInv == ASSUME OneTaker, OneAtATime, DInv, [VNext]_vvars PROVE DInv'
<1>1. VInv'
  BY StepInv DEF DInv
<1>2. VInv /\ Alone /\ \A u \in Threads : AsCalled(u)
  BY DEF DInv
<1>3. CASE UNCHANGED vvars
  BY <1>1, <1>2, <1>3 DEF DInv, Alone, AsCalled, InRange, vvars
<1>4. ASSUME NEW t \in Threads, NEW c \in CallsOf[t], Request(t, c) PROVE DInv'
  <2>1. /\ call[t] = Nil /\ call' = [call EXCEPT ![t] = c] /\ UNCHANGED <<len, todo>>
        /\ \A u \in Threads : call[u] # Nil => c.op \notin Exclusive /\ call[u].op \notin Exclusive
    BY <1>4 DEF Request
  <2>2. \A u \in Threads : call'[u] = IF u = t THEN c ELSE call[u]
    BY <1>2, <2>1 DEF VInv, CallsKnown
  <2>3. Alone'
    BY <1>2, <2>1, <2>2 DEF Alone
  <2>4. todo[t] = Nil
    BY <1>2, <2>1 DEF VInv, VTypeOK
  <2>5. \A u \in Threads : AsCalled(u)'
    BY <1>2, <2>1, <2>2, <2>4 DEF AsCalled, InRange
  <2> QED BY <1>1, <2>3, <2>5 DEF DInv
<1>5. ASSUME NEW t \in Threads, NEW o, Answer(t, o), UNCHANGED len PROVE DInv'
  <2>1. \A u \in Threads : /\ call'[u] = IF u = t THEN Nil ELSE call[u]
                           /\ todo'[u] = IF u = t THEN Nil ELSE todo[u]
    BY <1>2, <1>5, AnswerFacts
  <2>2. Alone'
    BY <1>2, <2>1 DEF Alone
  <2>3. \A u \in Threads : AsCalled(u)'
    BY <1>2, <1>5, <2>1 DEF AsCalled, InRange
  <2> QED BY <1>1, <2>2, <2>3 DEF DInv
<1>6. ASSUME NEW t \in Threads, Enter(t) PROVE DInv'
  <2>1. UNCHANGED <<low, len, vec, mtx>> /\ todo[t] = Nil /\ call[t] # Nil
    BY <1>6 DEF Enter
  <2>2. CASE \E o : Answer(t, o)
    BY <1>5, <2>1, <2>2
  <2>3. CASE /\ Check(call[t]) = "ok" /\ todo' = [todo EXCEPT ![t] = TurnedInto(call[t])]
             /\ UNCHANGED call
    <3> DEFINE c == call[t]
    <3>1. c \in Call /\ len \in 0..Cap
      BY <1>2, <2>1 DEF VInv, VTypeOK, CallsKnown
    <3>2. \A u \in Threads : todo'[u] = IF u = t THEN TurnedInto(c) ELSE todo[u]
      BY <1>2, <2>3 DEF VInv, CallsKnown
    <3>3. c.op = "insert" => len < Cap /\ c.pos \in Nat
      <4>1. c.op = "insert" => len # Cap
        BY <2>3 DEF Check
      <4> QED BY <3>1, <4>1, CallFacts, CapIs
    <3>4. c.op \in {"delete", "get"} => 0 <= c.pos /\ c.pos < len
      <4>1. c.op \in {"delete", "get"} => c.pos \in Int /\ ~(c.pos < 0) /\ ~(c.pos > len - 1)
        BY <2>3, <3>1, CallFacts DEF Check
      <4> QED BY <3>1, <4>1
    <3>5. AsCalled(t)'
      <4>1. CASE c.op = "insert" /\ c.pos > len
        BY <2>1, <2>3, <3>2, <4>1 DEF AsCalled, TurnedInto
      <4>2. CASE ~(c.op = "insert" /\ c.pos > len)
        <5>1. TurnedInto(c) = c /\ InRange(c)
          BY <3>1, <3>3, <3>4, <4>2 DEF TurnedInto, InRange
        <5> QED BY <2>1, <2>3, <3>2, <5>1 DEF AsCalled, InRange
      <4> QED BY <4>1, <4>2
    <3>6. \A u \in Threads : AsCalled(u)'
      BY <1>2, <2>1, <2>3, <3>2, <3>5 DEF AsCalled, InRange
    <3>7. Alone'
      BY <1>2, <2>3 DEF Alone
    <3> QED BY <1>1, <3>6, <3>7 DEF DInv
  <2> QED BY <1>6, <2>2, <2>3 DEF Enter
<1>7. ASSUME NEW t \in Threads, Lock(t) PROVE DInv'
  BY <1>1, <1>2, <1>7 DEF DInv, Lock, Alone, AsCalled, InRange
<1>8. ASSUME NEW t \in Threads, Locked(t) PROVE DInv'
  <2>1. PICK o : Answer(t, o)
    BY <1>2, <1>8, LockedTypes
  <2>2. \A u \in Threads : /\ call'[u] = IF u = t THEN Nil ELSE call[u]
                           /\ todo'[u] = IF u = t THEN Nil ELSE todo[u]
    BY <1>2, <2>1, AnswerFacts
  <2>3. Alone'
    BY <1>2, <2>2 DEF Alone
  <2>4. AsCalled(t)'
    BY <2>2 DEF AsCalled
  <2>5. ASSUME NEW u \in Threads, u # t PROVE AsCalled(u)'
    BY <1>8, <2>2, <2>5, LenOfOthers
  <2> QED BY <1>1, <2>3, <2>4, <2>5 DEF DInv
<1>9. ASSUME NEW t \in Threads, Get(t) \/ GetIdx(t) PROVE DInv'
  <2>1. UNCHANGED len /\ \E o : Answer(t, o)
    BY <1>9 DEF Get, GetIdx
  <2> QED BY <1>5, <2>1
<1> QED BY <1>3, <1>4, <1>6, <1>7, <1>8, <1>9 DEF VNext
LEMMA ItemsAre ==
  ASSUME VTypeOK
  PROVE  /\ Items \in Seq(Elems \cup {Nil}) /\ Len(Items) = len /\ len \in Nat /\ len <= Cap
         /\ \A i \in 0..(len - 1) : Items[i + 1] = vec[Slot(low + i)]
         /\ Items = Window(vec, low, len)
         /\ low \in Slots /\ vec \in [Slots -> Elems \cup {Nil}]
<1>1. low \in Slots /\ len \in 0..Cap /\ vec \in [Slots -> Elems \cup {Nil}]
  BY DEF VTypeOK
<1>2. len \in Nat /\ len <= Cap
  BY <1>1, CapIs
<1>3. Items = Window(vec, low, len)
  BY DEF Items, Window
<1>4. /\ Window(vec, low, len) \in Seq(Elems \cup {Nil}) /\ Len(Window(vec, low, len)) = len
      /\ \A i \in 0..(len - 1) : Window(vec, low, len)[i + 1] = vec[Slot(low + i)]
  BY <1>1, WindowIs
<1> QED BY <1>1, <1>2, <1>3, <1>4

LEMMA NextItems == Items' = Window(vec', low', len')
BY DEF Items, Window

(* What a thread that is about to answer knows.                            *)
LEMMA CallOf ==
  ASSUME OneTaker, DInv, NEW t \in Threads, todo[t] # Nil
  PROVE  call[t] # Nil /\ call[t] \in Call /\ AsCalled(t)
BY DEF DInv, VInv, CallsKnown

LEMMA SameAnswer == ASSUME NEW t, NEW o, Answer(t, o) PROVE Q!Answer(t, o)
BY DEF Answer, Q!Answer

LEMMA LockedIsOneStep ==
  ASSUME OneTaker, OneAtATime, DInv, NEW t \in Threads, Locked(t)
  PROVE  Q!Respond(t)
<1> DEFINE c == call[t]
           d == todo[t]
<1> PICK S : S = Elems \cup {Nil}
  OBVIOUS
<1>1. d # Nil /\ c # Nil /\ c \in Call /\ AsCalled(t) /\ Defined(d)
  <2>1. d # Nil /\ Defined(d)
    BY DEF Locked, Holds, DInv, VInv, CallsKnown
  <2> QED BY <2>1, CallOf
<1>2. /\ Items \in Seq(S) /\ Len(Items) = len /\ len \in Nat /\ len <= Cap
      /\ \A i \in 0..(len - 1) : Items[i + 1] = vec[Slot(low + i)]
      /\ Items = Window(vec, low, len) /\ low \in Slots /\ RingOf(S, vec, low, len)
  BY ItemsAre DEF DInv, VInv, RingOf
<1>3. Nil \in S /\ (c.op \in {"push_head", "push_tail", "insert"} => c.e \in S)
  BY <1>1, CallFacts
<1>4. d.op \in {"push_head", "push_tail"} =>
        \/ d = c
        \/ c.op = "insert" /\ c.pos > len /\ d.op = "push_tail" /\ d.e = c.e
  BY <1>1 DEF AsCalled
<1>5. d.op \notin {"push_head", "push_tail"} => d = c /\ InRange(c)
  BY <1>1 DEF AsCalled
<1>6. ASSUME d.op \in {"push_head", "push_tail"}, PushFull(t) PROVE Q!Respond(t)
  <2>1. len = Cap /\ Q!Answer(t, Outcome("ERR_OVERFLOW", Nil, -1)) /\ UNCHANGED <<low, len, vec>>
    BY <1>6, SameAnswer DEF PushFull
  <2>2. Items' = Items
    BY <1>2, <2>1, NextItems DEF Stored
  <2>3. c.op \in {"push_head", "push_tail", "insert"}
    BY <1>4, <1>6
  <2>4. Q!Full
    BY <1>2, <2>1 DEF Q!Full
  <2>5. Q!Add(t, c)
    BY <2>1, <2>2, <2>3, <2>4 DEF Q!Add, Q!Outcome, Outcome
  <2> QED BY <1>1, <2>5 DEF Q!Respond
<1>7. ASSUME NEW pos, NEW e, len < Cap, c.op \in {"push_head", "push_tail", "insert"}, e = c.e,
             Q!Place(c) = pos, Answer(t, Done), Items' = WithEntry(Items, pos, e)
      PROVE  Q!Respond(t)
  <2>1. ~Q!Full
    BY <1>2, <1>7 DEF Q!Full
  <2>2. Q!Answer(t, Done) /\ Done = Q!Done
    BY <1>7, SameAnswer DEF Done, Q!Done, Outcome, Q!Outcome
  <2>3. Items' = Q!WithAt(Q!Place(c), c.e)
    BY <1>7 DEF Q!WithAt, WithEntry
  <2>4. Q!Add(t, c)
    BY <1>7, <2>1, <2>2, <2>3 DEF Q!Add
  <2> QED BY <1>1, <2>4 DEF Q!Respond
<1>8. ASSUME d.op = "push_head", PushHead(t, d.e) PROVE Q!Respond(t)
  <2>1. d = c /\ c.op = "push_head"
    BY <1>4, <1>8
  <2>2. /\ len < Cap /\ low' = (low - 1 + Cap) % Cap /\ vec' = [vec EXCEPT ![low'] = c.e]
        /\ len' = len + 1 /\ Answer(t, Done)
    BY <1>8, <2>1 DEF PushHead
  <2>3. Window(Stored(vec, (low - 1 + Cap) % Cap, c.e), (low - 1 + Cap) % Cap, len + 1)
          = WithEntry(Window(vec, low, len), 0, c.e)
    <3>1. RingOf(S, vec, low, len) /\ len < Cap /\ c.e \in S
      BY <1>2, <1>3, <2>1, <2>2
    <3> HIDE DEF c, d
    <3> QED BY <3>1, PushHeadAt
  <2>4. Items' = WithEntry(Items, 0, c.e)
    BY <1>2, <2>2, <2>3, NextItems DEF Stored
  <2>5. Q!Place(c) = 0
    BY <2>1 DEF Q!Place
  <2> QED BY <1>7, <2>1, <2>2, <2>4, <2>5
<1>9. ASSUME d.op = "push_tail", PushTail(t, d.e) PROVE Q!Respond(t)
  <2>1. d.e = c.e /\ (c.op = "push_tail" \/ (c.op = "insert" /\ c.pos > len))
    <3>1. CASE d = c
      BY <1>9, <3>1
    <3>2. CASE d # c
      BY <1>4, <1>9, <3>2
    <3> QED BY <3>1, <3>2
  <2>2. /\ len < Cap /\ low' = low /\ vec' = [vec EXCEPT ![Slot(low + len)] = c.e]
        /\ len' = len + 1 /\ Answer(t, Done)
    BY <1>9, <2>1 DEF PushTail
  <2>3. Window(Stored(vec, Slot(low + len), c.e), low, len + 1)
          = WithEntry(Window(vec, low, len), len, c.e)
    <3>1. RingOf(S, vec, low, len) /\ len < Cap /\ c.e \in S
      BY <1>2, <1>3, <2>1, <2>2
    <3> HIDE DEF c, d
    <3> QED BY <3>1, PushTailAt
  <2>4. Items' = WithEntry(Items, len, c.e)
    BY <1>2, <2>2, <2>3, NextItems DEF Stored
  <2>5. Q!Place(c) = len
    BY <1>2, <2>1 DEF Q!Place
  <2> QED BY <1>7, <2>1, <2>2, <2>4, <2>5
<1>10. ASSUME d.op = "insert", Insert(t, d.e, d.pos) PROVE Q!Respond(t)
  <2>1. d = c /\ c.op = "insert" /\ len < Cap /\ c.pos <= len
    BY <1>5, <1>10 DEF InRange
  <2>2. /\ vec' = Inserted(vec, low, len, c.pos, c.e) /\ low' = low /\ len' = len + 1
        /\ Answer(t, Done)
    BY <1>10, <2>1 DEF Insert, Inserted
  <2>3. c.pos \in 0..len
    BY <1>1, <1>2, <2>1, CallFacts
  <2>4. Window(Inserted(vec, low, len, c.pos, c.e), low, len + 1)
          = WithEntry(Window(vec, low, len), c.pos, c.e)
    BY <1>2, <1>3, <2>1, <2>3, InsertAt
  <2>5. Items' = WithEntry(Items, c.pos, c.e)
    BY <1>2, <2>2, <2>4, NextItems DEF Stored
  <2>6. Q!Place(c) = c.pos
    BY <1>2, <2>1, <2>3 DEF Q!Place
  <2> QED BY <1>7, <2>1, <2>2, <2>5, <2>6
<1>11. ASSUME NEW pos \in 0..(len - 1), Items' = WithoutEntry(Items, pos),
              Answer(t, Outcome("ok", vec[Slot(low + pos)], -1))
       PROVE  /\ Items' = Q!WithoutAt(pos) /\ Q!Answer(t, Q!Outcome("ok", Q!At(pos), -1))
              /\ Items # <<>>
  <2>1. Q!At(pos) = vec[Slot(low + pos)]
    BY <1>2 DEF Q!At
  <2>2. Q!Answer(t, Q!Outcome("ok", Q!At(pos), -1))
    BY <1>11, <2>1, SameAnswer DEF Outcome, Q!Outcome
  <2>3. Items' = Q!WithoutAt(pos)
    BY <1>11 DEF Q!WithoutAt, WithoutEntry
  <2>4. Len(Items) # 0
    BY <1>2
  <2> QED BY <2>2, <2>3, <2>4
<1>12. ASSUME d.op = "delete", Delete(t, d.pos) PROVE Q!Respond(t)
  <2>1. d = c /\ c.op = "delete" /\ 0 <= c.pos /\ c.pos < len
    BY <1>5, <1>12 DEF InRange
  <2>2. /\ vec' = Deleted(vec, low, len, c.pos) /\ low' = low /\ len' = len - 1
        /\ Answer(t, Outcome("ok", vec[Slot(low + c.pos)], -1))
    BY <1>12, <2>1 DEF Delete, Deleted
  <2>3. c.pos \in 0..(len - 1) /\ 0 < len
    BY <1>1, <1>2, <2>1, CallFacts
  <2>4. Window(Deleted(vec, low, len, c.pos), low, len - 1) = WithoutEntry(Window(vec, low, len), c.pos)
    BY <1>2, <2>3, DeleteAt
  <2>5. Items' = WithoutEntry(Items, c.pos)
    BY <1>2, <2>2, <2>4, NextItems DEF Stored
  <2>6. /\ Items' = Q!WithoutAt(c.pos) /\ Q!Answer(t, Q!Outcome("ok", Q!At(c.pos), -1))
    BY <1>11, <2>2, <2>3, <2>5
  <2>7. c.pos \in Q!Indexes
    BY <1>2, <2>3 DEF Q!Indexes
  <2>8. Q!Index(t, c)
    BY <2>1, <2>6, <2>7 DEF Q!Index
  <2> QED BY <1>1, <2>8 DEF Q!Respond
<1>13. ASSUME d.op = "pop_head", PopHead(t) PROVE Q!Respond(t)
  <2>1. d = c /\ c.op = "pop_head" /\ 0 < len
    BY <1>1, <1>5, <1>13 DEF DInv, VInv, ChecksHold, Takes, Taking
  <2>2. /\ vec' = [vec EXCEPT ![low] = Nil] /\ low' = Slot(low + 1) /\ len' = len - 1
        /\ Answer(t, Outcome("ok", vec[low], -1))
    BY <1>13 DEF PopHead
  <2>3. Window(Stored(vec, low, Nil), Slot(low + 1), len - 1) = WithoutEntry(Window(vec, low, len), 0)
    <3>1. RingOf(S, vec, low, len) /\ 0 < len /\ Nil \in S
      BY <1>2, <1>3, <2>1
    <3> QED BY <3>1, PopHeadAt
  <2>4. Items' = WithoutEntry(Items, 0)
    BY <1>2, <2>2, <2>3, NextItems DEF Stored
  <2>5. 0 \in 0..(len - 1) /\ Slot(low + 0) = low
    BY <1>2, <2>1, FirstSlot
  <2>6. /\ Items' = Q!WithoutAt(0) /\ Q!Answer(t, Q!Outcome("ok", Q!At(0), -1)) /\ Items # <<>>
    <3>1. Answer(t, Outcome("ok", vec[Slot(low + 0)], -1))
      BY <2>2, <2>5
    <3> QED BY <1>11, <2>4, <2>5, <3>1
  <2>7. Q!Pop(t, c)
    BY <2>1, <2>6 DEF Q!Pop
  <2> QED BY <1>1, <2>7 DEF Q!Respond
<1>14. ASSUME d.op = "pop_tail", PopTail(t) PROVE Q!Respond(t)
  <2>1. d = c /\ c.op = "pop_tail" /\ 0 < len
    BY <1>1, <1>5, <1>14 DEF DInv, VInv, ChecksHold, Takes, Taking
  <2>2. low + len - 1 = low + (len - 1)
    BY <1>2, CapIs DEF Slots
  <2>3. /\ vec' = [vec EXCEPT ![Slot(low + (len - 1))] = Nil] /\ low' = low /\ len' = len - 1
        /\ Answer(t, Outcome("ok", vec[Slot(low + (len - 1))], -1))
    BY <1>14, <2>2 DEF PopTail
  <2>4. Window(Stored(vec, Slot(low + (len - 1)), Nil), low, len - 1)
          = WithoutEntry(Window(vec, low, len), len - 1)
    <3>1. RingOf(S, vec, low, len) /\ 0 < len /\ Nil \in S
      BY <1>2, <1>3, <2>1
    <3> QED BY <3>1, PopTailAt
  <2>5. Items' = WithoutEntry(Items, len - 1)
    BY <1>2, <2>3, <2>4, NextItems DEF Stored
  <2>6. len - 1 \in 0..(len - 1)
    BY <1>2, <2>1
  <2>7. /\ Items' = Q!WithoutAt(len - 1) /\ Q!Answer(t, Q!Outcome("ok", Q!At(len - 1), -1))
        /\ Items # <<>>
    BY <1>11, <2>3, <2>5, <2>6
  <2>8. Q!Pop(t, c)
    BY <1>2, <2>1, <2>7 DEF Q!Pop
  <2> QED BY <1>1, <2>8 DEF Q!Respond
<1> QED
  BY <1>6, <1>8, <1>9, <1>10, <1>12, <1>13, <1>14 DEF Locked
(* A call that returns an error at once does what the queue would.         *)
LEMMA ErrorIsOneStep ==
  ASSUME OneTaker, DInv, NEW t \in Threads, call[t] # Nil, Check(call[t]) # "ok",
         Answer(t, Outcome(Check(call[t]), Nil, -1)), UNCHANGED <<low, len, vec, mtx>>
  PROVE  Q!Respond(t)
<1> DEFINE c == call[t]
<1>1. c # Nil /\ c \in Call
  BY DEF DInv, VInv, CallsKnown
<1>2. /\ Items \in Seq(Elems \cup {Nil}) /\ Len(Items) = len /\ len \in Nat /\ Items' = Items
  BY ItemsAre, NextItems DEF DInv, VInv
<1>3. Q!Answer(t, Q!Outcome(Check(c), Nil, -1))
  BY SameAnswer DEF Outcome, Q!Outcome
<1>4. CASE c.op \in {"pop_head", "pop_tail"} /\ len = 0
  <2>1. Check(c) = "ERR_EMPTY"
    BY <1>4 DEF Check
  <2>2. Items = <<>>
    BY <1>2, <1>4, EmptySeq
  <2>3. Q!Pop(t, c)
    BY <1>2, <1>3, <1>4, <2>1, <2>2 DEF Q!Pop
  <2> QED BY <1>1, <2>3 DEF Q!Respond
<1>5. CASE c.op = "insert" /\ len = Cap
  <2>1. Check(c) = "ERR_OVERFLOW"
    BY <1>5 DEF Check
  <2>2. Q!Add(t, c)
    BY <1>2, <1>3, <1>5, <2>1 DEF Q!Add, Q!Full
  <2> QED BY <1>1, <2>2 DEF Q!Respond
<1>6. CASE c.op \in {"delete", "get"} /\ (c.pos < 0 \/ c.pos > len - 1)
  <2>1. Check(c) = "ERR_OVERFLOW"
    BY <1>6 DEF Check
  <2>2. c.pos \notin Q!Indexes
    <3>1. c.pos \in Int
      BY <1>1, <1>6, CallFacts
    <3> QED BY <1>2, <1>6, <3>1 DEF Q!Indexes
  <2>3. Q!Index(t, c)
    BY <1>2, <1>3, <1>6, <2>1, <2>2 DEF Q!Index
  <2> QED BY <1>1, <2>3 DEF Q!Respond
<1>7. \/ c.op \in {"pop_head", "pop_tail"} /\ len = 0
      \/ c.op = "insert" /\ len = Cap
      \/ c.op \in {"delete", "get"} /\ (c.pos < 0 \/ c.pos > len - 1)
  BY DEF Check
<1> QED BY <1>4, <1>5, <1>6, <1>7

(* No thread is inside the mutex while an entry is looked up.              *)
LEMMA LookupIsQuiet ==
  ASSUME OneTaker, OneAtATime, DInv, NEW t \in Threads, todo[t] # Nil,
         todo[t].op \in {"get", "getidx"}
  PROVE  Quiet /\ todo[t] = call[t] /\ InRange(call[t])
<1>1. call[t] # Nil /\ call[t] \in Call /\ AsCalled(t)
  BY CallOf
<1>2. todo[t] = call[t] /\ InRange(call[t])
  BY <1>1 DEF AsCalled
<1>3. ASSUME mtx # Nil PROVE FALSE
  <2>1. mtx \in Threads
    BY <1>3 DEF DInv, VInv, VTypeOK
  <2>2. todo[mtx] # Nil /\ ~Reads(todo[mtx]) /\ call[mtx] # Nil
    BY <2>1 DEF DInv, VInv, CallsKnown
  <2>3. mtx # t
    BY <2>2 DEF Reads
  <2> QED BY <1>1, <1>2, <2>1, <2>2, <2>3 DEF DInv, Alone, OneAtATime
<1> QED BY <1>2, <1>3 DEF Quiet

LEMMA GetIsOneStep ==
  ASSUME OneTaker, OneAtATime, DInv, NEW t \in Threads, Get(t)
  PROVE  Q!Respond(t)
<1> DEFINE c == call[t]
<1>1. c # Nil /\ c \in Call
  BY CallOf DEF Get
<1>2. Quiet /\ todo[t] = c /\ InRange(c) /\ c.op = "get"
  BY LookupIsQuiet DEF Get
<1>3. /\ Len(Items) = len /\ len \in Nat /\ Items' = Items
      /\ \A i \in 0..(len - 1) : Items[i + 1] = vec[Slot(low + i)]
  BY ItemsAre, NextItems DEF DInv, VInv, Get
<1>4. c.pos \in 0..(len - 1)
  BY <1>1, <1>2, <1>3, CallFacts DEF InRange
<1>5. Answer(t, Outcome("ok", vec[Slot(low + c.pos)], -1))
  BY <1>2 DEF Get
<1>6. Q!At(c.pos) = vec[Slot(low + c.pos)] /\ c.pos \in Q!Indexes
  BY <1>3, <1>4 DEF Q!At, Q!Indexes
<1>7. Q!Answer(t, Q!Outcome("ok", Q!At(c.pos), -1))
  BY <1>5, <1>6, SameAnswer DEF Outcome, Q!Outcome
<1>8. Q!Index(t, c)
  BY <1>2, <1>3, <1>6, <1>7 DEF Q!Index
<1> QED BY <1>1, <1>8 DEF Q!Respond

LEMMA GetIdxIsOneStep ==
  ASSUME OneTaker, OneAtATime, DInv, NEW t \in Threads, GetIdx(t)
  PROVE  Q!Respond(t)
<1> DEFINE c == call[t]
<1>1. c # Nil /\ c \in Call
  BY CallOf DEF GetIdx
<1>2. Quiet /\ todo[t] = c /\ c.op = "getidx"
  BY LookupIsQuiet DEF GetIdx
<1>3. /\ Len(Items) = len /\ len \in Nat /\ Items' = Items
      /\ \A i \in 0..(len - 1) : Items[i + 1] = vec[Slot(low + i)]
  BY ItemsAre, NextItems DEF DInv, VInv, GetIdx
<1>4. Q!Indexes = 0..(len - 1)
  BY <1>3 DEF Q!Indexes
<1>5. \A i \in 0..(len - 1) : Q!At(i) = vec[Slot(low + i)]
  BY <1>3 DEF Q!At
<1>6. ASSUME NEW i \in 0..(len - 1)
      PROVE  FirstAt(c.e, i) <=> Q!At(i) = c.e /\ \A k \in 0..(i - 1) : Q!At(k) # c.e
  <2>1. \A k \in 0..(i - 1) : k \in 0..(len - 1)
    BY <1>3
  <2> QED BY <1>5, <2>1 DEF FirstAt
<1>7. CASE /\ \A k \in 0..(len - 1) : ~FirstAt(c.e, k)
           /\ Answer(t, Outcome("ERR_EMPTY", Nil, -1))
  <2>1. ASSUME NEW i \in 0..(len - 1), Q!At(i) = c.e PROVE FALSE
    <3> DEFINE T == {k \in 0..(len - 1) : Q!At(k) = c.e}
    <3>1. T \subseteq Nat /\ T # {}
      BY <1>3, <2>1
    <3>2. PICK k \in T : \A j \in T : k <= j
      <4> HIDE DEF T
      <4> QED BY <3>1, LeastElement
    <3>3. k \in 0..(len - 1) /\ Q!At(k) = c.e
      BY <3>2
    <3>4. \A j \in 0..(k - 1) : Q!At(j) # c.e
      <4> SUFFICES ASSUME NEW j \in 0..(k - 1), Q!At(j) = c.e PROVE FALSE
        OBVIOUS
      <4>1. j \in T /\ ~(k <= j)
        BY <1>3, <3>3
      <4> QED BY <3>2, <4>1
    <3> QED BY <1>6, <1>7, <3>3, <3>4
  <2>2. Q!Answer(t, Q!Outcome("ERR_EMPTY", Nil, -1))
    BY <1>7, SameAnswer DEF Outcome, Q!Outcome
  <2>3. Q!GetIdx(t, c)
    BY <1>2, <1>3, <1>4, <2>1, <2>2 DEF Q!GetIdx
  <2> QED BY <1>1, <2>3 DEF Q!Respond
<1>8. ASSUME NEW i \in 0..(len - 1), FirstAt(c.e, i), Answer(t, Outcome("ok", Nil, i))
      PROVE  Q!Respond(t)
  <2>1. Q!Answer(t, Q!Outcome("ok", Nil, i))
    BY <1>8, SameAnswer DEF Outcome, Q!Outcome
  <2>2. Q!At(i) = c.e /\ \A k \in 0..(i - 1) : Q!At(k) # c.e
    BY <1>6, <1>8
  <2>3. Q!GetIdx(t, c)
    BY <1>2, <1>3, <1>4, <2>1, <2>2 DEF Q!GetIdx
  <2> QED BY <1>1, <2>3 DEF Q!Respond
<1> QED BY <1>2, <1>7, <1>8 DEF GetIdx

LEMMA StepIsQStep ==
  ASSUME OneTaker, OneAtATime, DInv, [VNext]_vvars PROVE [Q!QNext]_Q!qvars
<1>1. ASSUME UNCHANGED <<low, len, vec>> PROVE Items' = Items
  BY <1>1, NextItems DEF Items, Window
<1>2. CASE UNCHANGED vvars
  BY <1>1, <1>2 DEF vvars, Q!qvars
<1>3. ASSUME NEW t \in Threads, NEW c \in CallsOf[t], Request(t, c) PROVE Q!QNext
  <2>1. Q!Request(t, c)
    BY <1>1, <1>3 DEF Request, Q!Request
  <2> QED BY <2>1 DEF Q!QNext
<1>4. ASSUME NEW t \in Threads, Q!Respond(t) PROVE Q!QNext
  BY <1>4 DEF Q!QNext
<1>5. ASSUME NEW t \in Threads, Enter(t) PROVE [Q!QNext]_Q!qvars
  <2>1. CASE Check(call[t]) # "ok"
    BY <1>4, <1>5, <2>1, ErrorIsOneStep DEF Enter
  <2>2. CASE Check(call[t]) = "ok"
    BY <1>1, <1>5, <2>2 DEF Enter, Q!qvars
  <2> QED BY <2>1, <2>2
<1>6. ASSUME NEW t \in Threads, Lock(t) PROVE UNCHANGED Q!qvars
  BY <1>1, <1>6 DEF Lock, Q!qvars
<1>7. ASSUME NEW t \in Threads, Locked(t) \/ Get(t) \/ GetIdx(t) PROVE Q!QNext
  BY <1>4, <1>7, LockedIsOneStep, GetIsOneStep, GetIdxIsOneStep
<1> QED BY <1>2, <1>3, <1>5, <1>6, <1>7 DEF VNext

LEMMA InitIsQInit == ASSUME OneTaker, VInit PROVE Q!QInit
<1>1. VTypeOK
  BY InitInv DEF VInv
<1>2. Items \in Seq(Elems \cup {Nil}) /\ Len(Items) = 0
  BY <1>1, ItemsAre DEF VInit
<1>3. Items = <<>>
  BY <1>2, EmptySeq
<1> QED BY <1>3 DEF VInit, Q!QInit, Done, Q!Done, Outcome, Q!Outcome

(* As long as one thread takes entries out, and insert, get and getidx are *)
(* not called while another call is under way, the ring with its checks    *)
(* ahead of the mutex does for every caller what a queue would do in one   *)
(* step between the request and the response.                              *)
THEOREM RingIsDeque ==
  ASSUME OneTaker, OneAtATime
  PROVE  VSpec => IsDeque
<1>1. VInit => DInv
  BY DInitInv
<1>2. DInv /\ [VNext]_vvars => DInv'
  BY DStepInv
<1>3. VInit => Q!QInit
  BY InitIsQInit
<1>4. DInv /\ [VNext]_vvars => [Q!QNext]_Q!qvars
  BY StepIsQStep
<1> QED
  BY <1>1, <1>2, <1>3, <1>4, PTL DEF VSpec, IsDeque, Q!QSpec
=============================================================================
