-------------------------------- MODULE Iovs --------------------------------
(***************************************************************************)
(* src/src/iovs.c, the buffers codec.c puts messages together in, and the  *)
(* threads that call them.  README.md:51 calls them thread safe: whatever  *)
(* changes a buffer holds its mutex, but insert, pop and cat check before  *)
(* they take it, cat and iovs2stream look again after they have given it   *)
(* back, and the iterator never takes it.                                  *)
(*                                                                         *)
(* The lock is one step and the code up to the next unlock another.  A     *)
(* call that leaves the array answers "wild": what the program does after  *)
(* that is undefined, and no property allows the answer.                   *)
(***************************************************************************)
EXTENDS Integers, Sequences, FiniteSets

CONSTANTS Bufs,
          Cap,      \* NFTP_SIZE
          Elems,    \* what iov_base points to
          Size,     \* [Elems -> Nat], the iov_len that goes with it
          Threads, CallsOf, Nil,
          Care      \* whether the applications keep to Careful

HEAD == -1          \* NFTP_HEAD
TAIL == 2147483647  \* NFTP_TAIL

ASSUME IovsAssumption == /\ Cap \in 1..TAIL /\ Nil \notin Elems \cup Threads
                         /\ IsFiniteSet(Threads)
                         /\ Size \in [Elems -> Nat] /\ Care \in BOOLEAN

(* The calls there are, with their arguments.                              *)
Calls == [op : {"push_head", "push_tail"}, b : Bufs, e : Elems]
         \cup [op : {"insert"}, b : Bufs, e : Elems, pos : Nat]
         \cup [op : {"cat"}, b : Bufs, src : Bufs]
         \cup [op : {"pop_head", "pop_tail", "stream", "len", "renew", "iter", "next", "prev"},
               b : Bufs]

(* What is left of a call that has done a part of its work.                *)
Rests == [op : {"cat_count"}, b : Bufs, src : Bufs]
         \cup [op : {"stream"}, b : Bufs, size : Nat]
         \cup [op : {"stream_end"}, b : Bufs, items : Seq(Elems)]

ASSUME CallsAssumption == /\ CallsOf \in [Threads -> SUBSET Calls]
                          /\ Nil \notin Calls \cup Rests

VARIABLES iovs,      \* [Bufs -> struct _iovs]
          mtx,       \* [Bufs -> the thread that holds the mutex, or Nil]
          key,       \* [Bufs -> struct iter of an iterator over the buffer]
          call, ret, \* as in Segments
          todo       \* what the call of a thread has still to do, or Nil

ivars == <<iovs, mtx, key, call, ret, todo>>

Slots == 0..(Cap - 1)
Start == Cap \div 3
Outcome(rv, s, n) == [rv |-> rv, val |-> s, n |-> n]
Done == Outcome("ok", <<>>, 0)
Wild == Outcome("wild", <<>>, 0)

Fresh == [low |-> Start, len |-> 0, arr |-> [i \in Slots |-> Nil], iolen |-> 0]
End(B) == B.low + B.len

IInit == /\ iovs = [b \in Bufs |-> Fresh]
         /\ mtx = [b \in Bufs |-> Nil]
         /\ key = [b \in Bufs |-> HEAD]
         /\ call = [t \in Threads |-> Nil]
         /\ todo = [t \in Threads |-> Nil]
         /\ ret = [t \in Threads |-> Done]

Answer(t, o) == /\ call' = [call EXCEPT ![t] = Nil]
                /\ ret' = [ret EXCEPT ![t] = o]
                /\ todo' = [todo EXCEPT ![t] = Nil]

-----------------------------------------------------------------------------
(* What the applications keep to if Care is TRUE.                          *)

Adds == {"push_head", "push_tail", "insert", "cat"}
Pops == {"pop_head", "pop_tail"}

Changes(c) == IF c.op \in Adds \cup Pops \cup {"renew"} THEN {c.b} ELSE {}

(* The buffers a call looks at while it does not hold their mutexes.       *)
Watches(c) == CASE c.op = "cat" -> {c.src}
                [] c.op \in {"insert", "stream", "iter", "next", "prev"} -> {c.b}
                [] OTHER -> {}

(* One uses up the places, or the last entry, that the other has seen,     *)
(* frees the buffer, or moves the iterator that the other moves.           *)
Rivals(c, d) == /\ c.b = d.b
                /\ \/ c.op = "renew"
                   \/ {c.op, d.op} \subseteq {"next", "prev"}
                   \/ c.op = "cat" /\ d.op \in Adds \ {"push_head"}
                   \/ c.op \in Pops /\ d.op \in Pops

Apart(c, d) == /\ Watches(c) \cap Changes(d) = {} /\ Watches(d) \cap Changes(c) = {}
               /\ ~Rivals(c, d) /\ ~Rivals(d, c)

(* Nothing is pushed at the tail of a buffer that has no place there, or   *)
(* inserted into one that has places in front.  An iterator is not moved   *)
(* past the end twice, and not back from the first entry.                  *)
Fits(c) ==
  LET B == iovs[c.b]
      pushes == {u \in Threads : call[u] # Nil /\ call[u].op = "push_tail" /\ call[u].b = c.b}
  IN /\ c.op = "push_tail" => End(B) + Cardinality(pushes) < Cap
     /\ c.op = "insert" => B.low = 0 \/ c.pos > B.len
     /\ c.op = "next" => key[c.b] < B.len
     /\ c.op = "prev" => \/ key[c.b] \in {HEAD} \cup 1..(B.len - 1)
                         \/ key[c.b] = TAIL /\ B.len > 0

Careful(c) == Fits(c) /\ \A u \in Threads : call[u] # Nil => Apart(c, call[u])

Request(t, c) == /\ call[t] = Nil
                 /\ Care => Careful(c)
                 /\ call' = [call EXCEPT ![t] = c] /\ ret' = [ret EXCEPT ![t] = Done]
                 /\ UNCHANGED <<iovs, mtx, key, todo>>

-----------------------------------------------------------------------------
(* What each call makes of its buffers before it takes a mutex: the error  *)
(* it returns at once, or "ok".  An insertion past the end turns into a    *)
(* push, and iovs2stream allocates the bytes there are then.               *)

Check(c) ==
  LET B == iovs[c.b] IN
  CASE c.op = "insert" /\ End(B) + 1 > Cap -> "ERR_OVERFLOW"
    [] c.op \in Pops /\ B.len = 0 -> "ERR_EMPTY"
    [] c.op = "cat" /\ End(B) + iovs[c.src].len > Cap -> "ERR_OVERFLOW"
    [] OTHER -> "ok"

TurnedInto(c) ==
  CASE c.op = "insert" /\ c.pos > iovs[c.b].len -> [op |-> "push_tail", b |-> c.b, e |-> c.e]
    [] c.op = "stream" -> [op |-> "stream", b |-> c.b, size |-> iovs[c.b].iolen]
    [] OTHER -> c

Enter(t) ==
  LET c == call[t] IN
  /\ c # Nil /\ todo[t] = Nil /\ c.op \in Adds \cup Pops \cup {"stream"}
  /\ IF Check(c) # "ok"
       THEN Answer(t, Outcome(Check(c), <<>>, 0))
       ELSE todo' = [todo EXCEPT ![t] = TurnedInto(c)] /\ UNCHANGED <<call, ret>>
  /\ UNCHANGED <<iovs, mtx, key>>

Lock(t) == LET c == todo[t] IN
           /\ c # Nil /\ c.op # "stream_end" /\ mtx[c.b] = Nil
           /\ mtx' = [mtx EXCEPT ![c.b] = t]
           /\ UNCHANGED <<iovs, key, call, ret, todo>>

Holds(t, ops) == todo[t] # Nil /\ todo[t].op \in ops /\ mtx[todo[t].b] = t

(* nftp_iovs_cat takes two; one that is its own source waits for itself.   *)
LockSource(t) == LET c == todo[t] IN
                 /\ Holds(t, {"cat"}) /\ mtx[c.src] = Nil
                 /\ mtx' = [mtx EXCEPT ![c.src] = t]
                 /\ UNCHANGED <<iovs, key, call, ret, todo>>

Unlock(b) == mtx' = [mtx EXCEPT ![b] = Nil] /\ UNCHANGED key

-----------------------------------------------------------------------------
(* The locked code.                                                        *)

Becomes(b, B) == iovs' = [iovs EXCEPT ![b] = B]
With(B, l, n, a, s) == [low |-> l, len |-> n, arr |-> a, iolen |-> s]
Bytes(s) == LET sum[k \in 0..Len(s)] == IF k = 0 THEN 0 ELSE sum[k - 1] + Size[s[k]]
            IN  sum[Len(s)]
Items(B) == [k \in 1..B.len |-> B.arr[B.low + k - 1]]

Put(B, l, i, e) == With(B, l, B.len + 1, [B.arr EXCEPT ![i] = e], B.iolen + Size[e])

(* Mutant: the mutex is kept when there is no place.                       *)
PushHeadKeepsLock(t) ==
  LET c == todo[t]
      B == iovs[c.b]
  IN /\ Holds(t, {"push_head"}) /\ UNCHANGED key
     /\ \/ /\ B.low = 0
           /\ Answer(t, Outcome("ERR_OVERFLOW", <<>>, 0))
           /\ UNCHANGED <<iovs, mtx>>
        \/ /\ B.low > 0
           /\ Becomes(c.b, Put(B, B.low - 1, B.low - 1, c.e))
           /\ mtx' = [mtx EXCEPT ![c.b] = Nil]
           /\ Answer(t, Done)

PushHead(t) ==
  LET c == todo[t]
      B == iovs[c.b]
  IN /\ Holds(t, {"push_head"}) /\ Unlock(c.b)
     /\ \/ /\ B.low = 0
           /\ Answer(t, Outcome("ERR_OVERFLOW", <<>>, 0))
           /\ UNCHANGED iovs
        \/ /\ B.low > 0
           /\ Becomes(c.b, Put(B, B.low - 1, B.low - 1, c.e))
           /\ Answer(t, Done)

(* The check is off by one: the first push it refuses is the one after the *)
(* push that has left the array.                                           *)
PushTail(t) ==
  LET c == todo[t]
      B == iovs[c.b]
  IN /\ Holds(t, {"push_tail"}) /\ Unlock(c.b)
     /\ IF End(B) \in Slots
          THEN Becomes(c.b, Put(B, B.low, End(B), c.e)) /\ Answer(t, Done)
          ELSE Answer(t, Wild) /\ UNCHANGED iovs

(* The entries from pos on move up one, and the new one is stored at pos,  *)
(* which is its place if nothing is in front.                              *)
Insert(t) ==
  LET c == todo[t]
      B == iovs[c.b]
      moved == [i \in Slots |-> IF i \in (B.low + c.pos + 1)..End(B) THEN B.arr[i - 1]
                                                                     ELSE B.arr[i]]
  IN /\ Holds(t, {"insert"}) /\ Unlock(c.b)
     /\ IF End(B) \in Slots
          THEN Becomes(c.b, Put([B EXCEPT !.arr = moved], B.low, c.pos, c.e)) /\ Answer(t, Done)
          ELSE Answer(t, Wild) /\ UNCHANGED iovs

(* Mutant: the bytes of the entry stay counted.                            *)
TakenUncounted(B, l, i) == With(B, l, B.len - 1, [B.arr EXCEPT ![i] = Nil], B.iolen)

Taken(B, l, i) == With(B, l, B.len - 1, [B.arr EXCEPT ![i] = Nil], B.iolen - Size[B.arr[i]])

Pop(t) ==
  LET c == todo[t]
      B == iovs[c.b]
      i == IF c.op = "pop_head" THEN B.low ELSE End(B) - 1
      l == IF c.op = "pop_head" THEN B.low + 1 ELSE B.low
  IN /\ Holds(t, Pops) /\ Unlock(c.b)
     /\ IF B.len > 0
          THEN /\ Becomes(c.b, Taken(B, l, i))
               /\ Answer(t, Outcome("ok", <<B.arr[i]>>, Size[B.arr[i]]))
          ELSE Answer(t, Wild) /\ UNCHANGED iovs

(* cat copies, gives the mutex of its source back, and then reads how much *)
(* it has copied.                                                          *)
CatCopy(t) ==
  LET c == todo[t]
      D == iovs[c.b]
      S == iovs[c.src]
      copied == [i \in Slots |-> IF i \in End(D)..(End(D) + S.len - 1)
                                   THEN S.arr[S.low + i - End(D)] ELSE D.arr[i]]
  IN /\ Holds(t, {"cat"}) /\ c.b # c.src /\ mtx[c.src] = t
     /\ UNCHANGED key
     /\ IF End(D) + S.len <= Cap
          THEN /\ Becomes(c.b, [D EXCEPT !.arr = copied])
               /\ mtx' = [mtx EXCEPT ![c.src] = Nil]
               /\ todo' = [todo EXCEPT ![t].op = "cat_count"] /\ UNCHANGED <<call, ret>>
          ELSE /\ mtx' = [mtx EXCEPT ![c.src] = Nil, ![c.b] = Nil]
               /\ Answer(t, Wild) /\ UNCHANGED iovs

CatCount(t) ==
  LET c == todo[t]
      D == iovs[c.b]
      S == iovs[c.src]
  IN /\ Holds(t, {"cat_count"}) /\ Unlock(c.b)
     /\ Becomes(c.b, With(D, D.low, D.len + S.len, D.arr, D.iolen + S.iolen))
     /\ Answer(t, Done)

StreamCopy(t) ==
  LET c == todo[t]
      s == Items(iovs[c.b])
  IN /\ Holds(t, {"stream"}) /\ Unlock(c.b)
     /\ IF Bytes(s) <= c.size
          THEN /\ todo' = [todo EXCEPT ![t] = [op |-> "stream_end", b |-> c.b, items |-> s]]
               /\ UNCHANGED <<call, ret>>
          ELSE Answer(t, Wild)
     /\ UNCHANGED iovs

StreamEnd(t) ==
  LET c == todo[t] IN
  /\ c # Nil /\ c.op = "stream_end"
  /\ Answer(t, Outcome("ok", c.items, iovs[c.b].iolen))
  /\ UNCHANGED <<iovs, mtx, key>>

-----------------------------------------------------------------------------
(* Calls that never lock.                                                  *)

Begins(t, op) == call[t] # Nil /\ call[t].op = op

Length(t) == /\ Begins(t, "len")
             /\ Answer(t, Outcome("ok", <<>>, iovs[call[t].b].len))
             /\ UNCHANGED <<iovs, mtx, key>>

(* nftp_iovs_free, and nftp_iovs_alloc for the next message.               *)
Renew(t) == LET b == call[t].b IN
            /\ Begins(t, "renew")
            /\ Becomes(b, Fresh)
            /\ mtx' = [mtx EXCEPT ![b] = Nil]
            /\ key' = [key EXCEPT ![b] = HEAD]
            /\ Answer(t, Done)

Iter(t) == /\ Begins(t, "iter")
           /\ key' = [key EXCEPT ![call[t].b] = HEAD]
           /\ Answer(t, Done)
           /\ UNCHANGED <<iovs, mtx>>

(* The iterator answers with the entry at its key, in the array or not.    *)
Moves(t, k) ==
  LET b == call[t].b
      i == iovs[b].low + k
  IN /\ key' = [key EXCEPT ![b] = k]
     /\ Answer(t, CASE k = TAIL -> Done
                    [] k # TAIL /\ i \in Slots -> Outcome("ok", <<iovs[b].arr[i]>>, 0)
                    [] OTHER -> Wild)
     /\ UNCHANGED <<iovs, mtx>>

(* A key that is at the end already overflows.                             *)
IterNext(t) ==
  LET k == key[call[t].b] IN
  /\ Begins(t, "next")
  /\ IF k = TAIL THEN Answer(t, Wild) /\ UNCHANGED <<iovs, mtx, key>>
                 ELSE Moves(t, IF k = iovs[call[t].b].len - 1 THEN TAIL ELSE k + 1)

IterPrev(t) ==
  LET k == key[call[t].b] IN
  /\ Begins(t, "prev")
  /\ \/ k = TAIL /\ Moves(t, iovs[call[t].b].len - 1)
     \/ k = HEAD /\ Answer(t, Done) /\ UNCHANGED <<iovs, mtx, key>>
     \/ k \notin {HEAD, TAIL} /\ Moves(t, k - 1)

Locks(t) == Lock(t) \/ LockSource(t)

Works(t) == \/ Enter(t) \/ PushHead(t) \/ PushTail(t) \/ Insert(t) \/ Pop(t)
            \/ CatCopy(t) \/ CatCount(t) \/ StreamCopy(t) \/ StreamEnd(t)
            \/ Length(t) \/ Renew(t) \/ Iter(t) \/ IterNext(t) \/ IterPrev(t)

INext == \E t \in Threads : \/ Works(t) \/ Locks(t)
                            \/ \E c \in CallsOf[t] : Request(t, c)

ISpec == IInit /\ [][INext]_ivars

(* Every thread runs on, and gets a mutex that is free again and again.    *)
Fairness == \A t \in Threads : WF_ivars(Works(t)) /\ SF_ivars(Locks(t))

FairSpec == ISpec /\ Fairness

-----------------------------------------------------------------------------
(* Every call returns: no thread keeps a mutex, and no threads that join   *)
(* buffers wait for each other.                                            *)
Returns == \A t \in Threads : call[t] # Nil ~> call[t] = Nil

(* Every call returns what a sequence used by one caller at a time would   *)
(* return, the length of its stream is that of its entries, and no call    *)
(* leaves the array.                                                       *)
Entries == [b \in Bufs |-> Items(iovs[b])]
Room == [b \in Bufs |-> iovs[b].low]

G == INSTANCE Segments WITH items <- Entries, room <- Room

IsSegments == G!GSpec
=============================================================================
