------------------------------- MODULE Vector -------------------------------
(***************************************************************************)
(* src/src/vector.c, the ring buffer that proto.c keeps its registry in,   *)
(* and the threads that call it.  README.md:51 calls it thread safe: its   *)
(* writers hold a mutex, but pop, insert and delete look at len before     *)
(* they take it, and get and getidx never take it.                         *)
(*                                                                         *)
(* The lock is one step and the locked code, which no other lock holder    *)
(* can see half done, another.  A reader that overlaps locked code races   *)
(* with it and may return any entry that is stored at that time.           *)
(***************************************************************************)
EXTENDS Integers, Sequences

CONSTANTS Cap,      \* NFTP_SIZE, or what alloc is asked for
          Threads, CallsOf, Nil,
          Exclusive, \* calls the application makes with no other under way
          Elems     \* the entries

ASSUME VectorAssumption == Cap \in Nat \ {0} /\ Nil \notin Elems

VARIABLES low, len, vec,  \* struct _vec
          mtx,            \* the thread that holds the mutex, or Nil
          call, ret,      \* as in Deque
          todo            \* what the call of a thread has still to do, or Nil

vvars == <<low, len, vec, mtx, call, ret, todo>>

Outcome(rv, e, i) == [rv |-> rv, val |-> e, idx |-> i]
Done == Outcome("ok", Nil, -1)
Slots == 0..(Cap - 1)
Slot(i) == i % Cap

VInit == /\ low = Cap \div 4 /\ len = 0
         /\ vec = [s \in Slots |-> Nil]
         /\ mtx = Nil
         /\ todo = [t \in Threads |-> Nil]
         /\ call = [t \in Threads |-> Nil]
         /\ ret = [t \in Threads |-> Done]

Request(t, c) == /\ call[t] = Nil
                 /\ \A u \in Threads : call[u] # Nil =>
                      c.op \notin Exclusive /\ call[u].op \notin Exclusive
                 /\ call' = [call EXCEPT ![t] = c]
                 /\ UNCHANGED <<low, len, vec, mtx, ret, todo>>

Answer(t, o) == /\ call' = [call EXCEPT ![t] = Nil]
                /\ ret' = [ret EXCEPT ![t] = o]
                /\ todo' = [todo EXCEPT ![t] = Nil]

-----------------------------------------------------------------------------
(* What each call makes of len before it takes the mutex: the code of the  *)
(* error it returns at once, or "ok".  An insert past the end turns into a *)
(* push.                                                                   *)
Check(c) ==
  CASE c.op \in {"pop_head", "pop_tail"} /\ len = 0 -> "ERR_EMPTY"
    [] c.op = "insert" /\ len = Cap -> "ERR_OVERFLOW"
    [] c.op \in {"delete", "get"} /\ (c.pos < 0 \/ c.pos > len - 1) -> "ERR_OVERFLOW"
    [] OTHER -> "ok"

TurnedInto(c) == IF c.op = "insert" /\ c.pos > len
                   THEN [op |-> "push_tail", e |-> c.e] ELSE c

Enter(t) ==
  LET c == call[t] IN
  /\ c # Nil /\ todo[t] = Nil
  /\ IF Check(c) # "ok"
       THEN Answer(t, Outcome(Check(c), Nil, -1))
       ELSE /\ todo' = [todo EXCEPT ![t] = TurnedInto(c)]
            /\ UNCHANGED <<call, ret>>
  /\ UNCHANGED <<low, len, vec, mtx>>

Reads(c) == c.op \in {"get", "getidx"}

Lock(t) == /\ todo[t] # Nil /\ ~Reads(todo[t]) /\ mtx = Nil
           /\ mtx' = t
           /\ UNCHANGED <<low, len, vec, call, ret, todo>>

-----------------------------------------------------------------------------
(* The locked code.  What the check of len made sure of may have gone by   *)
(* then.  Most of what the code does about that is plain wrong results;    *)
(* Defined leaves out where it leaves the array, and an insertion into a   *)
(* full one.                                                               *)
Defined(c) ==
  /\ c.op = "push_tail" => low + len >= 0
  /\ c.op = "pop_tail" => low + len > 0
  /\ c.op = "insert" => len < Cap

Holds(t) == mtx = t /\ Defined(todo[t])
Unlock == mtx' = Nil

PushFull(t) == /\ len = Cap
               /\ Answer(t, Outcome("ERR_OVERFLOW", Nil, -1))
               /\ UNCHANGED <<low, len, vec>>

(* Mutant: low does not wrap.                                              *)
PushHeadUnwrapped(t, e) == /\ len < Cap
                           /\ low' = low - 1
                           /\ vec' = [vec EXCEPT ![(low - 1 + Cap) % Cap] = e]
                           /\ len' = len + 1
                           /\ Answer(t, Done)

PushHead(t, e) == /\ len < Cap
                  /\ low' = (low - 1 + Cap) % Cap
                  /\ vec' = [vec EXCEPT ![low'] = e]
                  /\ len' = len + 1
                  /\ Answer(t, Done)

(* Mutant: the check for a full vector is off by one.                      *)
PushTailFull(t, e) == /\ len <= Cap
                      /\ vec' = [vec EXCEPT ![Slot(low + len)] = e]
                      /\ len' = len + 1
                      /\ UNCHANGED low
                      /\ Answer(t, Done)

PushTail(t, e) == /\ len < Cap
                  /\ vec' = [vec EXCEPT ![Slot(low + len)] = e]
                  /\ len' = len + 1
                  /\ UNCHANGED low
                  /\ Answer(t, Done)

(* The slots from pos on move up one, the last first.                      *)
Insert(t, e, pos) ==
  /\ vec' = [s \in Slots |->
               IF s = Slot(low + pos) THEN e
               ELSE IF \E i \in (pos + 1)..len : s = Slot(low + i)
                      THEN vec[Slot(s - 1 + Cap)] ELSE vec[s]]
  /\ len' = len + 1
  /\ UNCHANGED low
  /\ Answer(t, Done)

(* Mutant: the last entry is not moved.                                    *)
DeleteShort(t, pos) ==
  /\ vec' = [s \in Slots |->
               IF \E i \in pos..(len - 3) : s = Slot(low + i)
                 THEN vec[Slot(s + 1)] ELSE vec[s]]
  /\ len' = len - 1
  /\ UNCHANGED low
  /\ Answer(t, Outcome("ok", vec[Slot(low + pos)], -1))

(* The slots after pos move down one; the last is not cleared.             *)
Delete(t, pos) ==
  /\ vec' = [s \in Slots |->
               IF \E i \in pos..(len - 2) : s = Slot(low + i)
                 THEN vec[Slot(s + 1)] ELSE vec[s]]
  /\ len' = len - 1
  /\ UNCHANGED low
  /\ Answer(t, Outcome("ok", vec[Slot(low + pos)], -1))

PopHead(t) == /\ low' = Slot(low + 1)
              /\ vec' = [vec EXCEPT ![low] = Nil]
              /\ len' = len - 1
              /\ Answer(t, Outcome("ok", vec[low], -1))

PopTail(t) == LET s == Slot(low + len - 1) IN
              /\ vec' = [vec EXCEPT ![s] = Nil]
              /\ len' = len - 1
              /\ UNCHANGED low
              /\ Answer(t, Outcome("ok", vec[s], -1))

Locked(t) ==
  LET c == todo[t] IN
  /\ Holds(t) /\ Unlock
  /\ \/ c.op \in {"push_head", "push_tail"} /\ PushFull(t)
     \/ c.op = "push_head" /\ PushHead(t, c.e)
     \/ c.op = "push_tail" /\ PushTail(t, c.e)
     \/ c.op = "insert" /\ Insert(t, c.e, c.pos)
     \/ c.op = "delete" /\ Delete(t, c.pos)
     \/ c.op = "pop_head" /\ PopHead(t)
     \/ c.op = "pop_tail" /\ PopTail(t)

-----------------------------------------------------------------------------
(* The readers, which never lock.                                          *)

Quiet == mtx = Nil

Get(t) ==
  LET c == todo[t] IN
  /\ c # Nil /\ c.op = "get"
  /\ \E e \in IF Quiet THEN {vec[Slot(low + c.pos)]} ELSE {vec[s] : s \in Slots} :
       Answer(t, Outcome("ok", e, -1))
  /\ UNCHANGED <<low, len, vec, mtx>>

FirstAt(e, i) == /\ vec[Slot(low + i)] = e
                 /\ \A k \in 0..(i - 1) : vec[Slot(low + k)] # e

GetIdx(t) ==
  LET c == todo[t] IN
  /\ c # Nil /\ c.op = "getidx"
  /\ \/ /\ ~Quiet \/ \A k \in 0..(len - 1) : ~FirstAt(c.e, k)
        /\ Answer(t, Outcome("ERR_EMPTY", Nil, -1))
     \/ \E i \in 0..(len - 1) :
          /\ ~Quiet \/ FirstAt(c.e, i)
          /\ Answer(t, Outcome("ok", Nil, i))
  /\ UNCHANGED <<low, len, vec, mtx>>

VNext == \E t \in Threads :
           \/ Enter(t) \/ Lock(t) \/ Locked(t) \/ Get(t) \/ GetIdx(t)
           \/ \E c \in CallsOf[t] : Request(t, c)

VSpec == VInit /\ [][VNext]_vvars

-----------------------------------------------------------------------------
(* Every variable keeps its type; low is always the slot of an entry.      *)
VTypeOK ==
  /\ low \in Slots /\ len \in 0..Cap
  /\ vec \in [Slots -> Elems \cup {Nil}]
  /\ mtx \in Threads \cup {Nil}
  /\ \A t \in Threads : call[t] = Nil => todo[t] = Nil

Items == [k \in 1..len |-> vec[Slot(low + k - 1)]]

(* Every call returns what a queue that is used by one caller at a time    *)
(* would return, and leaves it as that would be.                           *)
Q == INSTANCE Deque WITH items <- Items

IsDeque == Q!QSpec
=============================================================================
