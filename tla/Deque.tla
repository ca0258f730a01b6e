------------------------------- MODULE Deque -------------------------------
(***************************************************************************)
(* What src/src/vector.c promises its callers: a double-ended queue of at  *)
(* most Cap entries on which every call takes effect in one step between   *)
(* the request and the response, whoever else is calling.                  *)
(***************************************************************************)
EXTENDS Integers, Sequences

CONSTANTS Cap,      \* the capacity
          Threads,  \* the callers
          CallsOf,  \* [Threads -> set of the calls each makes]
          Nil

VARIABLES items,    \* the entries, first to last
          call,     \* the call each thread is in, or Nil
          ret       \* what each thread's last call returned

qvars == <<items, call, ret>>

Outcome(rv, e, i) == [rv |-> rv, val |-> e, idx |-> i]
Done == Outcome("ok", Nil, -1)

QInit == /\ items = <<>>
         /\ call = [t \in Threads |-> Nil]
         /\ ret = [t \in Threads |-> Done]

Request(t, c) == /\ call[t] = Nil
                 /\ call' = [call EXCEPT ![t] = c]
                 /\ UNCHANGED <<items, ret>>

Answer(t, o) == /\ call' = [call EXCEPT ![t] = Nil]
                /\ ret' = [ret EXCEPT ![t] = o]

Full == Len(items) = Cap
At(pos) == items[pos + 1]
Indexes == 0..(Len(items) - 1)
WithoutAt(pos) == SubSeq(items, 1, pos) \o SubSeq(items, pos + 2, Len(items))
WithAt(pos, e) == SubSeq(items, 1, pos) \o <<e>> \o SubSeq(items, pos + 1, Len(items))

(* An insertion past the end adds at the end.                              *)
Place(c) == CASE c.op = "push_head" -> 0
              [] c.op = "push_tail" -> Len(items)
              [] c.op = "insert" -> IF c.pos > Len(items) THEN Len(items) ELSE c.pos

Add(t, c) == /\ c.op \in {"push_head", "push_tail", "insert"}
             /\ IF Full THEN /\ Answer(t, Outcome("ERR_OVERFLOW", Nil, -1))
                             /\ UNCHANGED items
                        ELSE /\ Answer(t, Done)
                             /\ items' = WithAt(Place(c), c.e)

Pop(t, c) == /\ c.op \in {"pop_head", "pop_tail"}
             /\ LET pos == IF c.op = "pop_head" THEN 0 ELSE Len(items) - 1 IN
                IF items = <<>> THEN /\ Answer(t, Outcome("ERR_EMPTY", Nil, -1))
                                     /\ UNCHANGED items
                                ELSE /\ Answer(t, Outcome("ok", At(pos), -1))
                                     /\ items' = WithoutAt(pos)

Index(t, c) == /\ c.op \in {"delete", "get"}
               /\ IF c.pos \notin Indexes
                    THEN /\ Answer(t, Outcome("ERR_OVERFLOW", Nil, -1))
                         /\ UNCHANGED items
                    ELSE /\ Answer(t, Outcome("ok", At(c.pos), -1))
                         /\ items' = IF c.op = "get" THEN items ELSE WithoutAt(c.pos)

GetIdx(t, c) == /\ c.op = "getidx"
                /\ \/ /\ \A i \in Indexes : At(i) # c.e
                      /\ Answer(t, Outcome("ERR_EMPTY", Nil, -1))
                   \/ \E i \in Indexes :
                        /\ At(i) = c.e /\ \A k \in 0..(i - 1) : At(k) # c.e
                        /\ Answer(t, Outcome("ok", Nil, i))
                /\ UNCHANGED items

Respond(t) == LET c == call[t] IN
              c # Nil /\ (Add(t, c) \/ Pop(t, c) \/ Index(t, c) \/ GetIdx(t, c))

QNext == \E t \in Threads : Respond(t) \/ \E c \in CallsOf[t] : Request(t, c)

QSpec == QInit /\ [][QNext]_qvars
=============================================================================
