------------------------------ MODULE Segments ------------------------------
(***************************************************************************)
(* What src/src/iovs.c promises its callers: sequences of entries, with    *)
(* places in front for a header and behind for a body, that are joined,    *)
(* flattened and walked over, each call taking effect in one step between  *)
(* the request and the response.                                           *)
(***************************************************************************)
EXTENDS Integers, Sequences, SequencesExt

CONSTANTS Cap,      \* the places of a buffer
          Start,    \* of which these many are in front at first
          Bufs,     \* the buffers
          Threads,  \* the callers
          CallsOf,  \* [Threads -> set of the calls each makes]
          Size,     \* [entry -> its length in bytes]
          Nil

VARIABLES items,    \* [Bufs -> the entries]
          room,     \* [Bufs -> the places left in front of them]
          key,      \* [Bufs -> where the iterator over the buffer stands]
          call,     \* the call each thread is in, or Nil
          ret       \* what it returned when it is in none

gvars == <<items, room, key, call, ret>>

HEAD == -1
TAIL == 2147483647

Outcome(rv, s, n) == [rv |-> rv, val |-> s, n |-> n]
Done == Outcome("ok", <<>>, 0)

GInit == /\ items = [b \in Bufs |-> <<>>]
         /\ room = [b \in Bufs |-> Start]
         /\ key = [b \in Bufs |-> HEAD]
         /\ call = [t \in Threads |-> Nil]
         /\ ret = [t \in Threads |-> Done]

Request(t, c) == /\ call[t] = Nil
                 /\ call' = [call EXCEPT ![t] = c] /\ ret' = [ret EXCEPT ![t] = Done]
                 /\ UNCHANGED <<items, room, key>>

Answer(t, o) == /\ call' = [call EXCEPT ![t] = Nil]
                /\ ret' = [ret EXCEPT ![t] = o]

Bytes(s) == LET sum[k \in 0..Len(s)] == IF k = 0 THEN 0 ELSE sum[k - 1] + Size[s[k]]
            IN  sum[Len(s)]
One(e) == Outcome("ok", <<e>>, Size[e])
Behind(b) == Cap - room[b] - Len(items[b])

Becomes(b, s, r) == /\ items' = [items EXCEPT ![b] = s]
                    /\ room' = [room EXCEPT ![b] = r]
                    /\ UNCHANGED key
Stays == UNCHANGED <<items, room, key>>
Refuses(t, rv) == Answer(t, Outcome(rv, <<>>, 0)) /\ Stays

PushHead(t, c) ==
  \/ room[c.b] = 0 /\ Refuses(t, "ERR_OVERFLOW")
  \/ /\ room[c.b] > 0
     /\ Becomes(c.b, <<c.e>> \o items[c.b], room[c.b] - 1)
     /\ Answer(t, Done)

(* An insertion past the end adds at the end.                              *)
Add(t, c, pos) ==
  LET s == items[c.b] IN
  \/ Behind(c.b) = 0 /\ Refuses(t, "ERR_OVERFLOW")
  \/ /\ Behind(c.b) > 0
     /\ Becomes(c.b, InsertAt(s, IF pos > Len(s) THEN Len(s) + 1 ELSE pos + 1, c.e), room[c.b])
     /\ Answer(t, Done)

Pop(t, c) ==
  LET s == items[c.b] IN
  \/ s = <<>> /\ Refuses(t, "ERR_EMPTY")
  \/ /\ s # <<>> /\ c.op = "pop_head"
     /\ Becomes(c.b, Tail(s), room[c.b] + 1)
     /\ Answer(t, One(s[1]))
  \/ /\ s # <<>> /\ c.op = "pop_tail"
     /\ Becomes(c.b, Front(s), room[c.b])
     /\ Answer(t, One(Last(s)))

(* The entries of src are added to those of b, and stay where they are.    *)
Cat(t, c) ==
  \/ Behind(c.b) < Len(items[c.src]) /\ Refuses(t, "ERR_OVERFLOW")
  \/ /\ Behind(c.b) >= Len(items[c.src])
     /\ Becomes(c.b, items[c.b] \o items[c.src], room[c.b])
     /\ Answer(t, Done)

Stream(t, c) == /\ Answer(t, Outcome("ok", items[c.b], Bytes(items[c.b])))
                /\ Stays

Length(t, c) == /\ Answer(t, Outcome("ok", <<>>, Len(items[c.b])))
                /\ Stays

(* The buffer, and the iterator over it, is done away with for a new one.  *)
Renew(t, c) == /\ items' = [items EXCEPT ![c.b] = <<>>]
               /\ room' = [room EXCEPT ![c.b] = Start]
               /\ key' = [key EXCEPT ![c.b] = HEAD]
               /\ Answer(t, Done)

(* An iterator stands before the first entry, on one, or behind the last.  *)
Step(t, c, k) ==
  /\ key' = [key EXCEPT ![c.b] = k]
  /\ Answer(t, Outcome("ok", IF k \in {HEAD, TAIL} THEN <<>> ELSE <<items[c.b][k + 1]>>, 0))
  /\ UNCHANGED <<items, room>>

Next(t, c) == Step(t, c, IF key[c.b] + 1 < Len(items[c.b]) THEN key[c.b] + 1 ELSE TAIL)
Prev(t, c) == Step(t, c, CASE key[c.b] = HEAD -> HEAD
                           [] key[c.b] = TAIL -> Len(items[c.b]) - 1
                           [] OTHER -> key[c.b] - 1)

Respond(t) ==
  LET c == call[t] IN
  /\ c # Nil
  /\ \/ c.op = "push_head" /\ PushHead(t, c)
     \/ c.op = "push_tail" /\ Add(t, c, Len(items[c.b]))
     \/ c.op = "insert" /\ Add(t, c, c.pos)
     \/ c.op \in {"pop_head", "pop_tail"} /\ Pop(t, c)
     \/ c.op = "cat" /\ Cat(t, c)
     \/ c.op = "stream" /\ Stream(t, c)
     \/ c.op = "len" /\ Length(t, c)
     \/ c.op = "renew" /\ Renew(t, c)
     \/ c.op = "iter" /\ Step(t, c, HEAD)
     \/ c.op = "next" /\ Next(t, c)
     \/ c.op = "prev" /\ Prev(t, c)

GNext == \E t \in Threads : Respond(t) \/ \E c \in CallsOf[t] : Request(t, c)

GSpec == GInit /\ [][GNext]_gvars
=============================================================================
