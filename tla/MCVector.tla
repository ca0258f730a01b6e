------------------------------ MODULE MCVector ------------------------------
(* Small instances of Vector.                                              *)
EXTENDS Vector

Push == [op : {"push_head", "push_tail"}, e : Elems]
OwnEntry == [p |-> "x", q |-> "y"]
PopAny == [op : {"pop_head", "pop_tail"}]
Inner == [op : {"insert"}, e : Elems, pos : 0..Cap]
         \cup [op : {"delete", "get"}, pos : (-1)..Cap]
         \cup [op : {"getidx"}, e : Elems]

(* p and q add at the ends, each entries of its own; a single thread takes *)
(* entries out, and makes the calls that need the vector for itself.       *)
OnePopper == [t \in Threads |->
  IF t = "c" THEN PopAny \cup Inner ELSE {c \in Push : c.e = OwnEntry[t]}]
TwoPoppers == [t \in Threads |-> IF t = "p" THEN Push ELSE PopAny]
=============================================================================
