------------------------------- MODULE MCIovs -------------------------------
(* Small instances of Iovs.                                                *)
EXTENDS Iovs

SizeOf == [e \in Elems |-> IF e = "x" THEN 1 ELSE 2]

(* p puts messages together in "all", from "body" and what it adds; q      *)
(* reads and empties "all", walks over it, and joins "body" to "copy".     *)
Makers == [t \in Threads |->
  IF t = "p"
    THEN [op : {"push_head", "push_tail"}, b : {"all"}, e : {"y"}]
         \cup [op : {"insert"}, b : {"all"}, e : {"y"}, pos : {0, 1, Cap}]
         \cup [op : {"push_tail"}, b : {"body"}, e : {"x"}]
         \cup [op : {"cat"}, b : {"all"}, src : {"body"}]
         \cup [op : {"renew"}, b : {"body"}]
    ELSE [op : {"pop_head", "pop_tail", "stream", "iter", "next", "prev", "len"}, b : {"all"}]
         \cup [op : {"cat"}, b : {"copy"}, src : {"body"}]
         \cup [op : {"renew"}, b : {"all", "copy"}]]

(* One pushes onto the buffer that the other copies from.                  *)
PushMeanwhile == [t \in Threads |->
  IF t = "p" THEN [op : {"push_tail"}, b : {"body"}, e : {"x"}]
             ELSE [op : {"cat"}, b : {"copy"}, src : {"body"}]]

(* Two threads that join the same two buffers.                             *)
BothWays == [t \in Threads |->
  IF t = "p" THEN [op : {"cat"}, b : {"all"}, src : {"body"}]
             ELSE [op : {"cat"}, b : {"body"}, src : {"all"}]]
=============================================================================
