----------------------------- MODULE FiniteMap -----------------------------
(***************************************************************************)
(* What hashtable/hashtable.c promises: each table is a finite map, a set  *)
(* of bindings with at most one for a key.  A call that finds no memory    *)
(* reports an error or ends the process; it may lose bindings, of its own  *)
(* table only, and never makes one up.                                     *)
(***************************************************************************)
EXTENDS Integers

CONSTANTS Tables, Keys, Vals

VARIABLES map,      \* [Tables -> set of bindings]
          held,     \* the tables that are set up
          starved,  \* an allocation has failed
          up,       \* the process runs
          ret       \* what the last call returned: a code, and bindings

(* The codes of hashtable.h: the caller of ht_erase sees the same 0 when   *)
(* the key was there and when it was not.                                  *)
HT_ERROR == -1
HT_SUCCESS == 0
HT_UPDATED == 1
HT_INSERTED == 0
HT_NOT_FOUND == 0
HT_FOUND == 1

mvars == <<map, held, starved, up, ret>>

Binding(k, v) == [key |-> k, val |-> v]
Of(S, k) == {b \in S : b.key = k}

MInit == /\ map = [t \in Tables |-> {}] /\ held = {}
         /\ starved = FALSE /\ up = TRUE
         /\ ret = <<HT_SUCCESS, {}>>

Answer(code, bs) == ret' = <<code, bs>> /\ UNCHANGED <<starved, up>>
Becomes(t, S) == map' = [map EXCEPT ![t] = S]
BothBecome(s, S, t, T) == map' = [u \in Tables |-> CASE u = s -> S [] u = t -> T
                                                   [] OTHER -> map[u]]

Setup(t) == /\ t \notin held
            /\ held' = held \cup {t}
            /\ Becomes(t, {})
            /\ Answer(HT_SUCCESS, {})

Destroy(t) == /\ t \in held
              /\ held' = held \ {t}
              /\ Becomes(t, {})
              /\ Answer(HT_SUCCESS, {})

Insert(t, k, v) == /\ t \in held
                   /\ Becomes(t, (map[t] \ Of(map[t], k)) \cup {Binding(k, v)})
                   /\ Answer(IF Of(map[t], k) = {} THEN HT_INSERTED ELSE HT_UPDATED, {})
                   /\ UNCHANGED held

Find(t, k) == /\ t \in held
              /\ Answer(IF Of(map[t], k) = {} THEN HT_NOT_FOUND ELSE HT_FOUND, Of(map[t], k))
              /\ UNCHANGED <<map, held>>

Erase(t, k) == /\ t \in held
               /\ Becomes(t, map[t] \ Of(map[t], k))
               /\ Answer(HT_SUCCESS, {})
               /\ UNCHANGED held

Clear(t) == /\ t \in held
            /\ Becomes(t, {})
            /\ ret' = <<HT_SUCCESS, {}>> /\ starved' \in {starved, TRUE}
            /\ UNCHANGED <<held, up>>

Reserve(t) == t \in held /\ Answer(HT_SUCCESS, {}) /\ UNCHANGED <<map, held>>

Iterate(t) == t \in held /\ Answer(HT_SUCCESS, map[t]) /\ UNCHANGED <<map, held>>

(* The count a table keeps for itself may be too high once bindings were   *)
(* lost.                                                                   *)
IsEmpty(t) == /\ t \in held
              /\ \/ Answer(IF map[t] = {} THEN 1 ELSE 0, {})
                 \/ starved /\ Answer(0, {})
              /\ UNCHANGED <<map, held>>

Copy(s, t) == /\ s \in held
              /\ held' = held \cup {t}
              /\ Becomes(t, map[s])
              /\ Answer(HT_SUCCESS, {})

Move(s, t) == /\ s \in held
              /\ held' = (held \cup {t}) \ {s}
              /\ BothBecome(s, {}, t, map[s])
              /\ Answer(HT_SUCCESS, {})

Swap(s, t) == /\ {s, t} \subseteq held
              /\ BothBecome(s, map[t], t, map[s])
              /\ Answer(HT_SUCCESS, {})
              /\ UNCHANGED held

(* A call on t, perhaps a copy of s to it, without the memory it needs.    *)
Fails(s, t) == /\ starved' = TRUE
               /\ \E S \in SUBSET map[s] : Becomes(t, S)
               /\ held \subseteq held' /\ held' \subseteq held \cup {t}
               /\ \/ ret' = <<HT_ERROR, {}>> /\ up' = up
                  \/ ret' = ret /\ up' = FALSE

MNext == /\ up
         /\ \/ \E t \in Tables :
                 \/ Setup(t) \/ Destroy(t) \/ Clear(t)
                 \/ Reserve(t) \/ Iterate(t) \/ IsEmpty(t)
                 \/ \E k \in Keys : Find(t, k) \/ Erase(t, k)
                 \/ \E k \in Keys, v \in Vals : Insert(t, k, v)
            \/ \E s, t \in Tables :
                 \/ Copy(s, t) \/ Move(s, t) \/ Swap(s, t)
                 \/ Fails(s, t)

MSpec == MInit /\ [][MNext]_mvars
=============================================================================
