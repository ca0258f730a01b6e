----------------------------- MODULE Delivery -----------------------------
(***************************************************************************)
(* What a receiver promises, with no disk, cache or order in sight: it     *)
(* collects the set of blocks of an announced file, and the step that      *)
(* completes the set leaves exactly one more intact copy.  A transfer that *)
(* is dropped, by a call or by a crash, leaves none, except that a crash   *)
(* may come just after the copy was made.                                  *)
(***************************************************************************)
EXTENDS Integers

CONSTANTS Files,    \* the files that may be sent
          Blocks,   \* [Files -> Nat \ {0}]
          Idle      \* no transfer of the file is open

VARIABLES got,      \* the blocks collected in the open transfer, or Idle
          copies    \* how many intact copies were delivered

dvars == <<got, copies>>

Seqs(f) == 0..(Blocks[f] - 1)

DInit == /\ got = [f \in Files |-> Idle]
         /\ copies = [f \in Files |-> 0]

(* An announcement opens a transfer; repeated, it starts over.             *)
Announce(f) == /\ got' = [got EXCEPT ![f] = {}]
               /\ UNCHANGED copies

Collect(f, i) == /\ got[f] # Idle /\ i \in Seqs(f)
                 /\ got[f] \cup {i} # Seqs(f)
                 /\ got' = [got EXCEPT ![f] = @ \cup {i}]
                 /\ UNCHANGED copies

Deliver(f, i) == /\ got[f] # Idle /\ i \in Seqs(f)
                 /\ got[f] \cup {i} = Seqs(f)
                 /\ got' = [got EXCEPT ![f] = Idle]
                 /\ copies' = [copies EXCEPT ![f] = @ + 1]

Abandon(f) == /\ got' = [got EXCEPT ![f] = Idle]
              /\ UNCHANGED copies

(* The process goes, and every open transfer with it.                      *)
Halt == /\ got' = [f \in Files |-> Idle]
        /\ \/ UNCHANGED copies
           \/ \E f \in Files : \E i \in Seqs(f) :
                /\ got[f] # Idle /\ got[f] \cup {i} = Seqs(f)
                /\ copies' = [copies EXCEPT ![f] = @ + 1]

DNext == \/ Halt
         \/ \E f \in Files :
              \/ Announce(f) \/ Abandon(f)
              \/ \E i \in Seqs(f) : Collect(f, i) \/ Deliver(f, i)

DSpec == DInit /\ [][DNext]_dvars
=============================================================================
