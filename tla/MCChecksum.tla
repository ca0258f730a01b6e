----------------------------- MODULE MCChecksum -----------------------------
(* A small instance of Checksum: bytes of two bits, checksums of two and   *)
(* chunks of three bytes.                                                  *)
EXTENDS Checksum

SeqsUpTo(m) == UNION {[1..n -> Byte] : n \in 0..m}

(* p has anything of up to four bytes, q what takes each of the loops.     *)
Jobs == [t \in Threads |->
  IF t = "p" THEN [data : SeqsUpTo(4), align : 0..(N - 1)]
             ELSE {[data |-> <<{1}, {0}, {}, {0, 1}, {1}, {0}, {0, 1}>>, align |-> 1]}]
=============================================================================
