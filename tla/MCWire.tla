------------------------------- MODULE MCWire -------------------------------
(* Small instances of Wire, with bytes of three values.                    *)
EXTENDS Wire

(* Up to one byte more than fits into the highest number of blocks of two  *)
(* bytes; and the longest file of blocks of 16.                            *)
SmallSizes == 0..(2 * (U16 - 1))
LargeSizes == {16 * (U16 - 1) - 1}
MidwaySizes == {5}
MCNames == {<<1>>, <<1, 2, 0, 1>>}
MCFileId == [n \in Names |-> IF Len(n) = 1 THEN U32 - 1 ELSE U16]
MCHashOf == [s \in Sizes |-> s % U32]
=============================================================================
