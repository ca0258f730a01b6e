---------------------------- MODULE MCTransfer ----------------------------
(* Small instances of NftpTransfer.                                        *)
EXTENDS NftpTransfer, TLC

ThreeBlocks == {<<"a", 3, "x">>}
EditedAndOther == {<<"a", 2, "x">>, <<"a", 1, "y">>, <<"b", 1, "x">>}
SameName == {<<"a", 2, "x">>, <<"a", 2, "y">>}

MCNameOf == [v \in Versions |-> v[1]]
MCBlocks == [v \in Versions |-> v[2]]
MCFileId == [n \in Names |-> IF n = "a" THEN 1 ELSE 2]
MCSuffixed == [n \in Names, k \in 1..MaxSuffix |-> n \o "_0" \o ToString(k)]
MCPartOf == [s \in SaveNames |-> s \o ".part"]
MCBaseName == [p \in Paths |-> IF p \in {"x/a", "y/a"} THEN "a" ELSE "b"]
=============================================================================
