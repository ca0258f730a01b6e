---------------------------- MODULE MCCallback ----------------------------
(* Small instances of NftpCallback.  A version is <<name, blocks, tag>>.   *)
EXTENDS NftpCallback, TLC

ThreeAndOne == {<<"a", 3, "x">>, <<"b", 1, "x">>}

MCNameOf == [v \in Versions |-> v[1]]
MCBlocks == [v \in Versions |-> v[2]]
ZeroFileId == [n \in Names |-> IF n = "a" THEN 1 ELSE 0]
MCSuffixed == [n \in Names, k \in 1..MaxSuffix |-> n \o "_0" \o ToString(k)]
MCPartOf == [s \in SaveNames |-> s \o ".part"]
=============================================================================
