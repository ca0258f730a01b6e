---------------------------- MODULE MCReceiver ----------------------------
(* Small instances of NftpReceiver.  A version is <<name, blocks, tag>>.   *)
EXTENDS NftpDelivery, TLC

OneFile == {<<"a", 3, "x">>}
TwoFiles == {<<"a", 2, "x">>, <<"b", 2, "x">>}
ClashingFiles == {<<"a", 2, "x">>, <<"a_01", 2, "x">>}
TwoVersions == {<<"a", 3, "x">>, <<"a", 2, "y">>}

MCNameOf == [v \in Versions |-> v[1]]
MCBlocks == [v \in Versions |-> v[2]]
MCFileId == [n \in Names |-> IF n = "a" THEN 1 ELSE 2]
MCSuffixed == [n \in Names, k \in 1..MaxSuffix |-> n \o "_0" \o ToString(k)]
MCPartOf == [s \in SaveNames |-> s \o ".part"]
=============================================================================
