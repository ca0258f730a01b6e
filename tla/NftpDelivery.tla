--------------------------- MODULE NftpDelivery ---------------------------
(* The receiver as an implementation of Delivery: a block counts as        *)
(* collected once it is in the part file or in the cache.                  *)
EXTENDS NftpReceiver

Collected(v) ==
  LET id == FileId[NameOf[v]] IN
  IF InProcess(id) /\ files[id].ver = v THEN CollectedOf(files[id]) ELSE {-1}

Copies(v) == Cardinality({x \in Dirs \X SavesOf(NameOf[v]) :
                            disk[x] = Content(v)})

D == INSTANCE Delivery WITH
       Files <- Versions, Idle <- {-1},
       got <- [v \in Versions |-> Collected(v)],
       copies <- [v \in Versions |-> Copies(v)]

(* Each transfer of a file leaves exactly one intact copy, made by the     *)
(* step that gets the last missing block and by no other step (handler,    *)
(* FILE and END, 499-600).                                                 *)
DeliversOnce == D!DSpec
=============================================================================
