--------------------------- MODULE NftpTransfer ---------------------------
(***************************************************************************)
(* A sender and a receiver of NFTP and the network between them: the       *)
(* sending half of src/src/proto.c (nftp_proto_maker, the GIVEME handler   *)
(* and the table senderfiles), the receiver of NftpReceiver, and the two   *)
(* applications that drive them as README.md and test/proto.c do: the      *)
(* sender says HELLO, pushes its blocks once it has the ACK, and answers   *)
(* GIVEME; the receiver polls recv_status and asks for the block it lacks. *)
(*                                                                         *)
(* The network is the set of messages under way.  It delivers in any       *)
(* order, loses any message, and duplicates those it may.                  *)
(***************************************************************************)
EXTENDS NftpDelivery

CONSTANTS Paths,       \* the sender's files, by path
          BaseName,    \* [Paths -> Names], nftp_file_bname
          Duplicated,  \* the types of message the network may duplicate
          MaxHello,    \* bound of the model on the HELLOs the sender makes
          MaxEdits     \* bound of the model on edits of the sender's files

VARIABLES source,       \* path -> the version of the file there now
          senderfiles,  \* hash table: id -> path of the last HELLO, or Nil
          acked,        \* paths whose ACK the sending application has
          net,          \* messages under way
          hellos, edits \* how many HELLOs were made, and edits

sender == <<source, senderfiles, acked, edits>>
tvars == <<vars, sender, net, hellos>>

HelloMsg(v) == [type |-> "HELLO", ver |-> v]
AckMsg(n) == [type |-> "ACK", name |-> n]
BlockMsg(v, i) == [type |-> "BLOCK", ver |-> v, seq |-> i]
GivemeMsg(n, i) == [type |-> "GIVEME", name |-> n, seq |-> i]

ASSUME PathsAssumption ==
  /\ BaseName \in [Paths -> Names] /\ Nil \notin Paths
  /\ Duplicated \subseteq {"HELLO", "ACK", "BLOCK", "GIVEME"}
  /\ MaxHello \in Nat /\ MaxEdits \in Nat

TInit ==
  /\ Init
  /\ source \in [Paths -> Versions]
  /\ \A p \in Paths : NameOf[source[p]] = BaseName[p]
  /\ senderfiles = [id \in Ids |-> Nil]
  /\ acked = {} /\ net = {} /\ hellos = 0 /\ edits = 0

-----------------------------------------------------------------------------
(* The sender.                                                             *)

(* Mutant: a file of the same name is erased from senderfiles, and the new *)
(* one not put in.                                                         *)
SendHelloErases(p) ==
  LET id == FileId[BaseName[p]] IN
  /\ hellos < MaxHello
  /\ hellos' = hellos + 1
  /\ senderfiles' = [senderfiles EXCEPT ![id] = IF @ = Nil THEN p ELSE Nil]
  /\ net' = net \cup {HelloMsg(source[p])}
  /\ UNCHANGED <<vars, source, acked, edits>>

(* nftp_proto_maker for HELLO; a file of the same base name sent earlier   *)
(* is covered in senderfiles.                                              *)
SendHello(p) ==
  /\ hellos < MaxHello
  /\ hellos' = hellos + 1
  /\ senderfiles' = [senderfiles EXCEPT ![FileId[BaseName[p]]] = p]
  /\ net' = net \cup {HelloMsg(source[p])}
  /\ UNCHANGED <<vars, source, acked, edits>>

(* Mutant: the last block counts as past the end.                          *)
AllButLast(p, i) ==
  IF i + 1 < Blocks[source[p]] THEN {BlockMsg(source[p], i)} ELSE {}

(* Mutant: one block past the end is made, an empty one.                   *)
OneTooMany(p, i) ==
  IF i <= Blocks[source[p]] THEN {BlockMsg(source[p], i)} ELSE {}

(* nftp_proto_maker for FILE and END reads the file as it is now, and      *)
(* makes nothing of a block past its end.                                  *)
BlocksMade(p, i) ==
  IF i < Blocks[source[p]] THEN {BlockMsg(source[p], i)} ELSE {}

SendBlock(p, i) ==
  /\ p \in acked
  /\ net' = net \cup BlocksMade(p, i)
  /\ UNCHANGED <<vars, sender, hellos>>

(* Somebody writes to the file while it is being sent.                     *)
Edit(p) ==
  /\ edits < MaxEdits /\ edits' = edits + 1
  /\ \E v \in Versions :
       /\ NameOf[v] = BaseName[p]
       /\ source' = [source EXCEPT ![p] = v]
  /\ UNCHANGED <<vars, senderfiles, acked, net, hellos>>

-----------------------------------------------------------------------------
(* The network hands a message over, and may keep another copy of it.      *)

Remains(m) == {net \ {m}} \cup (IF m.type \in Duplicated THEN {net} ELSE {})

Lose(m) == /\ net' = net \ {m}
           /\ UNCHANGED <<vars, sender, hellos>>

HandleHello(m) ==
  /\ m.type = "HELLO"
  /\ Hello(m.ver)
  /\ \E rest \in Remains(m) :
       net' = rest \cup (IF out'.ack THEN {AckMsg(NameOf[m.ver])} ELSE {})
  /\ UNCHANGED <<sender, hellos>>

HandleBlock(m) ==
  /\ m.type = "BLOCK"
  /\ Block(m.ver, m.seq)
  /\ net' \in Remains(m)
  /\ UNCHANGED <<sender, hellos>>

(* The handler drops an ACK; the application takes it as its go-ahead.     *)
HandleAck(m) ==
  /\ m.type = "ACK"
  /\ acked' = acked \cup {p \in Paths : senderfiles[FileId[m.name]] = p}
  /\ net' \in Remains(m)
  /\ UNCHANGED <<vars, source, senderfiles, edits, hellos>>

HandleGiveme(m) ==
  LET p == senderfiles[FileId[m.name]] IN
  /\ m.type = "GIVEME"
  /\ \E rest \in Remains(m) :
       net' = rest \cup (IF p = Nil THEN {} ELSE BlocksMade(p, m.seq))
  /\ UNCHANGED <<vars, sender, hellos>>

Handle(m) == \/ HandleHello(m) \/ HandleBlock(m)
             \/ HandleAck(m) \/ HandleGiveme(m)

-----------------------------------------------------------------------------
(* The receiving application: recv_status, then a GIVEME for what it says. *)

RecvStatus(n) ==
  LET c == files[FileId[n]] IN
  IF InProcess(FileId[n]) THEN [rv |-> "ok", cap |-> c.cap, nextseq |-> c.nextid]
                          ELSE [rv |-> "ERR_HT", cap |-> 0, nextseq |-> -1]

Ask(n) ==
  LET st == RecvStatus(n) IN
  /\ proc = "up" /\ st.rv = "ok" /\ st.nextseq < st.cap
  /\ net' = net \cup {GivemeMsg(n, st.nextseq)}
  /\ UNCHANGED <<vars, sender, hellos>>

Restart == /\ Start \/ Fini \/ (\E n \in Names : RecvStop(n))
           /\ UNCHANGED <<sender, net, hellos>>

TNext ==
  \/ Restart
  \/ \E p \in Paths :
       \/ SendHello(p) \/ Edit(p)
       \/ \E i \in 0..(MaxBlocks - 1) : SendBlock(p, i)
  \/ \E n \in Names : Ask(n)
  \/ \E m \in net : Handle(m) \/ Lose(m)

TSpec == TInit /\ [][TNext]_tvars

(* The applications keep going: the receiver is started and keeps asking.  *)
(* A message that is sent again and again gets through now and then.       *)
Fairness ==
  /\ WF_tvars(Start /\ UNCHANGED <<sender, net, hellos>>)
  /\ \A n \in Names :
       /\ WF_tvars(Ask(n))
       /\ \A i \in 0..(MaxBlocks - 1) :
            SF_tvars(GivemeMsg(n, i) \in net /\ HandleGiveme(GivemeMsg(n, i)))
  /\ \A v \in Versions : \A i \in 0..(MaxBlocks - 1) :
       SF_tvars(BlockMsg(v, i) \in net /\ HandleBlock(BlockMsg(v, i)))

FairSpec == TSpec /\ Fairness

-----------------------------------------------------------------------------
(* A transfer the receiver has opened ends in an intact saved file,        *)
(* whatever the network loses, repeats or reorders and even when the ACK   *)
(* never arrives, as long as the receiver keeps asking (README.md:21,      *)
(* "Support discontinued transmission").                                   *)
OpenedIsSaved ==
  \A v \in Versions :
    (InProcess(FileId[NameOf[v]]) /\ files[FileId[NameOf[v]]].ver = v)
      ~> (Copies(v) > 0)

(* Repeated blocks, requests and acknowledgements never make a second copy *)
(* of a file: there are at most as many as HELLOs were sent.               *)
OneCopyPerHello == \A v \in Versions : Copies(v) <= hellos

(* The sender answers for every file that a receiver has open: a GIVEME    *)
(* from it finds the path in senderfiles.                                  *)
SenderKnowsOpenFiles ==
  \A n \in Names : InProcess(FileId[n]) => senderfiles[FileId[n]] # Nil

(* The blocks a transfer has, in the part file or in the cache.            *)
Pieces(c) ==
  Payload \cap
    ({c.entries[k] : k \in 0..(MaxBlocks - 1)}
     \cup (IF Part(c) = Nil THEN {} ELSE {Part(c)[k] : k \in 1..Len(Part(c))}))

(* As long as nobody edits a file that is sent, what a transfer has and    *)
(* what may still reach it, perhaps left over from an earlier transfer of  *)
(* the file, is of the version its HELLO announced and lies within its     *)
(* entries (proto.c:525 compares no sequence number with cap).             *)
NothingMixed ==
  edits = 0 =>
    \A id \in Ids : InProcess(id) =>
      LET c == files[id] IN
      /\ \A b \in Pieces(c) : b[1] = c.ver
      /\ \A m \in net : m.type = "BLOCK" /\ FileId[NameOf[m.ver]] = id =>
           m.ver = c.ver /\ m.seq < c.cap
=============================================================================
