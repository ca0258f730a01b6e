--------------------------- MODULE NftpCallback ---------------------------
(***************************************************************************)
(* The receiver when the callbacks of the application call the library.    *)
(* The handler of the last block renames the file, runs the callback and   *)
(* only then looks for the registration and erases the context; whatever   *)
(* the callback calls comes in between.  NftpReceiver takes all that for   *)
(* one step.  A callback that runs within a callback makes no calls.       *)
(***************************************************************************)
EXTENDS NftpReceiver

CONSTANT OwnFile   \* whether a callback makes calls about its own file
ASSUME OwnFileAssumption == OwnFile \in BOOLEAN

VARIABLE inside    \* the transfer whose callback is running, or Nil

(* What the handler goes on with after the callback.                       *)
Inside == [name : Names, fcb : {"default", "own", "freed"}]
ASSUME NoInsideAssumption == Nil \notin Inside

cvars == <<vars, inside>>
Running == inside # Nil

CbInit == Init /\ inside = Nil

-----------------------------------------------------------------------------
(* The handler up to the callback.                                         *)

(* The context and the part file once block i of v is in its place.        *)
Placed(v, i) ==
  LET c == files[FileId[NameOf[v]]] IN
  IF i = c.nextid
    THEN {<<AdvancedTo(c, s), Part(c) \o RunUpTo(c, <<v, i>>, s)>> :
            s \in {s \in 1..MaxBlocks : Part(c) # Nil /\ RunEnds(c, s)}}
    ELSE {<<[c EXCEPT !.entries[i] = <<v, i>>], Part(c)>> : j \in {i} \cap 0..(c.cap - 1)}

CallbackOf(d) == IF d.fcb = "own" THEN reg[NameOf[d.ver]] ELSE star

Enters(v, i) ==
  LET id == FileId[NameOf[v]] IN
  /\ proc = "up" /\ InProcess(id) /\ i \in 0..(Blocks[v] - 1)
  /\ \E l \in Placed(v, i) :
       LET d == l[1]  p == l[2] IN
       /\ Renamed(d, p) /\ p = Content(d.ver)
       /\ d.fcb # "freed" /\ CallbackOf(d) # NoCb
       /\ out' = [rv |-> "ok", ack |-> FALSE, saved |-> d.wfname, ran |-> CallbackOf(d)]
       /\ files' = [files EXCEPT ![id] = d]
       /\ inside' = [name |-> NameOf[v], fcb |-> d.fcb]
  /\ UNCHANGED <<proc, star, reg, recvdir>>

-----------------------------------------------------------------------------
(* The calls about name n, and those about none.  While a file with the id *)
(* 0 is still in the table every HELLO is refused, so such a callback      *)
(* handles none.                                                           *)
CallsAbout(n) ==
  \/ RecvStop(n) \/ Unregister(n)
  \/ \E cb \in Callbacks : Register(n, cb)
  \/ \E v \in {v \in Versions : NameOf[v] = n} :
       \/ Hello(v) /\ (Running => FileId[inside.name] # 0)
       \/ \E i \in 0..(MaxBlocks - 1) : Block(v, i) /\ (out'.ran # Nil => Running)

OtherCalls == \/ \E cb \in Callbacks : RegisterDefault(cb)
              \/ \E d \in Dirs : SetRecvdir(d)

(* A registration is freed when it leaves the registry, and its pointer    *)
(* stays in the context on which the handler will go on.                   *)
Meanwhile ==
  inside' = IF proc' # "up" THEN Nil
            ELSE IF inside.fcb = "own" /\ reg'[inside.name] = Nil
                   THEN [inside EXCEPT !.fcb = "freed"] ELSE inside

Allowed(n) == n # inside.name \/ OwnFile

Nested ==
  /\ Running
  /\ \/ \E n \in Names : Allowed(n) /\ CallsAbout(n)
     \/ OtherCalls
     \/ KilledAbout({v \in Versions : Allowed(NameOf[v])})
  /\ Meanwhile

-----------------------------------------------------------------------------
(* The handler after the callback.                                         *)

(* Mutant: the registration is left where it is.                           *)
LeavesEntry ==
  LET id == FileId[inside.name] IN
  /\ inside.fcb # "freed"
  /\ IF InProcess(id) THEN files' = [files EXCEPT ![id] = Nil] /\ UNCHANGED out
                      ELSE out' = Result("ERR_HT") /\ UNCHANGED files
  /\ UNCHANGED <<proc, star, reg, recvdir, disk>>

CleansUp ==
  LET id == FileId[inside.name] IN
  /\ inside.fcb # "freed"
  /\ reg' = IF inside.fcb = "own" THEN [reg EXCEPT ![inside.name] = Nil] ELSE reg
  /\ IF InProcess(id) THEN files' = [files EXCEPT ![id] = Nil] /\ UNCHANGED out
                      ELSE out' = Result("ERR_HT") /\ UNCHANGED files
  /\ UNCHANGED <<proc, star, recvdir, disk>>

(* The registration is freed a second time.                                *)
FreesTwice == inside.fcb = "freed" /\ Aborts /\ UNCHANGED disk

Returns == Running /\ (CleansUp \/ FreesTwice) /\ inside' = Nil

CbNext ==
  \/ /\ ~Running /\ UNCHANGED inside
     /\ Start \/ Fini \/ Killed \/ OtherCalls \/ \E n \in Names : CallsAbout(n)
  \/ /\ ~Running
     /\ \E v \in Versions, i \in 0..(MaxBlocks - 1) : Enters(v, i)
  \/ Nested \/ Returns

CbSpec == CbInit /\ [][CbNext]_cvars

-----------------------------------------------------------------------------
(* As if the transfer was over when its callback began.                    *)
W == INSTANCE NftpReceiver WITH
       files <- IF Running THEN [files EXCEPT ![FileId[inside.name]] = Nil] ELSE files,
       reg <- IF Running /\ inside.fcb = "own"
                THEN [reg EXCEPT ![inside.name] = Nil] ELSE reg

(* The handler may be taken for one step: nothing a callback calls about   *)
(* other files gets between the rename and the clean-up that follows it    *)
(* (handler, 543-598).                                                     *)
AsOneStep == W!Spec
=============================================================================
