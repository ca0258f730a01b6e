------------------------ MODULE NftpReceiverProofs ------------------------
(***************************************************************************)
(* Theorems about NftpReceiver, for any names, versions, block counts,     *)
(* directories, callbacks, faults and calls.                               *)
(***************************************************************************)
EXTENDS NftpReceiver, TLAPS

-----------------------------------------------------------------------------
(* Facts about the operators of the model.                                 *)

(* Every name a file may be saved under, and its part file, is on the disk. *)
LEMMA NamesOnDisk ==
  /\ \A n \in Names : SavesOf(n) \subseteq SaveNames
  /\ SaveNames \subseteq FileNames
  /\ \A s \in SaveNames : PartOf[s] \in FileNames
BY DEF SaveNames, FileNames

(* A block that a sender makes is a block the model knows.                 *)
LEMMA BlockIsPayload ==
  ASSUME NEW v \in Versions, NEW i \in 0..(Blocks[v] - 1)
  PROVE  <<v, i>> \in Payload
BY BoundsAssumption DEF Payload

LEMMA IdsOfNames == \A n \in Names : FileId[n] \in Ids
BY DEF Ids

(* The run of blocks a block in order takes along: its length and blocks.  *)
LEMMA RunFacts ==
  ASSUME NEW c \in Ctx, NEW b \in Payload, NEW e, RunEnds(c, e),
         NEW s \in c.nextid..e
  PROVE  /\ RunUpTo(c, b, s) \in Seq(Payload)
         /\ Len(RunUpTo(c, b, s)) = s - c.nextid
         /\ \A j \in 1..(s - c.nextid) :
              RunUpTo(c, b, s)[j] =
                IF j = 1 THEN b ELSE c.entries[c.nextid + j - 1]
<1>1. c.nextid \in Nat /\ e \in Nat /\ s \in Nat /\ s - c.nextid \in Nat
  BY BoundsAssumption DEF Ctx, RunEnds
<1>2. ASSUME NEW j \in 1..(s - c.nextid), j # 1
      PROVE  c.entries[c.nextid + j - 1] \in Payload
  <2>1. c.nextid + j - 1 \in (c.nextid + 1)..(e - 1)
    BY <1>1, <1>2
  <2>2. c.nextid + j - 1 < c.cap /\ c.entries[c.nextid + j - 1] # Nil
    BY <2>1 DEF RunEnds
  <2>3. c.nextid + j - 1 \in 0..(MaxBlocks - 1)
    BY <1>1, <2>1, <2>2, BoundsAssumption DEF Ctx
  <2> QED
    BY <2>2, <2>3 DEF Ctx
<1>3. \A j \in 1..(s - c.nextid) :
        (IF j = 1 THEN b ELSE c.entries[c.nextid + j - 1]) \in Payload
  BY <1>2
<1>4. PICK n \in Nat : n = s - c.nextid
  BY <1>1
<1>5. PICK r : r = [j \in 1..n |-> IF j = 1 THEN b ELSE c.entries[c.nextid + j - 1]]
  OBVIOUS
<1>6. r \in Seq(Payload) /\ Len(r) = n
  BY <1>3, <1>4, <1>5
<1>7. r = RunUpTo(c, b, s)
  BY <1>4, <1>5 DEF RunUpTo
<1> QED
  BY <1>4, <1>5, <1>6, <1>7

(* Taking a run along keeps a context a context.                           *)
LEMMA AdvancedIsCtx ==
  ASSUME NEW c \in Ctx, NEW e, RunEnds(c, e), NEW s \in c.nextid..e
  PROVE  /\ AdvancedTo(c, s) \in Ctx
         /\ AdvancedTo(c, s).nextid = s
         /\ AdvancedTo(c, s).cap = c.cap
         /\ AdvancedTo(c, s).ver = c.ver
         /\ AdvancedTo(c, s).wfname = c.wfname
         /\ AdvancedTo(c, s).fcb = c.fcb
         /\ \A k \in 0..(MaxBlocks - 1) :
              AdvancedTo(c, s).entries[k] =
                IF c.nextid < k /\ k < s THEN Nil ELSE c.entries[k]
<1>1. s \in 0..MaxBlocks
  BY BoundsAssumption DEF Ctx, RunEnds
<1> QED
  BY <1>1 DEF AdvancedTo, Ctx

-----------------------------------------------------------------------------
(* Type correctness.                                                       *)

LEMMA ResultIsOutcome ==
  /\ Result("ok") \in Outcome
  /\ Result("ERR_HT") \in Outcome
  /\ Result("ERR_FILE") \in Outcome
BY DEF Result, Outcome

LEMMA InitTypes == Init => TypeOK
<1> SUFFICES ASSUME Init PROVE TypeOK
  OBVIOUS
<1>1. <<Junk>> \in Data
  BY DEF Data
<1>2. disk \in [Dirs \X FileNames -> Data \cup {Nil}]
  BY <1>1 DEF Init
<1> QED
  BY <1>2, CallbackAssumption, DiskAssumption DEF Init, TypeOK, Result, Outcome

(* Clearing the memory, on whatever disk the process leaves.               *)
LEMMA ClearTypes ==
  ASSUME ClearMemory, proc' \in {"up", "down", "abort"},
         disk' \in [Dirs \X FileNames -> Data \cup {Nil}]
  PROVE  TypeOK'
BY CallbackAssumption, DiskAssumption DEF ClearMemory, TypeOK, Result, Outcome

LEMMA DiskPut ==
  ASSUME TypeOK, NEW s \in FileNames, NEW p \in Data \cup {Nil}
  PROVE  [disk EXCEPT ![At(s)] = p] \in [Dirs \X FileNames -> Data \cup {Nil}]
BY DEF TypeOK, At

LEMMA DiskRename ==
  ASSUME TypeOK, NEW c \in Ctx, NEW p \in Data \cup {Nil}, Renamed(c, p)
  PROVE  disk' \in [Dirs \X FileNames -> Data \cup {Nil}]
BY NamesOnDisk DEF TypeOK, At, Renamed, PartFile, Ctx

LEMMA HelloTypes ==
  ASSUME TypeOK, NEW v \in Versions, Hello(v)
  PROVE  TypeOK'
<1> DEFINE n == NameOf[v]
<1>0. n \in Names /\ FileId[n] \in Ids
  BY NamesAssumption, IdsOfNames
<1>1. CASE HelloRefused
  BY <1>1 DEF HelloRefused, TypeOK, Result, Outcome, mem
<1>2. CASE HelloAccepted(v)
  <2>1. PICK w \in SavesOf(n) :
          /\ CreatePart(w)
          /\ files' = [files EXCEPT ![FileId[n]] = NewCtx(v, w, FcbOf(n))]
    BY <1>2 DEF HelloAccepted
  <2>2. w \in SaveNames
    BY <1>0, NamesOnDisk
  <2>3. disk' \in [Dirs \X FileNames -> Data \cup {Nil}]
    <3>1. <<>> \in Data
      BY DEF Data
    <3> QED
      BY <2>1, <2>2, <3>1, NamesOnDisk, DiskPut DEF CreatePart
  <2>4. NewCtx(v, w, FcbOf(n)) \in Ctx
    BY <2>2, BoundsAssumption DEF NewCtx, Ctx, FcbOf
  <2>5. files' \in [Ids -> Ctx \cup {Nil}]
    BY <1>0, <2>1, <2>4 DEF TypeOK
  <2>6. reg' \in [Names -> Callbacks \cup {Nil}]
    BY <1>0, <1>2 DEF HelloAccepted, RegisterByHello, TypeOK
  <2> QED
    BY <1>2, <2>3, <2>5, <2>6 DEF HelloAccepted, TypeOK, Result, Outcome
<1>3. CASE HelloWriteFails(v)
  BY <1>0, <1>3 DEF HelloWriteFails, RegisterByHello, TypeOK, Result, Outcome
<1>4. CASE HelloNoName(v)
  BY <1>4, ClearTypes DEF HelloNoName, Aborts, TypeOK
<1> QED
  BY <1>1, <1>2, <1>3, <1>4 DEF Hello

LEMMA FinishTypes ==
  ASSUME TypeOK, NEW id \in Ids, NEW c \in Ctx, NEW p \in Data \cup {Nil},
         Finish(id, c, p) \/ FinishAborts(c, p)
  PROVE  TypeOK'
<1>1. PartFile(c) \in FileNames /\ c.wfname \in SaveNames /\ NameOf[c.ver] \in Names
  BY NamesOnDisk, NamesAssumption DEF PartFile, Ctx
<1>2. CASE Received(id, c, p) /\ UNCHANGED <<star, recvdir>>
  BY <1>1, <1>2, DiskPut DEF Received, TypeOK, Result, Outcome
<1>3. CASE RenameFails(id, c, p) /\ UNCHANGED <<star, recvdir>>
  BY <1>1, <1>3, DiskPut DEF RenameFails, TypeOK, Result, Outcome
<1>4. CASE HashRejects(id, c, p) /\ UNCHANGED <<star, recvdir>>
  <2>1. disk' \in [Dirs \X FileNames -> Data \cup {Nil}]
    BY <1>4, DiskRename DEF HashRejects
  <2> QED
    BY <1>1, <1>4, <2>1 DEF HashRejects, TypeOK, Result, Outcome
<1>5. CASE Completes(id, c, p) /\ UNCHANGED <<star, recvdir>>
  <2>1. disk' \in [Dirs \X FileNames -> Data \cup {Nil}]
    BY <1>5, DiskRename DEF Completes
  <2>2. reg' \in [Names -> Callbacks \cup {Nil}]
    BY <1>1, <1>5 DEF Completes, TypeOK
  <2>3. out'.ran \in Callbacks \cup {Nil}
    BY <1>1, <1>5 DEF Completes, TypeOK
  <2> QED
    BY <1>1, <1>5, <2>1, <2>2, <2>3 DEF Completes, TypeOK, Outcome
<1>6. CASE FinishAborts(c, p)
  BY <1>6, DiskRename, ClearTypes DEF FinishAborts, Aborts
<1> QED
  BY <1>2, <1>3, <1>4, <1>5, <1>6 DEF Finish

(* The part file and context after a run of blocks.                        *)
LEMMA RunTypes ==
  ASSUME TypeOK, NEW c \in Ctx, Part(c) # Nil, NEW b \in Payload,
         NEW e, RunEnds(c, e), NEW s \in c.nextid..e
  PROVE  /\ AdvancedTo(c, s) \in Ctx
         /\ Part(c) \o RunUpTo(c, b, s) \in Data
         /\ \A x \in {<<>>, <<Junk>>} : Part(c) \o RunUpTo(c, b, s) \o x \in Data
<1>1. RunUpTo(c, b, s) \in Seq(Payload)
  BY RunFacts
<1>2. RunUpTo(c, b, s) \in Data /\ <<Junk>> \in Data /\ <<>> \in Data
  BY <1>1 DEF Data
<1>3. Part(c) \in Data
  BY NamesOnDisk DEF TypeOK, Part, At, PartFile, Ctx
<1>4. Part(c) \o RunUpTo(c, b, s) \in Data
  BY <1>2, <1>3 DEF Data
<1>5. \A x, y \in Data : x \o y \in Data
  BY DEF Data
<1>6. \A x \in {<<>>, <<Junk>>} : Part(c) \o RunUpTo(c, b, s) \o x \in Data
  BY <1>2, <1>4, <1>5
<1> QED
  BY <1>4, <1>6, AdvancedIsCtx

LEMMA BlockTypes ==
  ASSUME TypeOK, NEW v \in Versions, NEW i \in 0..(MaxBlocks - 1), Block(v, i)
  PROVE  TypeOK'
<1> DEFINE id == FileId[NameOf[v]]
           c == files[id]
<1>0. id \in Ids /\ <<v, i>> \in Payload
  BY NamesAssumption, IdsOfNames DEF Payload
<1>1. InProcess(id) => /\ c \in Ctx
                       /\ PartFile(c) \in FileNames
                       /\ Part(c) \in Data \cup {Nil}
  BY <1>0, NamesOnDisk DEF InProcess, TypeOK, Ctx, PartFile, Part, At
<1>2. CASE BlockUnknown(v)
  BY <1>2 DEF BlockUnknown, TypeOK, Result, Outcome, mem
<1>3. CASE BlockInOrder(v, i)
  <2>1. InProcess(id) /\ i = c.nextid /\ Part(c) # Nil
    BY <1>3 DEF BlockInOrder
  <2>2. PICK s \in 1..MaxBlocks :
          /\ RunEnds(c, s)
          /\ \/ Finish(id, AdvancedTo(c, s), Part(c) \o RunUpTo(c, <<v, i>>, s))
             \/ FinishAborts(AdvancedTo(c, s), Part(c) \o RunUpTo(c, <<v, i>>, s))
    BY <1>3 DEF BlockInOrder
  <2>3. s \in c.nextid..s
    <3>1. c.nextid \in Nat
      BY <1>1, <2>1 DEF Ctx
    <3>2. s \in (c.nextid + 1)..MaxBlocks
      BY <2>2, Zenon DEF RunEnds
    <3> QED BY <3>1, <3>2
  <2>4. /\ AdvancedTo(c, s) \in Ctx
        /\ Part(c) \o RunUpTo(c, <<v, i>>, s) \in Data
    BY <1>0, <1>1, <2>1, <2>2, <2>3, RunTypes
  <2> QED
    BY <1>0, <2>2, <2>4, FinishTypes
<1>4. CASE BlockAppendFails(v, i)
  <2>1. InProcess(id) /\ i = c.nextid
    BY <1>4 DEF BlockAppendFails
  <2>2. CASE UNCHANGED <<files, disk>>
    BY <1>4, <2>2 DEF BlockAppendFails, TypeOK, Result, Outcome
  <2>3. CASE ~UNCHANGED <<files, disk>>
    <3>1. Part(c) # Nil
      BY <1>4, <2>3 DEF BlockAppendFails
    <3>2. PICK s \in c.nextid..(MaxBlocks - 1), short \in {<<>>, <<Junk>>} :
            /\ \E e \in (s + 1)..MaxBlocks : RunEnds(c, e)
            /\ files' = [files EXCEPT ![id] = AdvancedTo(c, s)]
            /\ disk' = [disk EXCEPT ![At(PartFile(c))] =
                          Part(c) \o RunUpTo(c, <<v, i>>, s) \o short]
      BY <1>4, <2>3 DEF BlockAppendFails
    <3>3. PICK e \in (s + 1)..MaxBlocks : RunEnds(c, e)
      BY <3>2
    <3>4. s \in c.nextid..e
      BY <1>1, <2>1, <3>3 DEF Ctx
    <3>5. /\ AdvancedTo(c, s) \in Ctx
          /\ Part(c) \o RunUpTo(c, <<v, i>>, s) \o short \in Data
      BY <1>0, <1>1, <2>1, <3>1, <3>3, <3>4, RunTypes
    <3>6. disk' \in [Dirs \X FileNames -> Data \cup {Nil}]
      BY <1>1, <2>1, <3>2, <3>5, DiskPut
    <3>7. files' \in [Ids -> Ctx \cup {Nil}]
      BY <1>0, <3>2, <3>5 DEF TypeOK
    <3> QED
      BY <1>4, <3>6, <3>7 DEF BlockAppendFails, TypeOK, Result, Outcome
  <2> QED
    BY <2>2, <2>3
<1>5. CASE BlockOutOfOrder(v, i)
  <2>1. [c EXCEPT !.entries[i] = <<v, i>>] \in Ctx
    BY <1>0, <1>1, <1>5 DEF BlockOutOfOrder, Ctx
  <2> QED
    BY <1>0, <1>1, <1>5, <2>1, FinishTypes DEF BlockOutOfOrder
<1>6. CASE BlockPastEnd(v, i)
  BY <1>6, ClearTypes DEF BlockPastEnd, Aborts, TypeOK
<1> QED
  BY <1>2, <1>3, <1>4, <1>5, <1>6 DEF Block

LEMMA RecvStopTypes ==
  ASSUME TypeOK, NEW n \in Names, RecvStop(n)
  PROVE  TypeOK'
<1> DEFINE id == FileId[n]
           c == files[id]
<1>0. id \in Ids
  BY IdsOfNames
<1>1. CASE ~InProcess(id)
  <2>1. out' = Result("ERR_HT") /\ UNCHANGED <<proc, files, star, reg, recvdir, disk>>
    BY <1>1 DEF RecvStop
  <2> QED
    BY <2>1 DEF TypeOK, Result, Outcome
<1>2. CASE InProcess(id)
  <2>1. PartFile(c) \in FileNames
    BY <1>0, <1>2, NamesOnDisk DEF InProcess, TypeOK, Ctx, PartFile
  <2>2. files' \in [Ids -> Ctx \cup {Nil}]
    BY <1>0, <1>2 DEF RecvStop, TypeOK
  <2>3. disk' \in [Dirs \X FileNames -> Data \cup {Nil}]
    BY <1>2, <2>1, DiskPut DEF RecvStop, TypeOK
  <2>4. reg' \in [Names -> Callbacks \cup {Nil}]
    BY <1>2 DEF RecvStop, TypeOK
  <2>5. out' \in Outcome
    <3>1. out' = Result("ok") \/ out' = Result("ERR_FILE")
      BY <1>2 DEF RecvStop
    <3> QED
      BY <3>1, ResultIsOutcome
  <2>6. UNCHANGED <<proc, star, recvdir>>
    BY <1>2 DEF RecvStop
  <2> QED
    BY <2>2, <2>3, <2>4, <2>5, <2>6 DEF TypeOK
<1> QED
  BY <1>1, <1>2

LEMMA KilledTypes ==
  ASSUME TypeOK, Killed
  PROVE  TypeOK'
<1> SUFFICES disk' \in [Dirs \X FileNames -> Data \cup {Nil}]
  BY ClearTypes DEF Killed, KilledAbout, Crash, CrashInHello, CrashInAppend, CrashInFinish, Dies
<1>1. CASE Crash
  BY <1>1 DEF Crash, TypeOK
<1>2. ASSUME NEW v \in Versions, CrashInHello(v)
      PROVE  disk' \in [Dirs \X FileNames -> Data \cup {Nil}]
  <2>1. PICK w \in SavesOf(NameOf[v]) : CreatePart(w)
    BY <1>2 DEF CrashInHello
  <2>2. PartOf[w] \in FileNames
    BY NamesOnDisk, NamesAssumption
  <2>3. <<>> \in Data
    BY DEF Data
  <2> QED
    BY <2>1, <2>2, <2>3, DiskPut DEF CreatePart
<1>3. ASSUME NEW v \in Versions, NEW i \in 0..(Blocks[v] - 1),
             CrashInAppend(v, i) \/ CrashInFinish(v, i)
      PROVE  disk' \in [Dirs \X FileNames -> Data \cup {Nil}]
  <2> DEFINE c == files[FileId[NameOf[v]]]
  <2>1. /\ c \in Ctx /\ Part(c) # Nil /\ PartFile(c) \in FileNames
        /\ <<v, i>> \in Payload
    BY <1>3, NamesAssumption, IdsOfNames, BlockIsPayload, NamesOnDisk
       DEF CrashInAppend, CrashInFinish, InProcess, TypeOK, Ctx, PartFile
  <2>2. CASE CrashInAppend(v, i)
    <3>1. PICK e \in 1..MaxBlocks, short \in {<<>>, <<Junk>>} :
            /\ RunEnds(c, e)
            /\ \E s \in c.nextid..e :
                 disk' = [disk EXCEPT ![At(PartFile(c))] =
                            Part(c) \o RunUpTo(c, <<v, i>>, s) \o short]
      BY <2>2 DEF CrashInAppend
    <3>2. PICK s \in c.nextid..e :
            disk' = [disk EXCEPT ![At(PartFile(c))] =
                       Part(c) \o RunUpTo(c, <<v, i>>, s) \o short]
      BY <3>1
    <3>3. Part(c) \o RunUpTo(c, <<v, i>>, s) \o short \in Data
      BY <2>1, <3>1, RunTypes
    <3> QED
      BY <2>1, <3>2, <3>3, DiskPut
  <2>3. CASE CrashInFinish(v, i)
    <3>1. PICK s \in 1..MaxBlocks :
            /\ RunEnds(c, s)
            /\ Renamed(AdvancedTo(c, s), Part(c) \o RunUpTo(c, <<v, i>>, s))
      BY <2>3 DEF CrashInFinish
    <3>2. s \in c.nextid..s
      BY <2>1, <3>1 DEF RunEnds, Ctx
    <3>3. /\ AdvancedTo(c, s) \in Ctx
          /\ Part(c) \o RunUpTo(c, <<v, i>>, s) \in Data
      BY <2>1, <3>1, <3>2, RunTypes
    <3> QED
      BY <3>1, <3>3, DiskRename
  <2> QED
    BY <1>3, <2>2, <2>3
<1> QED
  BY <1>1, <1>2, <1>3 DEF Killed, KilledAbout

LEMMA TypeStep == TypeOK /\ [Next]_vars => TypeOK'
<1> SUFFICES ASSUME TypeOK, [Next]_vars PROVE TypeOK'
  OBVIOUS
<1>1. CASE Start
  BY <1>1 DEF Start, TypeOK, mem
<1>2. CASE Fini
  BY <1>2, ClearTypes DEF Fini, TypeOK
<1>3. CASE Killed
  BY <1>3, KilledTypes
<1>4. ASSUME NEW n \in Names, RecvStop(n) PROVE TypeOK'
  BY <1>4, RecvStopTypes
<1>5. ASSUME NEW n \in Names, Unregister(n) PROVE TypeOK'
  <2>1. \A id \in Ids : files[id] \in Ctx =>
          [files[id] EXCEPT !.fcb = "freed"] \in Ctx
    BY DEF Ctx
  <2>2. files' \in [Ids -> Ctx \cup {Nil}]
    BY <1>5, <2>1 DEF Unregister, InProcess, TypeOK
  <2> QED
    BY <1>5, <2>2 DEF Unregister, TypeOK, Result, Outcome
<1>6. ASSUME NEW n \in Names, NEW cb \in Callbacks, Register(n, cb) PROVE TypeOK'
  <2>1. reg' = reg \/ reg' = [reg EXCEPT ![n] = cb]
    BY <1>6 DEF Register
  <2>2. \E rv \in {"ok", "ERR_HT", "ERR_OVERFLOW"} : out' = Result(rv)
    BY <1>6 DEF Register
  <2>3. UNCHANGED <<proc, files, star, recvdir, disk>>
    BY <1>6 DEF Register
  <2> QED
    BY <2>1, <2>2, <2>3 DEF TypeOK, Result, Outcome
<1>7. ASSUME NEW cb \in Callbacks, RegisterDefault(cb) PROVE TypeOK'
  BY <1>7 DEF RegisterDefault, TypeOK, Result, Outcome
<1>8. ASSUME NEW d \in Dirs, SetRecvdir(d) PROVE TypeOK'
  BY <1>8 DEF SetRecvdir, TypeOK, Result, Outcome
<1>9. ASSUME NEW v \in Versions, Hello(v) PROVE TypeOK'
  BY <1>9, HelloTypes
<1>10. ASSUME NEW v \in Versions, NEW i \in 0..(MaxBlocks - 1), Block(v, i)
       PROVE  TypeOK'
  BY <1>10, BlockTypes
<1>11. CASE UNCHANGED vars
  BY <1>11 DEF vars, TypeOK
<1> QED
  BY <1>1, <1>2, <1>3, <1>4, <1>5, <1>6, <1>7, <1>8, <1>9, <1>10, <1>11 DEF Next

(* Every variable keeps its type, whatever is called, sent, lost or failing. *)
THEOREM TypeCorrect == Spec => []TypeOK
<1>1. Init => TypeOK
  BY InitTypes
<1>2. TypeOK /\ [Next]_vars => TypeOK'
  BY TypeStep
<1> QED
  BY <1>1, <1>2, PTL DEF Spec

-----------------------------------------------------------------------------
(* Contexts are well formed: no hypothesis on names, faults or calls.      *)

(* Blocks of the same file id are blocks of the same name.                 *)
LEMMA CtxBlock ==
  ASSUME NEW v \in Versions, NEW i \in 0..(MaxBlocks - 1), NEW c \in Ctx,
         CtxOk(FileId[NameOf[v]], c)
  PROVE  BlockOf(c, <<v, i>>, i)
<1>1. NameOf[v] \in Names /\ NameOf[c.ver] \in Names
  BY NamesAssumption DEF Ctx
<1>2. NameOf[v] = NameOf[c.ver]
  BY <1>1, NamesAssumption DEF CtxOk
<1> QED
  BY <1>2 DEF BlockOf, Payload

LEMMA AdvancedCtxOk ==
  ASSUME NEW id \in Ids, NEW c \in Ctx, CtxOk(id, c),
         NEW e, RunEnds(c, e), NEW s \in c.nextid..e
  PROVE  CtxOk(id, AdvancedTo(c, s))
BY AdvancedIsCtx DEF CtxOk, BlockOf

LEMMA StoredCtxOk ==
  ASSUME NEW v \in Versions, NEW i \in 0..(MaxBlocks - 1), NEW c \in Ctx,
         CtxOk(FileId[NameOf[v]], c)
  PROVE  LET d == [c EXCEPT !.entries[i] = <<v, i>>] IN
         /\ d \in Ctx
         /\ d.nextid = c.nextid /\ d.cap = c.cap /\ d.ver = c.ver
         /\ d.wfname = c.wfname
         /\ CtxOk(FileId[NameOf[v]], d)
<1> DEFINE d == [c EXCEPT !.entries[i] = <<v, i>>]
<1>1. /\ d \in Ctx
      /\ d.nextid = c.nextid /\ d.cap = c.cap /\ d.ver = c.ver
      /\ d.wfname = c.wfname
      /\ d.entries = [c.entries EXCEPT ![i] = <<v, i>>]
  BY DEF Ctx, Payload
<1>2. \A k \in 0..(MaxBlocks - 1) :
        d.entries[k] = IF k = i THEN <<v, i>> ELSE c.entries[k]
  BY <1>1 DEF Ctx
<1>3. BlockOf(c, <<v, i>>, i)
  BY CtxBlock
<1>4. \A k \in 0..(MaxBlocks - 1) :
        d.entries[k] # Nil => BlockOf(d, d.entries[k], k)
  BY <1>1, <1>2, <1>3 DEF CtxOk, BlockOf
<1> QED
  BY <1>1, <1>4 DEF CtxOk

(* The steps of a block leave what they leave in a well formed context.    *)
LEMMA FinishCtxs ==
  ASSUME TypeOK, CtxsOk, NEW id \in Ids, NEW c \in Ctx, CtxOk(id, c), NEW p,
         Finish(id, c, p) \/ FinishAborts(c, p)
  PROVE  CtxsOk'
<1>1. CASE FinishAborts(c, p)
  BY <1>1 DEF FinishAborts, Aborts, ClearMemory, CtxsOk, InProcess
<1>2. CASE Finish(id, c, p)
  <2>1. files' = [files EXCEPT ![id] = c] \/ files' = [files EXCEPT ![id] = Nil]
    BY <1>2 DEF Finish, Received, RenameFails, HashRejects, Completes
  <2> QED
    BY <2>1 DEF TypeOK, CtxsOk, InProcess
<1> QED
  BY <1>1, <1>2

LEMMA HelloCtxs ==
  ASSUME TypeOK, CtxsOk, NEW v \in Versions, Hello(v)
  PROVE  CtxsOk'
<1>1. CASE HelloRefused
  BY <1>1 DEF HelloRefused, mem, CtxsOk, InProcess
<1>2. CASE HelloAccepted(v)
  <2> DEFINE id == FileId[NameOf[v]]
  <2>1. PICK w \in SavesOf(NameOf[v]) :
          files' = [files EXCEPT ![id] = NewCtx(v, w, FcbOf(NameOf[v]))]
    BY <1>2 DEF HelloAccepted
  <2>2. CtxOk(id, NewCtx(v, w, FcbOf(NameOf[v])))
    BY DEF CtxOk, NewCtx
  <2> QED
    BY <2>1, <2>2 DEF TypeOK, CtxsOk, InProcess
<1>3. CASE HelloWriteFails(v)
  BY <1>3 DEF HelloWriteFails, CtxsOk, InProcess
<1>4. CASE HelloNoName(v)
  BY <1>4 DEF HelloNoName, Aborts, ClearMemory, CtxsOk, InProcess
<1> QED
  BY <1>1, <1>2, <1>3, <1>4 DEF Hello

LEMMA BlockCtxs ==
  ASSUME TypeOK, CtxsOk, NEW v \in Versions, NEW i \in 0..(MaxBlocks - 1),
         Block(v, i)
  PROVE  CtxsOk'
<1> DEFINE id == FileId[NameOf[v]]
           c == files[id]
<1>0. id \in Ids
  BY NamesAssumption, IdsOfNames
<1>1. InProcess(id) => c \in Ctx /\ CtxOk(id, c)
  BY <1>0 DEF InProcess, TypeOK, CtxsOk
<1>2. CASE BlockUnknown(v)
  BY <1>2 DEF BlockUnknown, mem, CtxsOk, InProcess
<1>3. CASE BlockInOrder(v, i)
  <2>1. InProcess(id)
    BY <1>3 DEF BlockInOrder
  <2>2. PICK s \in 1..MaxBlocks :
          /\ RunEnds(c, s)
          /\ \/ Finish(id, AdvancedTo(c, s), Part(c) \o RunUpTo(c, <<v, i>>, s))
             \/ FinishAborts(AdvancedTo(c, s), Part(c) \o RunUpTo(c, <<v, i>>, s))
    BY <1>3 DEF BlockInOrder
  <2>3. s \in c.nextid..s
    BY <1>1, <2>1, <2>2 DEF RunEnds, Ctx
  <2>4. AdvancedTo(c, s) \in Ctx /\ CtxOk(id, AdvancedTo(c, s))
    BY <1>0, <1>1, <2>1, <2>2, <2>3, AdvancedIsCtx, AdvancedCtxOk
  <2> QED
    BY <1>0, <2>2, <2>4, FinishCtxs
<1>4. CASE BlockAppendFails(v, i)
  <2>1. InProcess(id)
    BY <1>4 DEF BlockAppendFails
  <2>2. CASE UNCHANGED files
    BY <2>2 DEF CtxsOk, InProcess
  <2>3. CASE ~UNCHANGED files
    <3>1. PICK s \in c.nextid..(MaxBlocks - 1) :
            /\ \E e \in (s + 1)..MaxBlocks : RunEnds(c, e)
            /\ files' = [files EXCEPT ![id] = AdvancedTo(c, s)]
      BY <1>4, <2>3 DEF BlockAppendFails
    <3>2. PICK e \in (s + 1)..MaxBlocks : RunEnds(c, e)
      BY <3>1
    <3>3. s \in c.nextid..e
      BY <1>1, <2>1, <3>2 DEF Ctx
    <3>4. CtxOk(id, AdvancedTo(c, s))
      BY <1>0, <1>1, <2>1, <3>2, <3>3, AdvancedCtxOk
    <3> QED
      BY <1>0, <3>1, <3>4 DEF TypeOK, CtxsOk, InProcess
  <2> QED
    BY <2>2, <2>3
<1>5. CASE BlockOutOfOrder(v, i)
  <2>1. InProcess(id)
    BY <1>5 DEF BlockOutOfOrder
  <2>2. /\ [c EXCEPT !.entries[i] = <<v, i>>] \in Ctx
        /\ CtxOk(id, [c EXCEPT !.entries[i] = <<v, i>>])
    BY <1>1, <2>1, StoredCtxOk
  <2> QED
    BY <1>0, <1>5, <2>2, FinishCtxs DEF BlockOutOfOrder
<1>6. CASE BlockPastEnd(v, i)
  BY <1>6 DEF BlockPastEnd, Aborts, ClearMemory, CtxsOk, InProcess
<1> QED
  BY <1>2, <1>3, <1>4, <1>5, <1>6 DEF Block

(* The steps that clear the table, and those that only mark an entry.      *)
LEMMA CtxsStep == TypeOK /\ CtxsOk /\ [Next]_vars => CtxsOk'
<1> SUFFICES ASSUME TypeOK, CtxsOk, [Next]_vars PROVE CtxsOk'
  OBVIOUS
<1>1. ASSUME UNCHANGED files PROVE CtxsOk'
  BY <1>1 DEF CtxsOk, InProcess
<1>2. ASSUME ClearMemory PROVE CtxsOk'
  BY <1>2 DEF ClearMemory, CtxsOk, InProcess
<1>3. CASE Start \/ UNCHANGED vars
  BY <1>1, <1>3 DEF Start, mem, vars
<1>4. CASE Fini \/ Killed
  BY <1>2, <1>4 DEF Fini, Killed, KilledAbout, Crash, CrashInHello, CrashInAppend,
                    CrashInFinish, Dies
<1>5. ASSUME NEW n \in Names, RecvStop(n) PROVE CtxsOk'
  <2>1. UNCHANGED files \/ files' = [files EXCEPT ![FileId[n]] = Nil]
    BY <1>5 DEF RecvStop
  <2> QED
    BY <2>1 DEF TypeOK, CtxsOk, InProcess
<1>6. ASSUME NEW n \in Names, Unregister(n) PROVE CtxsOk'
  <2> SUFFICES ASSUME NEW id \in Ids, InProcess(id)' PROVE CtxOk(id, files[id])'
    BY DEF CtxsOk
  <2>1. /\ InProcess(id)
        /\ \/ files'[id] = files[id]
           \/ files'[id] = [files[id] EXCEPT !.fcb = "freed"]
    BY <1>6 DEF Unregister, InProcess
  <2>2. CtxOk(id, files[id]) /\ files[id] \in Ctx
    BY <2>1 DEF CtxsOk, TypeOK, InProcess
  <2>3. /\ files'[id].ver = files[id].ver /\ files'[id].cap = files[id].cap
        /\ files'[id].wfname = files[id].wfname
        /\ files'[id].entries = files[id].entries
    BY <2>1, <2>2 DEF Ctx
  <2> QED
    BY <2>2, <2>3 DEF CtxOk, BlockOf
<1>7. ASSUME NEW n \in Names, NEW cb \in Callbacks, Register(n, cb) PROVE CtxsOk'
  BY <1>1, <1>7 DEF Register
<1>8. ASSUME NEW cb \in Callbacks, RegisterDefault(cb) PROVE CtxsOk'
  BY <1>1, <1>8 DEF RegisterDefault
<1>9. ASSUME NEW d \in Dirs, SetRecvdir(d) PROVE CtxsOk'
  BY <1>1, <1>9 DEF SetRecvdir
<1>10. ASSUME NEW v \in Versions, Hello(v) PROVE CtxsOk'
  BY <1>10, HelloCtxs
<1>11. ASSUME NEW v \in Versions, NEW i \in 0..(MaxBlocks - 1), Block(v, i)
       PROVE  CtxsOk'
  BY <1>11, BlockCtxs
<1> QED
  BY <1>3, <1>4, <1>5, <1>6, <1>7, <1>8, <1>9, <1>10, <1>11 DEF Next

-----------------------------------------------------------------------------
(* Files of different names stay apart on the disk when no name is another *)
(* one's suffixed name or part file, and when the directory is not changed *)
(* under a transfer.                                                       *)
CleanNames ==
  /\ \A m, n \in Names : m # n => SavesOf(m) \cap SavesOf(n) = {}
  /\ \A s, t \in SaveNames : PartOf[s] # t

LEMMA FilesApart ==
  ASSUME CleanNames, NEW i, NEW j, i # j,
         NEW c \in Ctx, CtxOk(i, c), NEW e \in Ctx, CtxOk(j, e)
  PROVE  /\ PartFile(c) # PartFile(e)
         /\ c.wfname # e.wfname
         /\ PartFile(c) # e.wfname
<1>1. NameOf[c.ver] \in Names /\ NameOf[e.ver] \in Names
  BY NamesAssumption DEF Ctx
<1>2. NameOf[c.ver] # NameOf[e.ver]
  BY DEF CtxOk
<1>3. c.wfname # e.wfname
  BY <1>1, <1>2 DEF CleanNames, CtxOk
<1> QED
  BY <1>3, DiskAssumption DEF CleanNames, PartFile, Ctx

(* What a step of one transfer may write: its part file, and with the part *)
(* file gone, its target.                                                  *)
Writes(c, p) ==
  \/ disk' = [disk EXCEPT ![At(PartFile(c))] = p]
  \/ disk' = [disk EXCEPT ![At(PartFile(c))] = Nil, ![At(c.wfname)] = p]

LEMMA OthersUntouched ==
  ASSUME CleanNames, TypeOK,
         NEW i, NEW j, i # j, NEW c \in Ctx, CtxOk(i, c),
         NEW e \in Ctx, CtxOk(j, e), NEW p, Writes(c, p)
  PROVE  /\ disk'[At(PartFile(e))] = disk[At(PartFile(e))]
         /\ disk'[At(e.wfname)] = disk[At(e.wfname)]
<1>1. /\ PartFile(c) # PartFile(e) /\ c.wfname # e.wfname
      /\ PartFile(c) # e.wfname /\ c.wfname # PartFile(e)
  BY FilesApart, DiskAssumption DEF CleanNames, PartFile, Ctx
<1>2. /\ At(PartFile(c)) # At(PartFile(e)) /\ At(c.wfname) # At(e.wfname)
      /\ At(PartFile(c)) # At(e.wfname) /\ At(c.wfname) # At(PartFile(e))
  BY <1>1 DEF At
<1>3. /\ At(PartFile(e)) \in Dirs \X FileNames
      /\ At(e.wfname) \in Dirs \X FileNames
  BY NamesOnDisk DEF TypeOK, At, PartFile, Ctx
<1> QED
  BY <1>2, <1>3 DEF TypeOK, Writes

(* A transfer's own part file and target after such a step.                *)
LEMMA OwnFiles ==
  ASSUME CleanNames, TypeOK, NEW c \in Ctx, NEW p
  PROVE  /\ disk' = [disk EXCEPT ![At(PartFile(c))] = p] =>
              /\ disk'[At(PartFile(c))] = p
              /\ disk'[At(c.wfname)] = disk[At(c.wfname)]
         /\ disk' = [disk EXCEPT ![At(PartFile(c))] = Nil, ![At(c.wfname)] = p] =>
              disk'[At(PartFile(c))] = Nil
<1>1. At(PartFile(c)) # At(c.wfname)
  BY DEF CleanNames, PartFile, Ctx, At
<1>2. /\ At(PartFile(c)) \in Dirs \X FileNames
      /\ At(c.wfname) \in Dirs \X FileNames
  BY NamesOnDisk DEF TypeOK, At, PartFile, Ctx
<1> QED
  BY <1>1, <1>2 DEF TypeOK

LEMMA NextState ==
  ASSUME UNCHANGED recvdir, NEW j, NEW e, files'[j] = e
  PROVE  /\ Part(files[j])' = disk'[At(PartFile(e))]
         /\ Exists(files[j].wfname)' <=> disk'[At(e.wfname)] # Nil
BY DEF Part, PartFile, At, Exists

-----------------------------------------------------------------------------
(* The part file is the blocks in order.                                   *)

LEMMA ConcatFacts ==
  ASSUME NEW S, NEW p \in Seq(S), NEW r \in Seq(S)
  PROVE  /\ p \o r \in Seq(S) /\ Len(p \o r) = Len(p) + Len(r)
         /\ \A k \in 1..(Len(p) + Len(r)) :
              (p \o r)[k] = IF k <= Len(p) THEN p[k] ELSE r[k - Len(p)]
OBVIOUS

(* A part file extended by a run of blocks is in order again.              *)
LEMMA RunInOrder ==
  ASSUME TypeOK, NEW id \in Ids, NEW c \in Ctx, CtxOk(id, c),
         Part(c) # Nil, PartOk(c, Part(c)),
         NEW b, BlockOf(c, b, c.nextid),
         NEW e, RunEnds(c, e), NEW s \in c.nextid..e
  PROVE  PartOk(AdvancedTo(c, s), Part(c) \o RunUpTo(c, b, s))
<1> DEFINE p == Part(c)
           r == RunUpTo(c, b, s)
           d == AdvancedTo(c, s)
<1>1. b \in Payload
  BY DEF BlockOf
<1>2. p \in Data /\ Len(p) = c.nextid
  BY NamesOnDisk DEF TypeOK, Part, At, PartFile, Ctx, PartOk
<1>3. /\ r \in Seq(Payload) /\ Len(r) = s - c.nextid
      /\ \A j \in 1..(s - c.nextid) :
           r[j] = IF j = 1 THEN b ELSE c.entries[c.nextid + j - 1]
  BY <1>1, RunFacts
<1>4. d.nextid = s /\ d.ver = c.ver /\ d.cap = c.cap
  BY AdvancedIsCtx
<1>5. c.nextid \in Nat /\ s \in Nat /\ s - c.nextid \in Nat
  BY <1>2 DEF Ctx, RunEnds
<1>6. r \in Data
  BY <1>3 DEF Data
<1>7. /\ p \o r \in Data /\ Len(p \o r) = s
      /\ \A k \in 1..s : (p \o r)[k] = IF k <= c.nextid THEN p[k] ELSE r[k - c.nextid]
  <2>1. p \in Seq(Payload \cup {Junk}) /\ r \in Seq(Payload \cup {Junk})
    BY <1>2, <1>6 DEF Data
  <2>2. /\ p \o r \in Data /\ Len(p \o r) = Len(p) + Len(r)
        /\ \A k \in 1..(Len(p) + Len(r)) :
             (p \o r)[k] = IF k <= Len(p) THEN p[k] ELSE r[k - Len(p)]
    BY <2>1, ConcatFacts DEF Data
  <2>3. Len(p) = c.nextid /\ Len(p) + Len(r) = s
    BY <1>2, <1>3, <1>5
  <2> QED
    BY <2>2, <2>3
<1>8. ASSUME NEW k \in 1..s PROVE BlockOf(d, (p \o r)[k], k - 1)
  <2>1. CASE k <= c.nextid
    BY <1>2, <1>4, <1>7, <2>1 DEF PartOk, BlockOf
  <2>2. CASE k = c.nextid + 1
    <3>1. (p \o r)[k] = r[1] /\ 1 \in 1..(s - c.nextid)
      BY <1>5, <1>7, <2>2
    <3>2. (p \o r)[k] = b
      BY <1>3, <3>1
    <3> QED
      BY <1>4, <1>5, <2>2, <3>2 DEF BlockOf
  <2>3. CASE k > c.nextid + 1
    <3>1. /\ (p \o r)[k] = r[k - c.nextid]
          /\ k - c.nextid \in 1..(s - c.nextid) /\ k - c.nextid # 1
      BY <1>5, <1>7, <2>3
    <3>2. (p \o r)[k] = c.entries[c.nextid + (k - c.nextid) - 1]
      BY <1>3, <3>1
    <3>3. (p \o r)[k] = c.entries[k - 1]
      BY <1>5, <3>2
    <3>4. k - 1 \in (c.nextid + 1)..(e - 1)
      BY <1>5, <2>3 DEF RunEnds
    <3>5. k - 1 < c.cap /\ c.entries[k - 1] # Nil
      BY <3>4 DEF RunEnds
    <3>6. k - 1 \in 0..(MaxBlocks - 1)
      BY <1>5, <3>4, BoundsAssumption DEF RunEnds
    <3>7. BlockOf(c, c.entries[k - 1], k - 1)
      BY <3>5, <3>6 DEF CtxOk
    <3> QED
      BY <1>4, <3>3, <3>7 DEF BlockOf
  <2>4. k <= c.nextid \/ k = c.nextid + 1 \/ k > c.nextid + 1
    BY <1>5
  <2> QED
    BY <2>1, <2>2, <2>3, <2>4
<1>9. p \o r # Nil
  BY <1>7, NilAssumption
<1> QED
  BY <1>4, <1>7, <1>8, <1>9 DEF PartOk

LEMMA StoredPartOk ==
  ASSUME NEW v \in Versions, NEW i \in 0..(MaxBlocks - 1), NEW c \in Ctx,
         CtxOk(FileId[NameOf[v]], c), NEW p, PartOk(c, p)
  PROVE  PartOk([c EXCEPT !.entries[i] = <<v, i>>], p)
BY StoredCtxOk DEF PartOk, BlockOf, Awaiting

(* A step of one transfer keeps every part file in order.                  *)
LEMMA PartsAfter ==
  ASSUME CleanNames, TypeOK, CtxsOk, PartInOrder, UNCHANGED recvdir,
         NEW id \in Ids, NEW c \in Ctx, CtxOk(id, c), NEW p,
         \/ /\ files' = [files EXCEPT ![id] = c]
            /\ disk' = [disk EXCEPT ![At(PartFile(c))] = p]
            /\ PartOk(c, p)
         \/ /\ files' = [files EXCEPT ![id] = c]
            /\ disk' = [disk EXCEPT ![At(PartFile(c))] = Nil, ![At(c.wfname)] = p]
            /\ ~Awaiting(c)
         \/ /\ files' = [files EXCEPT ![id] = Nil]
            /\ Writes(c, p) \/ UNCHANGED disk
  PROVE  PartInOrder'
<1> SUFFICES ASSUME NEW j \in Ids, InProcess(j)'
             PROVE  PartOk(files[j], Part(files[j]))'
  BY DEF PartInOrder
<1>1. CASE j = id
  <2>1. files'[j] = c
    BY <1>1 DEF TypeOK, InProcess
  <2>2. Part(files[j])' = disk'[At(PartFile(c))]
    BY <2>1, NextState
  <2>3. files'[j] # Nil
    BY DEF InProcess
  <2>4. PartOk(c, disk'[At(PartFile(c))])
    BY <1>1, <2>1, <2>3, OwnFiles DEF PartOk, TypeOK
  <2> QED
    BY <2>1, <2>2, <2>4 DEF PartOk, BlockOf, Awaiting
<1>2. CASE j # id
  <2>1. files'[j] = files[j] /\ files[j] # Nil
    BY <1>2 DEF TypeOK, InProcess
  <2>2. files[j] \in Ctx /\ CtxOk(j, files[j]) /\ PartOk(files[j], Part(files[j]))
    BY <2>1 DEF TypeOK, CtxsOk, PartInOrder, InProcess
  <2>3. Part(files[j])' = disk'[At(PartFile(files[j]))]
    BY <2>1, NextState
  <2>4. disk'[At(PartFile(files[j]))] = Part(files[j])
    BY <1>2, <2>2, OthersUntouched DEF Writes, Part
  <2> QED
    BY <2>1, <2>2, <2>3, <2>4 DEF PartOk, BlockOf, Awaiting
<1> QED
  BY <1>1, <1>2

(* The same for the target of every transfer.                              *)
LEMMA TargetsAfter ==
  ASSUME CleanNames, TypeOK, CtxsOk, TargetFree, UNCHANGED recvdir,
         NEW id \in Ids, NEW c \in Ctx, CtxOk(id, c), NEW p,
         \/ /\ files' = [files EXCEPT ![id] = c]
            /\ disk' = [disk EXCEPT ![At(PartFile(c))] = p]
            /\ p # Nil => ~Exists(c.wfname)
         \/ /\ files' = [files EXCEPT ![id] = c]
            /\ disk' = [disk EXCEPT ![At(PartFile(c))] = Nil, ![At(c.wfname)] = p]
         \/ /\ files' = [files EXCEPT ![id] = Nil]
            /\ Writes(c, p) \/ UNCHANGED disk
  PROVE  TargetFree'
<1> SUFFICES ASSUME NEW j \in Ids, InProcess(j)', Part(files[j])' # Nil
             PROVE  ~Exists(files[j].wfname)'
  BY DEF TargetFree
<1>0. files'[j] # Nil
  BY DEF InProcess
<1>1. CASE j = id
  <2>1. files'[j] = c
    BY <1>0, <1>1 DEF TypeOK
  <2>2. /\ Part(files[j])' = disk'[At(PartFile(c))]
        /\ Exists(files[j].wfname)' <=> disk'[At(c.wfname)] # Nil
    BY <2>1, NextState
  <2>3. CASE /\ disk' = [disk EXCEPT ![At(PartFile(c))] = p]
             /\ p # Nil => ~Exists(c.wfname)
    <3>1. disk'[At(PartFile(c))] = p /\ disk'[At(c.wfname)] = disk[At(c.wfname)]
      BY <2>3, OwnFiles, Zenon
    <3>2. p # Nil
      BY <2>2, <3>1, Zenon
    <3> QED BY <2>1, <2>2, <2>3, <3>1, <3>2, Zenon DEF Exists
  <2>4. CASE disk' = [disk EXCEPT ![At(PartFile(c))] = Nil, ![At(c.wfname)] = p]
    <3>1. disk'[At(PartFile(c))] = Nil
      BY <2>4, OwnFiles, Zenon
    <3> QED BY <2>2, <3>1, Zenon
  <2>5. CASE files' = [files EXCEPT ![id] = Nil]
    BY <1>0, <1>1, <2>5, Zenon DEF TypeOK
  <2> QED BY <2>3, <2>4, <2>5, Zenon
<1>2. CASE j # id
  <2>1. files'[j] = files[j] /\ files[j] # Nil
    BY <1>0, <1>2 DEF TypeOK
  <2>2. /\ files[j] \in Ctx /\ CtxOk(j, files[j])
        /\ Part(files[j]) # Nil => ~Exists(files[j].wfname)
    BY <2>1 DEF TypeOK, CtxsOk, TargetFree, InProcess
  <2>3. /\ Part(files[j])' = disk'[At(PartFile(files[j]))]
        /\ Exists(files[j].wfname)' <=> disk'[At(files[j].wfname)] # Nil
    BY <2>1, NextState
  <2>4. /\ disk'[At(PartFile(files[j]))] = Part(files[j])
        /\ disk'[At(files[j].wfname)] = disk[At(files[j].wfname)]
    BY <1>2, <2>2, OthersUntouched DEF Writes, Part
  <2> QED
    BY <2>2, <2>3, <2>4 DEF Exists
<1> QED
  BY <1>1, <1>2

(* What any block does to the transfer it belongs to: context d and part   *)
(* file p, renamed perhaps, and the context perhaps gone.                  *)
TransferStep(id, d, p) ==
  /\ UNCHANGED recvdir
  /\ \/ /\ files' = [files EXCEPT ![id] = d]
        /\ disk' = [disk EXCEPT ![At(PartFile(d))] = p]
     \/ /\ files' = [files EXCEPT ![id] = d] \/ files' = [files EXCEPT ![id] = Nil]
        /\ Renamed(d, p)

LEMMA FinishShape ==
  ASSUME NEW id, NEW d, NEW p, Finish(id, d, p)
  PROVE  TransferStep(id, d, p)
BY DEF Finish, TransferStep, Received, RenameFails, HashRejects, Completes, Renamed

LEMMA AbortClears ==
  ASSUME NEW d, NEW p, FinishAborts(d, p)
  PROVE  ClearMemory
BY DEF FinishAborts, Aborts

LEMMA BlockShape ==
  ASSUME TypeOK, CtxsOk, NEW v \in Versions, NEW i \in 0..(MaxBlocks - 1),
         Block(v, i)
  PROVE  LET id == FileId[NameOf[v]]  c == files[id] IN
         \/ UNCHANGED <<files, recvdir, disk>>
         \/ ClearMemory
         \/ /\ InProcess(id)
            /\ \E d \in Ctx, p \in Data \cup {Nil} :
                 /\ CtxOk(id, d) /\ d.wfname = c.wfname
                 /\ Part(c) = Nil => p = Nil
                 /\ "short" \notin IoFaults /\ PartOk(c, Part(c)) => PartOk(d, p)
                 /\ TransferStep(id, d, p)
<1> DEFINE id == FileId[NameOf[v]]
           c == files[id]
           Shape(d, p) == /\ CtxOk(id, d) /\ d.wfname = c.wfname
                          /\ Part(c) = Nil => p = Nil
                          /\ "short" \notin IoFaults /\ PartOk(c, Part(c)) => PartOk(d, p)
                          /\ TransferStep(id, d, p)
<1>0. id \in Ids /\ <<v, i>> \in Payload
  BY NamesAssumption, IdsOfNames DEF Payload
<1>1. InProcess(id) => c \in Ctx /\ CtxOk(id, c) /\ Part(c) \in Data \cup {Nil}
  BY <1>0, NamesOnDisk DEF InProcess, TypeOK, CtxsOk, Ctx, PartFile, Part, At
<1> SUFFICES \/ UNCHANGED <<files, recvdir, disk>>
             \/ ClearMemory
             \/ InProcess(id) /\ \E d \in Ctx, p \in Data \cup {Nil} : Shape(d, p)
  OBVIOUS
<1>2. CASE BlockUnknown(v)
  BY <1>2 DEF BlockUnknown, mem
<1>3. CASE BlockInOrder(v, i)
  <2>1. InProcess(id) /\ i = c.nextid /\ Part(c) # Nil
    BY <1>3 DEF BlockInOrder
  <2>2. PICK s \in 1..MaxBlocks :
          /\ RunEnds(c, s)
          /\ \/ Finish(id, AdvancedTo(c, s), Part(c) \o RunUpTo(c, <<v, i>>, s))
             \/ FinishAborts(AdvancedTo(c, s), Part(c) \o RunUpTo(c, <<v, i>>, s))
    BY <1>3 DEF BlockInOrder
  <2> DEFINE d == AdvancedTo(c, s)
             p == Part(c) \o RunUpTo(c, <<v, i>>, s)
  <2>3. s \in c.nextid..s
    BY <1>1, <2>1, <2>2 DEF RunEnds, Ctx
  <2>4. d \in Ctx /\ CtxOk(id, d) /\ d.wfname = c.wfname
    BY <1>0, <1>1, <2>1, <2>2, <2>3, AdvancedIsCtx, AdvancedCtxOk
  <2>5. p \in Data
    BY <1>0, <1>1, <2>1, <2>2, <2>3, RunTypes
  <2>6. PartOk(c, Part(c)) => PartOk(d, p)
    BY <1>0, <1>1, <2>1, <2>2, <2>3, CtxBlock, RunInOrder
  <2>7. CASE Finish(id, d, p)
    <3>1. TransferStep(id, d, p)
      BY <2>7, FinishShape
    <3> QED
      BY <2>1, <2>4, <2>5, <2>6, <3>1
  <2>8. CASE FinishAborts(d, p)
    BY <2>8, AbortClears
  <2> QED
    BY <2>2, <2>7, <2>8
<1>4. CASE BlockAppendFails(v, i)
  <2>1. InProcess(id) /\ i = c.nextid /\ UNCHANGED recvdir
    BY <1>4 DEF BlockAppendFails
  <2>2. CASE Part(c) = Nil
    BY <1>4, <2>2 DEF BlockAppendFails
  <2>3. CASE Part(c) # Nil
    <3>1. PICK s \in c.nextid..(MaxBlocks - 1), short \in {<<>>, <<Junk>>} :
            /\ \E e \in (s + 1)..MaxBlocks : RunEnds(c, e)
            /\ short # <<>> => "short" \in IoFaults
            /\ files' = [files EXCEPT ![id] = AdvancedTo(c, s)]
            /\ disk' = [disk EXCEPT ![At(PartFile(c))] =
                          Part(c) \o RunUpTo(c, <<v, i>>, s) \o short]
      BY <1>4, <2>3 DEF BlockAppendFails
    <3> DEFINE d == AdvancedTo(c, s)
               p == Part(c) \o RunUpTo(c, <<v, i>>, s) \o short
    <3>2. PICK e \in (s + 1)..MaxBlocks : RunEnds(c, e)
      BY <3>1
    <3>3. s \in c.nextid..e
      BY <1>1, <2>1, <3>2 DEF Ctx
    <3>4. d \in Ctx /\ CtxOk(id, d) /\ d.wfname = c.wfname
      BY <1>0, <1>1, <2>1, <3>2, <3>3, AdvancedIsCtx, AdvancedCtxOk
    <3>5. p \in Data /\ Part(c) \o RunUpTo(c, <<v, i>>, s) \in Data
      BY <1>0, <1>1, <2>1, <2>3, <3>2, <3>3, RunTypes
    <3>6. PartOk(c, Part(c)) => PartOk(d, Part(c) \o RunUpTo(c, <<v, i>>, s))
      BY <1>0, <1>1, <2>1, <2>3, <3>2, <3>3, CtxBlock, RunInOrder
    <3>7. short = <<>> => p = Part(c) \o RunUpTo(c, <<v, i>>, s)
      BY <3>5 DEF Data
    <3>8. TransferStep(id, d, p)
      BY <2>1, <3>1, <3>4 DEF TransferStep, PartFile
    <3>9. Shape(d, p)
      BY <2>3, <3>1, <3>4, <3>6, <3>7, <3>8
    <3> QED
      BY <2>1, <3>4, <3>5, <3>9
  <2> QED
    BY <2>2, <2>3
<1>5. CASE BlockOutOfOrder(v, i)
  <2> DEFINE d == [c EXCEPT !.entries[i] = <<v, i>>]
  <2>1. /\ InProcess(id)
        /\ Finish(id, d, Part(c)) \/ FinishAborts(d, Part(c))
    BY <1>5 DEF BlockOutOfOrder
  <2>2. d \in Ctx /\ CtxOk(id, d) /\ d.wfname = c.wfname
    BY <1>1, <2>1, StoredCtxOk
  <2>3. PartOk(c, Part(c)) => PartOk(d, Part(c))
    BY <1>1, <2>1, StoredPartOk
  <2>4. CASE Finish(id, d, Part(c))
    <3>1. TransferStep(id, d, Part(c))
      BY <2>4, FinishShape
    <3> QED
      BY <1>1, <2>1, <2>2, <2>3, <3>1
  <2>5. CASE FinishAborts(d, Part(c))
    BY <2>5, AbortClears
  <2> QED
    BY <2>1, <2>4, <2>5
<1>6. CASE BlockPastEnd(v, i)
  BY <1>6 DEF BlockPastEnd, Aborts
<1> QED
  BY <1>2, <1>3, <1>4, <1>5, <1>6 DEF Block

-----------------------------------------------------------------------------
(* The steps, one by one.                                                  *)

LEMMA QuietStep ==
  ASSUME UNCHANGED <<files, recvdir, disk>>
  PROVE  /\ PartInOrder => PartInOrder'
         /\ TargetFree => TargetFree'
BY DEF PartInOrder, TargetFree, PartOk, BlockOf, Awaiting, Part, PartFile, At,
       Exists, InProcess

LEMMA ClearStep ==
  ASSUME ClearMemory
  PROVE  PartInOrder' /\ TargetFree'
BY DEF ClearMemory, PartInOrder, TargetFree, InProcess

LEMMA UnregisterStep ==
  ASSUME TypeOK, NEW n \in Names, Unregister(n)
  PROVE  /\ PartInOrder => PartInOrder'
         /\ TargetFree => TargetFree'
<1>1. ASSUME NEW id \in Ids, InProcess(id)'
      PROVE  /\ InProcess(id)
             /\ files'[id].ver = files[id].ver /\ files'[id].cap = files[id].cap
             /\ files'[id].nextid = files[id].nextid
             /\ files'[id].wfname = files[id].wfname
  <2>1. /\ InProcess(id)
        /\ \/ files'[id] = files[id]
           \/ files'[id] = [files[id] EXCEPT !.fcb = "freed"]
    BY <1>1 DEF Unregister, InProcess
  <2>2. files[id] \in Ctx
    BY <2>1 DEF TypeOK, InProcess
  <2> QED
    BY <2>1, <2>2 DEF Ctx
<1>2. UNCHANGED <<recvdir, disk>>
  BY DEF Unregister
<1>3. ASSUME NEW id \in Ids, InProcess(id)'
      PROVE  /\ Part(files[id])' = Part(files[id])
             /\ Exists(files[id].wfname)' <=> Exists(files[id].wfname)
  BY <1>1, <1>2, <1>3 DEF Part, PartFile, At, Exists
<1> QED
  BY <1>1, <1>3 DEF PartInOrder, TargetFree, PartOk, BlockOf, Awaiting

LEMMA HelloStep ==
  ASSUME CleanNames, TypeOK, CtxsOk, NEW v \in Versions, Hello(v)
  PROVE  /\ PartInOrder => PartInOrder'
         /\ TargetFree => TargetFree'
<1> DEFINE n == NameOf[v]
<1>0. n \in Names /\ FileId[n] \in Ids
  BY NamesAssumption, IdsOfNames
<1>1. CASE HelloRefused \/ HelloWriteFails(v)
  BY <1>1, QuietStep DEF HelloRefused, HelloWriteFails, mem
<1>2. CASE HelloAccepted(v)
  <2>1. PICK w \in SavesOf(n) :
          /\ FirstFree(n, w)
          /\ CreatePart(w)
          /\ files' = [files EXCEPT ![FileId[n]] = NewCtx(v, w, FcbOf(n))]
    BY <1>2 DEF HelloAccepted
  <2> DEFINE c == NewCtx(v, w, FcbOf(n))
  <2>2. c \in Ctx /\ CtxOk(FileId[n], c)
    BY <1>0, NamesOnDisk, BoundsAssumption DEF NewCtx, Ctx, FcbOf, CtxOk
  <2>3. disk' = [disk EXCEPT ![At(PartFile(c))] = <<>>] /\ UNCHANGED recvdir
    BY <1>2, <2>1 DEF CreatePart, PartFile, NewCtx, HelloAccepted
  <2>4. PartOk(c, <<>>)
    <3>1. <<>> \in Data
      BY DEF Data
    <3>2. <<>> # Nil
      BY <3>1, NilAssumption
    <3> QED
      BY <3>2 DEF PartOk, NewCtx
  <2>5. ~Exists(c.wfname)
    <3>1. ~Exists(w)
      BY <2>1, Zenon DEF FirstFree
    <3> QED
      BY <3>1 DEF NewCtx
  <2>6. PartInOrder => PartInOrder'
    BY <1>0, <2>1, <2>2, <2>3, <2>4, PartsAfter
  <2>7. TargetFree => TargetFree'
    BY <1>0, <2>1, <2>2, <2>3, <2>5, TargetsAfter
  <2> QED
    BY <2>6, <2>7
<1>3. CASE HelloNoName(v)
  BY <1>3, ClearStep DEF HelloNoName, Aborts
<1> QED
  BY <1>1, <1>2, <1>3 DEF Hello

LEMMA RecvStopStep ==
  ASSUME CleanNames, TypeOK, CtxsOk, NEW n \in Names, RecvStop(n)
  PROVE  /\ PartInOrder => PartInOrder'
         /\ TargetFree => TargetFree'
<1> DEFINE id == FileId[n]
           c == files[id]
<1>0. id \in Ids
  BY IdsOfNames
<1>1. CASE ~InProcess(id)
  BY <1>1, QuietStep DEF RecvStop
<1>2. CASE InProcess(id)
  <2>1. c \in Ctx /\ CtxOk(id, c)
    BY <1>0, <1>2 DEF TypeOK, CtxsOk, InProcess
  <2>2. /\ UNCHANGED recvdir
        /\ files' = [files EXCEPT ![id] = Nil]
        /\ Writes(c, Nil) \/ UNCHANGED disk
    BY <1>2 DEF RecvStop, Writes
  <2>3. PartInOrder => PartInOrder'
    BY <1>0, <2>1, <2>2, PartsAfter
  <2>4. TargetFree => TargetFree'
    BY <1>0, <2>1, <2>2, TargetsAfter
  <2> QED
    BY <2>3, <2>4
<1> QED
  BY <1>1, <1>2

LEMMA BlockStep ==
  ASSUME CleanNames, TypeOK, CtxsOk, NEW v \in Versions,
         NEW i \in 0..(MaxBlocks - 1), Block(v, i)
  PROVE  /\ "short" \notin IoFaults /\ PartInOrder => PartInOrder'
         /\ TargetFree => TargetFree'
<1> DEFINE id == FileId[NameOf[v]]
           c == files[id]
<1>0. id \in Ids
  BY NamesAssumption, IdsOfNames
<1>1. CASE UNCHANGED <<files, recvdir, disk>>
  BY <1>1, QuietStep
<1>2. CASE ClearMemory
  BY <1>2, ClearStep
<1>3. ASSUME InProcess(id), NEW d \in Ctx, NEW p \in Data \cup {Nil},
             CtxOk(id, d), d.wfname = c.wfname,
             Part(c) = Nil => p = Nil,
             "short" \notin IoFaults /\ PartOk(c, Part(c)) => PartOk(d, p),
             TransferStep(id, d, p)
      PROVE  /\ "short" \notin IoFaults /\ PartInOrder => PartInOrder'
             /\ TargetFree => TargetFree'
  <2>1. PartInOrder => PartOk(c, Part(c))
    BY <1>0, <1>3 DEF PartInOrder
  <2>2. TargetFree /\ Part(c) # Nil => ~Exists(d.wfname)
    BY <1>0, <1>3 DEF TargetFree
  <2>3. CASE /\ files' = [files EXCEPT ![id] = d]
             /\ disk' = [disk EXCEPT ![At(PartFile(d))] = p]
    <3>1. "short" \notin IoFaults /\ PartInOrder => PartInOrder'
      BY <1>0, <1>3, <2>1, <2>3, PartsAfter DEF TransferStep
    <3>2. TargetFree => TargetFree'
      BY <1>0, <1>3, <2>2, <2>3, TargetsAfter DEF TransferStep
    <3> QED
      BY <3>1, <3>2
  <2>4. CASE /\ files' = [files EXCEPT ![id] = d] \/ files' = [files EXCEPT ![id] = Nil]
             /\ Renamed(d, p)
    <3>1. /\ disk' = [disk EXCEPT ![At(PartFile(d))] = Nil, ![At(d.wfname)] = p]
          /\ ~Awaiting(d) /\ Writes(d, p) /\ UNCHANGED recvdir
      BY <1>3, <2>4 DEF Renamed, Writes, Awaiting, Ctx, TransferStep
    <3>2. PartInOrder => PartInOrder'
      BY <1>0, <1>3, <2>4, <3>1, PartsAfter
    <3>3. TargetFree => TargetFree'
      BY <1>0, <1>3, <2>4, <3>1, TargetsAfter
    <3> QED
      BY <3>2, <3>3
  <2> QED
    BY <1>3, <2>3, <2>4 DEF TransferStep
<1> QED
  BY <1>1, <1>2, <1>3, BlockShape

LEMMA SafeStep ==
  ASSUME CleanNames, "set_recvdir" \notin MidTransfer, TypeOK, CtxsOk, [Next]_vars
  PROVE  /\ "short" \notin IoFaults /\ PartInOrder => PartInOrder'
         /\ TargetFree => TargetFree'
<1>1. CASE Start \/ UNCHANGED vars
  BY <1>1, QuietStep DEF Start, mem, vars
<1>2. CASE Fini \/ Killed
  BY <1>2, ClearStep DEF Fini, Killed, KilledAbout, Crash, CrashInHello, CrashInAppend,
                         CrashInFinish, Dies
<1>3. CASE \E n \in Names : RecvStop(n)
  BY <1>3, RecvStopStep
<1>4. CASE \E n \in Names : Unregister(n)
  BY <1>4, UnregisterStep
<1>5. CASE \/ \E n \in Names, cb \in Callbacks : Register(n, cb)
           \/ \E cb \in Callbacks : RegisterDefault(cb)
  BY <1>5, QuietStep DEF Register, RegisterDefault
<1>6. CASE \E d \in Dirs : SetRecvdir(d)
  <2>1. Idle /\ UNCHANGED files
    BY <1>6 DEF SetRecvdir
  <2> QED
    BY <2>1 DEF Idle, InProcess, PartInOrder, TargetFree
<1>7. CASE \E v \in Versions : Hello(v)
  BY <1>7, HelloStep
<1>8. CASE \E v \in Versions, i \in 0..(MaxBlocks - 1) : Block(v, i)
  BY <1>8, BlockStep
<1> QED
  BY <1>1, <1>2, <1>3, <1>4, <1>5, <1>6, <1>7, <1>8 DEF Next

LEMMA InitSafe == Init => CtxsOk /\ PartInOrder /\ TargetFree
BY DEF Init, CtxsOk, PartInOrder, TargetFree, InProcess

(* Every context belongs to its name, whatever happens.                    *)
THEOREM ContextsWellFormed == Spec => []CtxsOk
<1>1. TypeOK /\ CtxsOk /\ [Next]_vars => CtxsOk'
  BY CtxsStep
<1> QED
  BY <1>1, InitSafe, TypeCorrect, PTL DEF Spec

(* The part file of every transfer is its blocks in order, for any order   *)
(* and repetition of the messages, any crash and any clean I/O failure.    *)
THEOREM PartStaysInOrder ==
  ASSUME CleanNames, "set_recvdir" \notin MidTransfer, "short" \notin IoFaults
  PROVE  Spec => []PartInOrder
<1>1. TypeOK /\ CtxsOk /\ PartInOrder /\ [Next]_vars => PartInOrder'
  BY SafeStep
<1> QED
  BY <1>1, InitSafe, TypeCorrect, ContextsWellFormed, PTL DEF Spec

(* The name picked at HELLO stays free until the file is saved to it, even *)
(* when writes are cut short.                                              *)
THEOREM TargetStaysFree ==
  ASSUME CleanNames, "set_recvdir" \notin MidTransfer
  PROVE  Spec => []TargetFree
<1>1. TypeOK /\ CtxsOk /\ TargetFree /\ [Next]_vars => TargetFree'
  BY SafeStep
<1> QED
  BY <1>1, InitSafe, TypeCorrect, ContextsWellFormed, PTL DEF Spec

-----------------------------------------------------------------------------
(* Saved files.                                                            *)

(* What a block may write: the part file of its transfer, or the target,   *)
(* to which a part file that is there is renamed.                          *)
MayWrite(c, p) ==
  \/ disk' = [disk EXCEPT ![At(PartFile(c))] = p]
  \/ /\ Part(c) # Nil
     /\ disk' = [disk EXCEPT ![At(PartFile(c))] = Nil, ![At(c.wfname)] = p]

LEMMA FinishWrites ==
  ASSUME NEW id, NEW c, NEW d, NEW p, d.wfname = c.wfname, Part(c) # Nil \/ p = Part(c),
         Finish(id, d, p) \/ FinishAborts(d, p)
  PROVE  MayWrite(c, p)
BY DEF MayWrite, Finish, FinishAborts, Received, RenameFails, HashRejects,
       Completes, Renamed, PartFile

LEMMA BlockWrites ==
  ASSUME TypeOK, NEW v \in Versions, NEW i \in 0..(MaxBlocks - 1), Block(v, i)
  PROVE  LET id == FileId[NameOf[v]] IN
         UNCHANGED disk \/ (InProcess(id) /\ \E p : MayWrite(files[id], p))
<1> DEFINE id == FileId[NameOf[v]]
           c == files[id]
<1>0. id \in Ids /\ <<v, i>> \in Payload
  BY NamesAssumption, IdsOfNames DEF Payload
<1>1. InProcess(id) => c \in Ctx
  BY <1>0 DEF InProcess, TypeOK
<1>2. CASE BlockUnknown(v) \/ BlockPastEnd(v, i)
  BY <1>2 DEF BlockUnknown, BlockPastEnd
<1>3. CASE BlockInOrder(v, i)
  <2>1. InProcess(id) /\ Part(c) # Nil
    BY <1>3 DEF BlockInOrder
  <2>2. PICK s \in 1..MaxBlocks :
          LET d == AdvancedTo(c, s)  p == Part(c) \o RunUpTo(c, <<v, i>>, s) IN
          Finish(id, d, p) \/ FinishAborts(d, p)
    BY <1>3 DEF BlockInOrder
  <2>3. AdvancedTo(c, s).wfname = c.wfname
    BY <1>1, <2>1 DEF AdvancedTo, Ctx
  <2> QED
    BY <2>1, <2>2, <2>3, FinishWrites
<1>4. CASE BlockAppendFails(v, i)
  BY <1>4 DEF BlockAppendFails, MayWrite
<1>5. CASE BlockOutOfOrder(v, i)
  <2> DEFINE d == [c EXCEPT !.entries[i] = <<v, i>>]
  <2>1. InProcess(id) /\ (Finish(id, d, Part(c)) \/ FinishAborts(d, Part(c)))
    BY <1>5 DEF BlockOutOfOrder
  <2>2. d.wfname = c.wfname
    BY <1>1, <2>1 DEF Ctx
  <2> QED
    BY <2>1, <2>2, FinishWrites
<1> QED
  BY <1>2, <1>3, <1>4, <1>5 DEF Block

LEMMA KilledWrites ==
  ASSUME TypeOK, NEW v \in Versions, NEW i \in 0..(Blocks[v] - 1),
         CrashInAppend(v, i) \/ CrashInFinish(v, i)
  PROVE  LET id == FileId[NameOf[v]] IN
         InProcess(id) /\ \E p : MayWrite(files[id], p)
<1> DEFINE id == FileId[NameOf[v]]
           c == files[id]
<1>1. id \in Ids
  BY NamesAssumption, IdsOfNames
<1>2. CASE CrashInAppend(v, i)
  BY <1>2 DEF CrashInAppend, MayWrite
<1>3. CASE CrashInFinish(v, i)
  <2>1. InProcess(id) /\ Part(c) # Nil
    BY <1>3 DEF CrashInFinish
  <2>2. PICK s \in 1..MaxBlocks :
          Renamed(AdvancedTo(c, s), Part(c) \o RunUpTo(c, <<v, i>>, s))
    BY <1>3 DEF CrashInFinish
  <2>3. AdvancedTo(c, s).wfname = c.wfname
    BY <1>1, <2>1 DEF AdvancedTo, Ctx, TypeOK, InProcess
  <2> QED
    BY <2>1, <2>2, <2>3 DEF Renamed, MayWrite, PartFile
<1> QED
  BY <1>2, <1>3

(* Neither a part file nor the free target of a transfer is a saved file.  *)
LEMMA SavedUntouched ==
  ASSUME CleanNames, TypeOK, TargetFree, NEW id \in Ids, InProcess(id),
         NEW p, MayWrite(files[id], p),
         NEW d \in Dirs, NEW s \in SaveNames, disk[<<d, s>>] # Nil
  PROVE  disk'[<<d, s>>] = disk[<<d, s>>]
<1> DEFINE c == files[id]
<1>1. c.wfname \in SaveNames /\ PartFile(c) # s
  BY DEF TypeOK, InProcess, Ctx, CleanNames, PartFile
<1>2. At(PartFile(c)) # <<d, s>> /\ <<d, s>> \in Dirs \X FileNames
  BY <1>1, NamesOnDisk DEF At
<1>3. CASE disk' = [disk EXCEPT ![At(PartFile(c))] = p]
  BY <1>2, <1>3 DEF TypeOK
<1>4. CASE /\ Part(c) # Nil
           /\ disk' = [disk EXCEPT ![At(PartFile(c))] = Nil, ![At(c.wfname)] = p]
  <2>1. At(c.wfname) # <<d, s>>
    BY <1>4 DEF TargetFree, Exists
  <2> QED
    BY <1>2, <1>4, <2>1 DEF TypeOK
<1> QED
  BY <1>3, <1>4 DEF MayWrite

(* Nor is the part file that HELLO makes.                                  *)
LEMMA SavedUntouchedByHello ==
  ASSUME CleanNames, TypeOK, NEW n \in Names, NEW w \in SavesOf(n), CreatePart(w),
         NEW d \in Dirs, NEW s \in SaveNames
  PROVE  disk'[<<d, s>>] = disk[<<d, s>>]
<1>1. At(PartOf[w]) # <<d, s>> /\ <<d, s>> \in Dirs \X FileNames
  BY NamesOnDisk DEF CleanNames, At
<1> QED
  BY <1>1 DEF CreatePart, TypeOK

LEMMA SavedStep ==
  ASSUME CleanNames, TypeOK, TargetFree, [Next]_vars,
         NEW d \in Dirs, NEW s \in SaveNames, disk[<<d, s>>] # Nil
  PROVE  disk'[<<d, s>>] = disk[<<d, s>>]
<1>1. CASE UNCHANGED disk
  BY <1>1
<1>2. CASE \E v \in Versions : Hello(v)
  <2>1. PICK v \in Versions : Hello(v)
    BY <1>2
  <2>2. NameOf[v] \in Names
    BY NamesAssumption
  <2> QED
    BY <1>1, <2>1, <2>2, SavedUntouchedByHello
       DEF Hello, HelloRefused, HelloAccepted, HelloWriteFails, HelloNoName
<1>3. CASE \E v \in Versions, i \in 0..(MaxBlocks - 1) : Block(v, i)
  BY <1>1, <1>3, BlockWrites, SavedUntouched, NamesAssumption, IdsOfNames
<1>4. CASE \E n \in Names : RecvStop(n)
  <2>1. PICK n \in Names : RecvStop(n)
    BY <1>4
  <2>2. CASE UNCHANGED disk
    BY <2>2
  <2>3. CASE InProcess(FileId[n]) /\ MayWrite(files[FileId[n]], Nil)
    BY <2>3, IdsOfNames, SavedUntouched
  <2> QED
    BY <2>1, <2>2, <2>3 DEF RecvStop, MayWrite
<1>5. CASE Killed
  <2>1. CASE Crash
    BY <2>1 DEF Crash
  <2>2. CASE \E v \in Versions : CrashInHello(v)
    BY <2>2, SavedUntouchedByHello, NamesAssumption DEF CrashInHello
  <2>3. CASE \E v \in Versions : \E i \in 0..(Blocks[v] - 1) :
               CrashInAppend(v, i) \/ CrashInFinish(v, i)
    BY <2>3, KilledWrites, SavedUntouched, NamesAssumption, IdsOfNames
  <2> QED
    BY <1>5, <2>1, <2>2, <2>3 DEF Killed, KilledAbout
<1> QED
  BY <1>1, <1>2, <1>3, <1>4, <1>5
     DEF Next, vars, Start, Fini, Unregister, Register, RegisterDefault, SetRecvdir

(* Whatever is received, retried, cut short or killed, no transfer touches *)
(* a file that has been saved before.                                      *)
THEOREM SavedNeverOverwritten ==
  ASSUME CleanNames, "set_recvdir" \notin MidTransfer
  PROVE  Spec => SavedIsKept
<1>1. TypeOK /\ TargetFree /\ [Next]_vars =>
        [\A d \in Dirs, s \in SaveNames :
           disk[<<d, s>>] # Nil /\ ~IsActivePart(d, s) =>
             disk'[<<d, s>>] = disk[<<d, s>>]]_vars
  BY SavedStep
<1> QED
  BY <1>1, TypeCorrect, TargetStaysFree, PTL DEF Spec, SavedIsKept

-----------------------------------------------------------------------------
(* The checksum.                                                           *)

(* A part file in order that is complete is the file that was announced,   *)
(* if there is one version of each name.                                   *)
OneVersion == \A u, v \in Versions : NameOf[u] = NameOf[v] => u = v

LEMMA OrderedIsContent ==
  ASSUME OneVersion, NEW id, NEW d \in Ctx, CtxOk(id, d), d.nextid = d.cap,
         NEW p \in Data, PartOk(d, p)
  PROVE  p = Content(d.ver)
<1>1. p # Nil
  BY NilAssumption
<1>2. Len(p) = Blocks[d.ver] /\ \A k \in 1..Len(p) : BlockOf(d, p[k], k - 1)
  BY <1>1 DEF PartOk, CtxOk
<1>3. ASSUME NEW k \in 1..Len(p) PROVE p[k] = <<d.ver, k - 1>>
  <2>1. p[k] \in Payload /\ NameOf[p[k][1]] = NameOf[d.ver] /\ p[k][2] = k - 1
    BY <1>2 DEF BlockOf
  <2>2. p[k][1] \in Versions /\ d.ver \in Versions /\ p[k] = <<p[k][1], p[k][2]>>
    BY <2>1 DEF Payload, Ctx
  <2>3. p[k][1] = d.ver
    BY <2>1, <2>2 DEF OneVersion
  <2> QED
    BY <2>1, <2>2, <2>3
<1>4. p = [k \in 1..Len(p) |-> p[k]]
  BY DEF Data
<1> QED
  BY <1>2, <1>3, <1>4 DEF Content

(* So the checksum accepts whatever a block completes.                     *)
LEMMA FinishPasses ==
  ASSUME OneVersion, NEW id, NEW j, NEW d \in Ctx, CtxOk(j, d),
         NEW p \in Data \cup {Nil}, PartOk(d, p), Finish(id, d, p) \/ FinishAborts(d, p)
  PROVE  HashCheckPasses'
<1>1. CASE Received(id, d, p) \/ RenameFails(id, d, p) \/ Completes(id, d, p)
  BY <1>1 DEF Received, RenameFails, Completes, Result, HashCheckPasses
<1>2. CASE HashRejects(id, d, p)
  <2>1. d.nextid = d.cap /\ p \in Data
    BY <1>2 DEF HashRejects, Renamed
  <2>2. p = Content(d.ver)
    BY <2>1, OrderedIsContent
  <2> QED
    BY <1>2, <2>2 DEF HashRejects, Result, HashCheckPasses
<1>3. CASE FinishAborts(d, p)
  BY <1>3 DEF FinishAborts, Aborts, ClearMemory, Result, HashCheckPasses
<1> QED
  BY <1>1, <1>2, <1>3 DEF Finish

LEMMA BlockPasses ==
  ASSUME OneVersion, TypeOK, CtxsOk, PartInOrder,
         NEW v \in Versions, NEW i \in 0..(MaxBlocks - 1), Block(v, i)
  PROVE  HashCheckPasses'
<1> DEFINE id == FileId[NameOf[v]]
           c == files[id]
<1>0. id \in Ids /\ <<v, i>> \in Payload
  BY NamesAssumption, IdsOfNames DEF Payload
<1>1. InProcess(id) => /\ c \in Ctx /\ CtxOk(id, c) /\ PartOk(c, Part(c))
                       /\ Part(c) \in Data \cup {Nil}
  <2>1. InProcess(id) => c \in Ctx /\ Part(c) \in Data \cup {Nil}
    BY <1>0, NamesOnDisk DEF InProcess, TypeOK, Ctx, PartFile, Part, At
  <2>2. InProcess(id) => CtxOk(id, c) /\ PartOk(c, Part(c))
    BY <1>0 DEF CtxsOk, PartInOrder
  <2> QED
    BY <2>1, <2>2
<1>2. CASE BlockUnknown(v) \/ BlockPastEnd(v, i) \/ BlockAppendFails(v, i)
  <2>1. \E rv \in {"ERR_HT", "ERR_FILE", "none"} : out' = Result(rv)
    <3>1. CASE BlockUnknown(v)
      BY <3>1 DEF BlockUnknown
    <3>2. CASE BlockPastEnd(v, i)
      BY <3>2 DEF BlockPastEnd, Aborts, ClearMemory
    <3>3. CASE BlockAppendFails(v, i)
      <4>1. out' = Result("ERR_FILE")
        BY <3>3, Zenon DEF BlockAppendFails
      <4> QED
        BY <4>1
    <3> QED
      BY <1>2, <3>1, <3>2, <3>3
  <2> QED
    BY <2>1 DEF Result, HashCheckPasses
<1>3. CASE BlockInOrder(v, i)
  <2>1. InProcess(id) /\ i = c.nextid /\ Part(c) # Nil
    BY <1>3 DEF BlockInOrder
  <2>2. PICK s \in 1..MaxBlocks :
          /\ RunEnds(c, s)
          /\ LET d == AdvancedTo(c, s)  p == Part(c) \o RunUpTo(c, <<v, i>>, s) IN
             Finish(id, d, p) \/ FinishAborts(d, p)
    BY <1>3 DEF BlockInOrder
  <2> DEFINE d == AdvancedTo(c, s)
             p == Part(c) \o RunUpTo(c, <<v, i>>, s)
  <2>3. s \in c.nextid..s
    <3>1. c.nextid \in 0..MaxBlocks
      BY <1>1, <2>1 DEF Ctx
    <3>2. s \in (c.nextid + 1)..MaxBlocks
      BY <2>2, Zenon DEF RunEnds
    <3> QED
      BY <3>1, <3>2
  <2>4. d \in Ctx /\ CtxOk(id, d)
    BY <1>0, <1>1, <2>1, <2>2, <2>3, AdvancedIsCtx, AdvancedCtxOk
  <2>5. p \in Data
    BY <1>0, <1>1, <2>1, <2>2, <2>3, RunTypes
  <2>6. PartOk(d, p)
    BY <1>0, <1>1, <2>1, <2>2, <2>3, CtxBlock, RunInOrder
  <2> QED
    BY <2>2, <2>4, <2>5, <2>6, FinishPasses
<1>4. CASE BlockOutOfOrder(v, i)
  <2> DEFINE d == [c EXCEPT !.entries[i] = <<v, i>>]
  <2>1. InProcess(id) /\ (Finish(id, d, Part(c)) \/ FinishAborts(d, Part(c)))
    BY <1>4 DEF BlockOutOfOrder
  <2>2. d \in Ctx /\ CtxOk(id, d) /\ PartOk(d, Part(c))
    BY <1>1, <2>1, StoredCtxOk, StoredPartOk
  <2> QED
    BY <1>1, <2>1, <2>2, FinishPasses
<1> QED
  BY <1>2, <1>3, <1>4 DEF Block

LEMMA HashStep ==
  ASSUME OneVersion, TypeOK, CtxsOk, PartInOrder, HashCheckPasses, [Next]_vars
  PROVE  HashCheckPasses'
<1>1. CASE UNCHANGED out
  BY <1>1 DEF HashCheckPasses
<1>2. CASE ClearMemory
  BY <1>2 DEF ClearMemory, Result, HashCheckPasses
<1>3. CASE Start \/ UNCHANGED vars
  BY <1>1, <1>3 DEF Start, vars
<1>4. CASE Fini \/ Killed
  BY <1>2, <1>4 DEF Fini, Killed, KilledAbout, Crash, CrashInHello, CrashInAppend,
                    CrashInFinish, Dies
<1>5. CASE \E n \in Names : RecvStop(n) \/ Unregister(n)
  BY <1>5 DEF RecvStop, Unregister, Result, HashCheckPasses
<1>6. CASE \/ \E n \in Names, cb \in Callbacks : Register(n, cb)
           \/ \E cb \in Callbacks : RegisterDefault(cb)
           \/ \E d \in Dirs : SetRecvdir(d)
  BY <1>6 DEF Register, RegisterDefault, SetRecvdir, Result, HashCheckPasses
<1>7. CASE \E v \in Versions : Hello(v)
  BY <1>2, <1>7 DEF Hello, HelloRefused, HelloAccepted, HelloWriteFails, HelloNoName,
                    Aborts, Result, HashCheckPasses
<1>8. CASE \E v \in Versions, i \in 0..(MaxBlocks - 1) : Block(v, i)
  BY <1>8, BlockPasses
<1> QED
  BY <1>3, <1>4, <1>5, <1>6, <1>7, <1>8 DEF Next

(* A file nobody changes while it is sent is never rejected, in whatever   *)
(* order and however often its blocks arrive.                              *)
THEOREM HashAlwaysPasses ==
  ASSUME CleanNames, OneVersion,
         "set_recvdir" \notin MidTransfer, "short" \notin IoFaults
  PROVE  Spec => []HashCheckPasses
<1>1. Init => HashCheckPasses
  BY DEF Init, Result, HashCheckPasses
<1>2. TypeOK /\ CtxsOk /\ PartInOrder /\ HashCheckPasses /\ [Next]_vars => HashCheckPasses'
  BY HashStep
<1> QED
  BY <1>1, <1>2, TypeCorrect, ContextsWellFormed, PartStaysInOrder, PTL DEF Spec
-----------------------------------------------------------------------------
(* The steps of a context c to a context d: a run of blocks is appended,   *)
(* whole or up to the append that fails, a block is cached, or the entry   *)
(* of the registry goes.                                                   *)

Appends(c, d) ==
  \E e \in 1..MaxBlocks :
    /\ RunEnds(c, e)
    /\ \E s \in c.nextid..e :
         /\ s = e \/ {"append", "short"} \cap IoFaults # {}
         /\ d = AdvancedTo(c, s)

Caches(c, d) ==
  \E b \in Payload : /\ b[2] # c.nextid /\ b[2] < c.cap
                     /\ d = [c EXCEPT !.entries[b[2]] = b]

LosesEntry(c, d) ==
  "unregister" \in MidTransfer /\ d = [c EXCEPT !.fcb = "freed"]

CtxStep(c, d) == d = c \/ Appends(c, d) \/ Caches(c, d) \/ LosesEntry(c, d)

Opened(d) == \E v \in Versions, w \in SaveNames, f \in {"default", "own"} :
               d = NewCtx(v, w, f)

(* A context goes, or follows from what it was; or a HELLO opens one.      *)
Goes(id) == files'[id] = Nil \/ (InProcess(id) /\ CtxStep(files[id], files'[id]))
Follows(id) == Goes(id) \/ Opened(files'[id])

LEMMA SameGoes ==
  ASSUME NEW id \in Ids, files'[id] = files[id]
  PROVE  Goes(id)
BY DEF Goes, InProcess, CtxStep

LEMMA ClearedGoes ==
  ASSUME NEW id \in Ids, ClearMemory
  PROVE  Goes(id)
BY DEF Goes, ClearMemory

LEMMA FinishGoes ==
  ASSUME TypeOK, NEW id \in Ids, NEW j \in Ids, InProcess(j), NEW d, NEW p,
         CtxStep(files[j], d), Finish(j, d, p) \/ FinishAborts(d, p)
  PROVE  Goes(id)
<1>1. CASE FinishAborts(d, p)
  BY <1>1, AbortClears, ClearedGoes
<1>2. CASE Finish(j, d, p)
  <2>1. files' = [files EXCEPT ![j] = d] \/ files' = [files EXCEPT ![j] = Nil]
    BY <1>2 DEF Finish, Received, RenameFails, HashRejects, Completes
  <2>2. CASE id = j
    BY <2>1, <2>2 DEF TypeOK, Goes
  <2>3. CASE id # j
    BY <2>1, <2>3, SameGoes DEF TypeOK
  <2> QED
    BY <2>2, <2>3
<1> QED
  BY <1>1, <1>2

LEMMA BlockGoes ==
  ASSUME TypeOK, NEW v \in Versions, NEW i \in 0..(MaxBlocks - 1), Block(v, i),
         NEW id \in Ids
  PROVE  Goes(id)
<1> DEFINE j == FileId[NameOf[v]]
           c == files[j]
<1>0. j \in Ids /\ <<v, i>> \in Payload
  BY NamesAssumption, IdsOfNames DEF Payload
<1>1. InProcess(j) => c \in Ctx
  BY <1>0 DEF InProcess, TypeOK
<1>2. CASE BlockUnknown(v)
  BY <1>2, SameGoes DEF BlockUnknown, mem
<1>3. CASE BlockInOrder(v, i)
  <2>1. InProcess(j)
    BY <1>3 DEF BlockInOrder
  <2>2. PICK s \in 1..MaxBlocks :
          /\ RunEnds(c, s)
          /\ LET d == AdvancedTo(c, s)  p == Part(c) \o RunUpTo(c, <<v, i>>, s) IN
             Finish(j, d, p) \/ FinishAborts(d, p)
    BY <1>3 DEF BlockInOrder
  <2>3. s \in c.nextid..s
    BY <1>1, <2>1, <2>2 DEF RunEnds, Ctx
  <2>4. CtxStep(c, AdvancedTo(c, s))
    BY <2>2, <2>3 DEF CtxStep, Appends
  <2> QED
    BY <1>0, <2>1, <2>2, <2>4, FinishGoes
<1>4. CASE BlockAppendFails(v, i)
  <2>1. InProcess(j)
    BY <1>4 DEF BlockAppendFails
  <2>2. CASE UNCHANGED files
    BY <2>2, SameGoes
  <2>3. CASE ~UNCHANGED files
    <3>1. PICK s \in c.nextid..(MaxBlocks - 1), short \in {<<>>, <<Junk>>} :
            /\ \E e \in (s + 1)..MaxBlocks : RunEnds(c, e)
            /\ IF short = <<>> THEN "append" \in IoFaults ELSE "short" \in IoFaults
            /\ files' = [files EXCEPT ![j] = AdvancedTo(c, s)]
      BY <1>4, <2>3 DEF BlockAppendFails
    <3>2. PICK e \in (s + 1)..MaxBlocks : RunEnds(c, e)
      BY <3>1
    <3>3. s \in c.nextid..e /\ e \in 1..MaxBlocks
      BY <1>1, <2>1, <3>2, BoundsAssumption DEF Ctx
    <3>4. {"append", "short"} \cap IoFaults # {}
      BY <3>1
    <3>5. CtxStep(c, AdvancedTo(c, s))
      BY <3>2, <3>3, <3>4 DEF CtxStep, Appends
    <3>6. CASE id = j
      BY <1>0, <2>1, <3>1, <3>5, <3>6 DEF TypeOK, Goes
    <3>7. CASE id # j
      BY <3>1, <3>7, SameGoes DEF TypeOK
    <3> QED
      BY <3>6, <3>7
  <2> QED
    BY <2>2, <2>3
<1>5. CASE BlockOutOfOrder(v, i)
  <2> DEFINE d == [c EXCEPT !.entries[i] = <<v, i>>]
  <2>1. /\ InProcess(j) /\ i # c.nextid /\ i < c.cap
        /\ Finish(j, d, Part(c)) \/ FinishAborts(d, Part(c))
    BY <1>5 DEF BlockOutOfOrder
  <2>2. CtxStep(c, d)
    BY <1>0, <2>1 DEF CtxStep, Caches
  <2> HIDE DEF d
  <2> QED
    BY <1>0, <2>1, <2>2, FinishGoes
<1>6. CASE BlockPastEnd(v, i)
  BY <1>6, ClearedGoes DEF BlockPastEnd, Aborts
<1> QED
  BY <1>2, <1>3, <1>4, <1>5, <1>6 DEF Block

LEMMA HelloFollows ==
  ASSUME TypeOK, NEW v \in Versions, Hello(v), NEW id \in Ids
  PROVE  Follows(id)
<1>1. CASE HelloRefused \/ HelloWriteFails(v)
  BY <1>1, SameGoes DEF Follows, HelloRefused, HelloWriteFails, mem
<1>2. CASE HelloNoName(v)
  BY <1>2, ClearedGoes DEF Follows, HelloNoName, Aborts
<1>3. CASE HelloAccepted(v)
  <2>1. PICK w \in SavesOf(NameOf[v]) :
          files' = [files EXCEPT ![FileId[NameOf[v]]] = NewCtx(v, w, FcbOf(NameOf[v]))]
    BY <1>3 DEF HelloAccepted
  <2>2. Opened(NewCtx(v, w, FcbOf(NameOf[v])))
    BY NamesAssumption, NamesOnDisk DEF Opened, FcbOf
  <2>3. CASE id = FileId[NameOf[v]]
    BY <2>1, <2>2, <2>3 DEF TypeOK, Follows
  <2>4. CASE id # FileId[NameOf[v]]
    BY <2>1, <2>4, SameGoes DEF TypeOK, Follows
  <2> QED
    BY <2>3, <2>4
<1> QED
  BY <1>1, <1>2, <1>3 DEF Hello

(* Whatever the step, each context goes, is opened, or follows from   *)
(* what it was.                                                            *)
LEMMA EachFollows ==
  ASSUME TypeOK, [Next]_vars, NEW id \in Ids
  PROVE  Follows(id)
<1>1. CASE Start \/ UNCHANGED vars
  BY <1>1, SameGoes DEF Follows, Start, mem, vars
<1>2. CASE Fini \/ Killed
  BY <1>2, ClearedGoes DEF Follows, Fini, Killed, KilledAbout, Crash, CrashInHello, CrashInAppend,
                              CrashInFinish, Dies
<1>3. ASSUME NEW n \in Names, RecvStop(n) PROVE Follows(id)
  <2>1. UNCHANGED files \/ files' = [files EXCEPT ![FileId[n]] = Nil]
    BY <1>3 DEF RecvStop
  <2> QED
    BY <2>1, SameGoes DEF TypeOK, Follows, Goes
<1>4. ASSUME NEW n \in Names, Unregister(n) PROVE Follows(id)
  <2>1. CASE files'[id] = files[id]
    BY <2>1, SameGoes DEF Follows
  <2>2. CASE files'[id] # files[id]
    <3>1. /\ id = FileId[n] /\ InProcess(id)
          /\ files'[id] = [files[id] EXCEPT !.fcb = "freed"]
      BY <1>4, <2>2 DEF Unregister
    <3>2. "unregister" \in MidTransfer
      BY <1>4, <3>1 DEF Unregister
    <3> QED
      BY <3>1, <3>2 DEF Follows, Goes, CtxStep, LosesEntry
  <2> QED
    BY <2>1, <2>2
<1>5. CASE \/ \E n \in Names, cb \in Callbacks : Register(n, cb)
           \/ \E cb \in Callbacks : RegisterDefault(cb)
           \/ \E d \in Dirs : SetRecvdir(d)
  BY <1>5, SameGoes DEF Follows, Register, RegisterDefault, SetRecvdir
<1>6. CASE \E v \in Versions : Hello(v)
  BY <1>6, HelloFollows
<1>7. CASE \E v \in Versions, i \in 0..(MaxBlocks - 1) : Block(v, i)
  BY <1>7, BlockGoes DEF Follows
<1> QED
  BY <1>1, <1>2, <1>3, <1>4, <1>5, <1>6, <1>7 DEF Next
-----------------------------------------------------------------------------
(* Nothing that was collected is lost.                                     *)

LEMMA AdvancedKeeps ==
  ASSUME NEW c \in Ctx, NEW e, RunEnds(c, e), NEW s \in c.nextid..e
  PROVE  CollectedOf(c) \subseteq CollectedOf(AdvancedTo(c, s))
<1> DEFINE d == AdvancedTo(c, s)
<1>1. /\ c.nextid \in Nat /\ s \in Nat /\ c.nextid <= s
      /\ d.nextid = s
      /\ \A k \in 0..(MaxBlocks - 1) :
           d.entries[k] = IF c.nextid < k /\ k < s THEN Nil ELSE c.entries[k]
  BY BoundsAssumption DEF AdvancedTo, Ctx, RunEnds
<1> SUFFICES ASSUME NEW k \in CollectedOf(c) PROVE k \in CollectedOf(d)
  OBVIOUS
<1> HIDE DEF d
<1>2. CASE k \in 0..(c.nextid - 1)
  BY <1>1, <1>2 DEF CollectedOf
<1>3. CASE k \in 0..(MaxBlocks - 1) /\ c.entries[k] # Nil
  BY <1>1, <1>3, BoundsAssumption DEF CollectedOf
<1> QED
  BY <1>2, <1>3 DEF CollectedOf

LEMMA StepKeeps ==
  ASSUME NEW c \in Ctx, NEW d, CtxStep(c, d)
  PROVE  CollectedOf(c) \subseteq CollectedOf(d)
<1>1. CASE d = c
  BY <1>1
<1>2. CASE Appends(c, d)
  BY <1>2, AdvancedKeeps DEF Appends
<1>3. CASE Caches(c, d)
  <2>1. PICK b \in Payload : d = [c EXCEPT !.entries[b[2]] = b]
    BY <1>3 DEF Caches
  <2>2. b[2] \in 0..(MaxBlocks - 1) /\ b # Nil
    BY NilAssumption DEF Payload
  <2>3. /\ d.nextid = c.nextid
        /\ \A k \in 0..(MaxBlocks - 1) : c.entries[k] # Nil => d.entries[k] # Nil
    BY <2>1, <2>2 DEF Ctx
  <2> QED
    BY <2>3 DEF CollectedOf
<1>4. CASE LosesEntry(c, d)
  <2>1. d.nextid = c.nextid /\ d.entries = c.entries
    BY <1>4 DEF LosesEntry, Ctx
  <2> QED
    BY <2>1 DEF CollectedOf
<1> QED
  BY <1>1, <1>2, <1>3, <1>4 DEF CtxStep

LEMMA OpenedEmpty ==
  ASSUME NEW d, Opened(d)
  PROVE  CollectedOf(d) = {}
BY DEF Opened, NewCtx, CollectedOf

(* Whatever fails, and whatever is called or killed when, a transfer that  *)
(* goes on has all it had collected, unless a HELLO starts it over.        *)
THEOREM CollectedIsKept == Spec => KeepsCollected
<1>1. TypeOK /\ [Next]_vars =>
        \A id \in Ids : InProcess(id) /\ files'[id] # Nil =>
          \/ CollectedOf(files[id]) \subseteq CollectedOf(files'[id])
          \/ CollectedOf(files'[id]) = {}
  <2> SUFFICES ASSUME TypeOK, [Next]_vars,
                      NEW id \in Ids, InProcess(id), files'[id] # Nil
               PROVE  \/ CollectedOf(files[id]) \subseteq CollectedOf(files'[id])
                      \/ CollectedOf(files'[id]) = {}
    OBVIOUS
  <2>1. Follows(id) /\ files[id] \in Ctx
    BY EachFollows DEF TypeOK, InProcess
  <2> QED
    BY <2>1, StepKeeps, OpenedEmpty DEF Follows, Goes
<1> QED
  BY <1>1, TypeCorrect, PTL DEF Spec, KeepsCollected

-----------------------------------------------------------------------------
(* The awaited block is not in the cache, if no append fails: a failing    *)
(* append leaves the cached block it was for awaited.                      *)

LEMMA StepAwaits ==
  ASSUME {"append", "short"} \cap IoFaults = {},
         NEW c \in Ctx, NEW d, CtxStep(c, d),
         Awaiting(c) => c.entries[c.nextid] = Nil
  PROVE  Awaiting(d) => d.entries[d.nextid] = Nil
<1>1. CASE d = c
  BY <1>1
<1>2. CASE Appends(c, d)
  <2>1. PICK e \in 1..MaxBlocks : RunEnds(c, e) /\ d = AdvancedTo(c, e)
    BY <1>2 DEF Appends
  <2>2. d.nextid = e /\ d.cap = c.cap
    BY <2>1 DEF AdvancedTo, Ctx
  <2>3. ASSUME e < c.cap PROVE d.entries[e] = Nil
    <3>1. c.entries[e] = Nil /\ e \in 0..(MaxBlocks - 1)
      BY <2>1, <2>3, BoundsAssumption DEF RunEnds, Ctx
    <3> QED
      BY <2>1, <3>1 DEF AdvancedTo, Ctx
  <2> QED
    BY <2>2, <2>3 DEF Awaiting
<1>3. CASE Caches(c, d)
  <2>1. PICK b \in Payload : b[2] # c.nextid /\ d = [c EXCEPT !.entries[b[2]] = b]
    BY <1>3 DEF Caches
  <2>2. /\ d.nextid = c.nextid /\ d.cap = c.cap
        /\ d.entries = [c.entries EXCEPT ![b[2]] = b]
    BY <2>1 DEF Ctx
  <2>3. Awaiting(c) => c.nextid \in 0..(MaxBlocks - 1)
    BY BoundsAssumption DEF Awaiting, Ctx
  <2> QED
    BY <2>1, <2>2, <2>3 DEF Awaiting, Ctx
<1>4. CASE LosesEntry(c, d)
  BY <1>4 DEF LosesEntry, Awaiting, Ctx
<1> QED
  BY <1>1, <1>2, <1>3, <1>4 DEF CtxStep

LEMMA OpenedAwaits ==
  ASSUME NEW d, Opened(d)
  PROVE  Awaiting(d) => d.entries[d.nextid] = Nil
<1>1. PICK v \in Versions, w \in SaveNames, f \in {"default", "own"} : d = NewCtx(v, w, f)
  BY DEF Opened
<1>2. d.nextid = 0 /\ 0 \in 0..(MaxBlocks - 1)
  BY <1>1, BoundsAssumption DEF NewCtx
<1> QED
  BY <1>1, <1>2 DEF NewCtx

(* recv_status never reports a block that is already there.                *)
THEOREM AwaitedStaysMissing ==
  ASSUME {"append", "short"} \cap IoFaults = {}
  PROVE  Spec => []AwaitedIsMissing
<1>1. Init => AwaitedIsMissing
  BY DEF Init, AwaitedIsMissing, InProcess
<1>2. TypeOK /\ AwaitedIsMissing /\ [Next]_vars => AwaitedIsMissing'
  <2> SUFFICES ASSUME TypeOK, AwaitedIsMissing, [Next]_vars,
                      NEW id \in Ids, files'[id] # Nil
               PROVE  Awaiting(files'[id]) =>
                        files'[id].entries[files'[id].nextid] = Nil
    BY DEF AwaitedIsMissing, InProcess
  <2>1. CASE Opened(files'[id])
    BY <2>1, OpenedAwaits
  <2>2. CASE InProcess(id) /\ CtxStep(files[id], files'[id])
    <3>1. files[id] \in Ctx
      BY <2>2 DEF TypeOK, InProcess
    <3>2. Awaiting(files[id]) => files[id].entries[files[id].nextid] = Nil
      BY <2>2 DEF AwaitedIsMissing
    <3> QED
      BY <2>2, <3>1, <3>2, StepAwaits
  <2> QED
    BY <2>1, <2>2, EachFollows DEF Follows, Goes
<1> QED
  BY <1>1, <1>2, TypeCorrect, PTL DEF Spec
-----------------------------------------------------------------------------
(* The registration of a file.                                             *)

(* Only a file that is unregistered in process loses its entry.            *)
NoneFreed == "unregister" \notin MidTransfer =>
               \A id \in Ids : InProcess(id) => files[id].fcb # "freed"

FcbsOk == FcbRegistered /\ NoneFreed

(* A table that changes at id only, by steps that leave the callback, with *)
(* a registry that loses at most the name of id.                           *)
LEMMA FcbsAfter ==
  ASSUME TypeOK, FcbsOk, NEW id \in Ids, NEW n \in Names, FileId[n] = id,
         NEW d, d = Nil \/ (InProcess(id) /\ d.fcb = files[id].fcb),
         files' = [files EXCEPT ![id] = d],
         reg' = reg \/ (d = Nil /\ reg' = [reg EXCEPT ![n] = Nil])
  PROVE  FcbsOk'
<1>1. ASSUME NEW m \in Names, files'[FileId[m]] # Nil, files'[FileId[m]].fcb = "own"
      PROVE  reg'[m] # Nil
  <2>1. FileId[m] \in Ids
    BY IdsOfNames
  <2>2. CASE FileId[m] = id
    <3>1. files'[id] = d
      BY DEF TypeOK
    <3>2. InProcess(FileId[m]) /\ files[FileId[m]].fcb = "own" /\ reg' = reg
      BY <1>1, <2>2, <3>1
    <3> QED
      BY <3>2 DEF FcbsOk, FcbRegistered
  <2>3. CASE FileId[m] # id
    <3>1. files'[FileId[m]] = files[FileId[m]] /\ reg'[m] = reg[m]
      BY <2>1, <2>3 DEF TypeOK
    <3> QED
      BY <1>1, <3>1 DEF FcbsOk, FcbRegistered, InProcess
  <2> QED
    BY <2>2, <2>3
<1>2. ASSUME "unregister" \notin MidTransfer, NEW j \in Ids, files'[j] # Nil
      PROVE  files'[j].fcb # "freed"
  BY <1>2 DEF TypeOK, FcbsOk, NoneFreed, InProcess
<1> QED
  BY <1>1, <1>2 DEF FcbsOk, FcbRegistered, NoneFreed, InProcess

LEMMA FcbsSame ==
  ASSUME FcbsOk, UNCHANGED files, \A n \in Names : reg[n] # Nil => reg'[n] # Nil
  PROVE  FcbsOk'
BY DEF FcbsOk, FcbRegistered, NoneFreed, InProcess

LEMMA FcbsCleared ==
  ASSUME ClearMemory
  PROVE  FcbsOk'
BY IdsOfNames DEF ClearMemory, FcbsOk, FcbRegistered, NoneFreed, InProcess

LEMMA FinishFcbs ==
  ASSUME TypeOK, FcbsOk, NEW id \in Ids, InProcess(id), NEW d \in Ctx, CtxOk(id, d),
         d.fcb = files[id].fcb, NEW p, Finish(id, d, p) \/ FinishAborts(d, p)
  PROVE  FcbsOk'
<1>1. CASE FinishAborts(d, p)
  BY <1>1, AbortClears, FcbsCleared
<1>2. CASE Finish(id, d, p)
  <2>1. NameOf[d.ver] \in Names /\ FileId[NameOf[d.ver]] = id
    BY NamesAssumption DEF Ctx, CtxOk
  <2>2. CASE Received(id, d, p) \/ RenameFails(id, d, p) \/ HashRejects(id, d, p)
    <3>1. files' = [files EXCEPT ![id] = d] /\ reg' = reg
      BY <2>2 DEF Received, RenameFails, HashRejects
    <3> QED
      BY <2>1, <3>1, FcbsAfter
  <2>3. CASE Completes(id, d, p)
    <3>1. /\ files' = [files EXCEPT ![id] = Nil]
          /\ reg' = reg \/ reg' = [reg EXCEPT ![NameOf[d.ver]] = Nil]
      BY <2>3 DEF Completes
    <3> QED
      BY <2>1, <3>1, FcbsAfter
  <2> QED
    BY <1>2, <2>2, <2>3 DEF Finish
<1> QED
  BY <1>1, <1>2

LEMMA BlockFcbs ==
  ASSUME TypeOK, CtxsOk, FcbsOk, NEW v \in Versions, NEW i \in 0..(MaxBlocks - 1),
         Block(v, i)
  PROVE  FcbsOk'
<1> DEFINE id == FileId[NameOf[v]]
           c == files[id]
<1>0. id \in Ids /\ <<v, i>> \in Payload /\ NameOf[v] \in Names
  BY NamesAssumption, IdsOfNames DEF Payload
<1>1. InProcess(id) => c \in Ctx /\ CtxOk(id, c)
  BY <1>0 DEF InProcess, TypeOK, CtxsOk
<1>2. CASE BlockUnknown(v)
  BY <1>2, FcbsSame DEF BlockUnknown, mem
<1>3. CASE BlockInOrder(v, i)
  <2>1. InProcess(id)
    BY <1>3 DEF BlockInOrder
  <2>2. PICK s \in 1..MaxBlocks :
          /\ RunEnds(c, s)
          /\ LET d == AdvancedTo(c, s)  p == Part(c) \o RunUpTo(c, <<v, i>>, s) IN
             Finish(id, d, p) \/ FinishAborts(d, p)
    BY <1>3 DEF BlockInOrder
  <2>3. s \in c.nextid..s
    BY <1>1, <2>1, <2>2 DEF RunEnds, Ctx
  <2>4. AdvancedTo(c, s) \in Ctx /\ CtxOk(id, AdvancedTo(c, s))
    BY <1>0, <1>1, <2>1, <2>2, <2>3, AdvancedIsCtx, AdvancedCtxOk
  <2>5. AdvancedTo(c, s).fcb = c.fcb
    BY <1>1, <2>1 DEF AdvancedTo, Ctx
  <2> QED
    BY <1>0, <2>1, <2>2, <2>4, <2>5, FinishFcbs
<1>4. CASE BlockAppendFails(v, i)
  <2>1. InProcess(id) /\ reg' = reg
    BY <1>4 DEF BlockAppendFails
  <2>2. CASE UNCHANGED files
    BY <2>1, <2>2, FcbsSame
  <2>3. CASE ~UNCHANGED files
    <3>1. PICK s \in c.nextid..(MaxBlocks - 1) :
            files' = [files EXCEPT ![id] = AdvancedTo(c, s)]
      BY <1>4, <2>3 DEF BlockAppendFails
    <3>2. AdvancedTo(c, s).fcb = c.fcb
      BY <1>1, <2>1 DEF AdvancedTo, Ctx
    <3> QED
      BY <1>0, <2>1, <3>1, <3>2, FcbsAfter
  <2> QED
    BY <2>2, <2>3
<1>5. CASE BlockOutOfOrder(v, i)
  <2> DEFINE d == [c EXCEPT !.entries[i] = <<v, i>>]
  <2>1. InProcess(id) /\ (Finish(id, d, Part(c)) \/ FinishAborts(d, Part(c)))
    BY <1>5 DEF BlockOutOfOrder
  <2>2. d \in Ctx /\ CtxOk(id, d) /\ d.fcb = c.fcb
    BY <1>1, <2>1, StoredCtxOk DEF Ctx
  <2> HIDE DEF d
  <2> QED
    BY <1>0, <2>1, <2>2, FinishFcbs
<1>6. CASE BlockPastEnd(v, i)
  BY <1>6, FcbsCleared DEF BlockPastEnd, Aborts
<1> QED
  BY <1>2, <1>3, <1>4, <1>5, <1>6 DEF Block

LEMMA HelloFcbs ==
  ASSUME TypeOK, FcbsOk, NEW v \in Versions, Hello(v)
  PROVE  FcbsOk'
<1>0. /\ NameOf[v] \in Names /\ star # Nil
      /\ \A cb \in Callbacks : cb # Nil
  BY NamesAssumption, NilAssumption DEF TypeOK
<1>1. RegisterByHello(NameOf[v]) => \A n \in Names : reg[n] # Nil => reg'[n] # Nil
  BY <1>0 DEF RegisterByHello, TypeOK
<1>2. CASE HelloRefused
  BY <1>2, FcbsSame DEF HelloRefused, mem
<1>3. CASE HelloWriteFails(v)
  BY <1>1, <1>3, FcbsSame DEF HelloWriteFails
<1>4. CASE HelloNoName(v)
  BY <1>4, FcbsCleared DEF HelloNoName, Aborts
<1>5. CASE HelloAccepted(v)
  <2> DEFINE id == FileId[NameOf[v]]
  <2>1. PICK w \in SavesOf(NameOf[v]) :
          files' = [files EXCEPT ![id] = NewCtx(v, w, FcbOf(NameOf[v]))]
    BY <1>5 DEF HelloAccepted
  <2>2. \A n \in Names : reg[n] # Nil => reg'[n] # Nil
    BY <1>1, <1>5 DEF HelloAccepted
  <2> DEFINE d == NewCtx(v, w, FcbOf(NameOf[v]))
  <2>3. d.fcb = FcbOf(NameOf[v])
    BY DEF NewCtx
  <2> HIDE DEF d
  <2>4. ASSUME NEW m \in Names, files'[FileId[m]] # Nil, files'[FileId[m]].fcb = "own"
        PROVE  reg[m] # Nil
    <3>1. FileId[m] \in Ids
      BY IdsOfNames
    <3>2. CASE m = NameOf[v]
      <4>1. files'[FileId[m]] = d
        BY <2>1, <3>1, <3>2 DEF TypeOK, d
      <4> QED
        BY <2>3, <2>4, <3>2, <4>1 DEF FcbOf
    <3>3. CASE m # NameOf[v]
      <4>1. FileId[m] # id
        BY <1>0, <3>3, NamesAssumption
      <4>2. files'[FileId[m]] = files[FileId[m]]
        BY <2>1, <3>1, <4>1 DEF TypeOK
      <4> QED
        BY <2>4, <4>2 DEF FcbsOk, FcbRegistered, InProcess
    <3> QED
      BY <3>2, <3>3
  <2>5. ASSUME "unregister" \notin MidTransfer, NEW j \in Ids, files'[j] # Nil
        PROVE  files'[j].fcb # "freed"
    <3>1. files'[j] = files[j] \/ files'[j] = d
      BY <2>1 DEF TypeOK, d
    <3> QED
      BY <2>3, <2>5, <3>1 DEF FcbOf, FcbsOk, NoneFreed, InProcess
  <2> QED
    BY <2>2, <2>4, <2>5 DEF FcbsOk, FcbRegistered, NoneFreed, InProcess
<1> QED
  BY <1>2, <1>3, <1>4, <1>5 DEF Hello

LEMMA FcbsStep ==
  ASSUME TypeOK, CtxsOk, FcbsOk, [Next]_vars
  PROVE  FcbsOk'
<1>0. \A cb \in Callbacks : cb # Nil
  BY NilAssumption
<1>1. CASE Start \/ UNCHANGED vars
  BY <1>1, FcbsSame DEF Start, mem, vars
<1>2. CASE Fini \/ Killed
  BY <1>2, FcbsCleared DEF Fini, Killed, KilledAbout, Crash, CrashInHello, CrashInAppend,
                           CrashInFinish, Dies
<1>3. ASSUME NEW n \in Names, RecvStop(n) PROVE FcbsOk'
  <2>0. FileId[n] \in Ids
    BY IdsOfNames
  <2>1. CASE UNCHANGED <<files, reg>>
    BY <2>1, FcbsSame
  <2>2. CASE ~UNCHANGED <<files, reg>>
    <3>1. /\ files' = [files EXCEPT ![FileId[n]] = Nil]
          /\ reg' = reg \/ reg' = [reg EXCEPT ![n] = Nil]
      BY <1>3, <2>2 DEF RecvStop
    <3> QED
      BY <2>0, <3>1, FcbsAfter
  <2> QED
    BY <2>1, <2>2
<1>4. ASSUME NEW n \in Names, Unregister(n) PROVE FcbsOk'
  <2>0. FileId[n] \in Ids
    BY IdsOfNames
  <2>1. /\ reg' = [reg EXCEPT ![n] = Nil]
        /\ InProcess(FileId[n]) => "unregister" \in MidTransfer
    BY <1>4 DEF Unregister
  <2>2. \A id \in Ids : files'[id] = IF id = FileId[n] /\ InProcess(id) /\ files[id].fcb = "own"
                                     THEN [files[id] EXCEPT !.fcb = "freed"] ELSE files[id]
    BY <1>4 DEF Unregister
  <2>3. ASSUME NEW m \in Names, files'[FileId[m]] # Nil, files'[FileId[m]].fcb = "own"
        PROVE  reg'[m] # Nil
    <3>1. FileId[m] \in Ids
      BY IdsOfNames
    <3>2. InProcess(FileId[m]) => files[FileId[m]] \in Ctx
      BY <3>1 DEF TypeOK, InProcess
    <3>3. ~(InProcess(FileId[m]) /\ files[FileId[m]].fcb = "own" /\ m = n)
      BY <2>2, <2>3, <3>1, <3>2 DEF Ctx
    <3>4. files'[FileId[m]] = files[FileId[m]] /\ m # n
      BY <2>2, <2>3, <3>1, <3>3, NamesAssumption DEF InProcess
    <3>5. InProcess(FileId[m]) /\ files[FileId[m]].fcb = "own"
      BY <2>3, <3>4 DEF InProcess
    <3> QED
      BY <2>1, <3>4, <3>5 DEF FcbsOk, FcbRegistered, TypeOK
  <2>4. NoneFreed'
    <3> SUFFICES ASSUME "unregister" \notin MidTransfer, NEW id \in Ids, files'[id] # Nil
                 PROVE  files'[id].fcb # "freed"
      BY DEF NoneFreed, InProcess
    <3>1. files'[id] = files[id]
      BY <2>1, <2>2
    <3> QED
      BY <3>1 DEF FcbsOk, NoneFreed, InProcess
  <2> QED
    BY <2>3, <2>4 DEF FcbsOk, FcbRegistered, InProcess
<1>5. ASSUME NEW n \in Names, NEW cb \in Callbacks, Register(n, cb) PROVE FcbsOk'
  <2>1. UNCHANGED files /\ (reg' = reg \/ reg' = [reg EXCEPT ![n] = cb])
    BY <1>5 DEF Register
  <2>2. \A m \in Names : reg[m] # Nil => reg'[m] # Nil
    BY <1>0, <2>1 DEF TypeOK
  <2> QED
    BY <2>1, <2>2, FcbsSame
<1>6. CASE \/ \E cb \in Callbacks : RegisterDefault(cb)
           \/ \E d \in Dirs : SetRecvdir(d)
  BY <1>6, FcbsSame DEF RegisterDefault, SetRecvdir
<1>7. CASE \E v \in Versions : Hello(v)
  BY <1>7, HelloFcbs
<1>8. CASE \E v \in Versions, i \in 0..(MaxBlocks - 1) : Block(v, i)
  BY <1>8, BlockFcbs
<1> QED
  BY <1>1, <1>2, <1>3, <1>4, <1>5, <1>6, <1>7, <1>8 DEF Next

LEMMA FcbsInvariant == Spec => []FcbsOk
<1>1. Init => FcbsOk
  BY IdsOfNames DEF Init, FcbsOk, FcbRegistered, NoneFreed, InProcess
<1>2. TypeOK /\ CtxsOk /\ FcbsOk /\ [Next]_vars => FcbsOk'
  BY FcbsStep
<1> QED
  BY <1>1, <1>2, TypeCorrect, ContextsWellFormed, PTL DEF Spec

(* The entry a context points to is in the registry when the transfer ends *)
(* and frees it, unless the application has unregistered the file while it *)
(* was in process.                                                         *)
THEOREM FcbStaysRegistered == Spec => []FcbRegistered
<1>1. FcbsOk => FcbRegistered
  BY DEF FcbsOk
<1> QED
  BY <1>1, FcbsInvariant, PTL

=============================================================================
