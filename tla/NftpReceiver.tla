--------------------------- MODULE NftpReceiver ---------------------------
(***************************************************************************)
(* The receiving half of src/src/proto.c: the table of files in process,   *)
(* the registry of callbacks, the receive directory and what the handlers  *)
(* of HELLO, FILE and END do to the disk.                                  *)
(*                                                                         *)
(* proto.c is documented as not thread safe (README.md:51), so a call is   *)
(* one step; a crash may cut a call short between two of its writes.  The  *)
(* network is not modelled here: any message a sender ever makes may be    *)
(* handled at any time, any number of times, which is every loss,          *)
(* duplication, delay and reordering there is.                             *)
(*                                                                         *)
(* A VERSION is one content of a named file, a block is <<version, seq>>,  *)
(* and the checksum is taken to tell contents apart.  The registry vector  *)
(* is a map: nothing but the fixed place of "*" depends on its order.      *)
(* ctx->len and ctx->status are written and never read; they are left out. *)
(***************************************************************************)
EXTENDS Integers, Sequences, FiniteSets

CONSTANTS
  Names,        \* base names of the files that are sent
  Versions,     \* the contents they are sent with
  NameOf,       \* [Versions -> Names]
  Blocks,       \* [Versions -> 1..MaxBlocks], the block count HELLO announces
  MaxBlocks,    \* bound on the blocks of a file (0xFFFF in the code)
  FileId,       \* [Names -> Nat], NFTP_HASH of a name
  Suffixed,     \* [Names \X (1..MaxSuffix) -> file names], "n_01", "n_02", ...
  MaxSuffix,    \* how many suffixes nftp_file_newname tries (99 in the code)
  PartOf,       \* [SaveNames -> file names], "s.part"
  MaxFcb,       \* NFTP_FILES, the capacity of the registry
  Callbacks,    \* the callbacks the application registers, NoCb among them
  NoCb,         \* a NULL callback
  Dirs, Cwd,    \* receive directories, and the one in use when none is set
  Existing,     \* names of files that may be in the directories beforehand
  MaxPart,      \* bound of the model: a longer part file meets no short write
  Calls,        \* the API calls the application makes
  MidTransfer,  \* the calls it makes even while a file they touch is in process
  IoFaults,     \* the operations that may fail
  Nil, Junk     \* nothing; bytes that are no block

SavesOf(n) == {n} \cup {Suffixed[n, k] : k \in 1..MaxSuffix}
SaveNames == UNION {SavesOf(n) : n \in Names}
FileNames == SaveNames \cup {PartOf[s] : s \in SaveNames}
Ids == {FileId[n] : n \in Names} \cup {0}
Payload == Versions \X (0..(MaxBlocks - 1))
Data == Seq(Payload \cup {Junk})

ASSUME NamesAssumption ==
  /\ NameOf \in [Versions -> Names]
  /\ FileId \in [Names -> Nat]
  /\ \A m, n \in Names : FileId[m] = FileId[n] => m = n
ASSUME BoundsAssumption ==
  /\ MaxBlocks \in Nat /\ MaxSuffix \in Nat /\ MaxFcb \in Nat
  /\ MaxPart \in Nat
  /\ Blocks \in [Versions -> 1..MaxBlocks]
ASSUME DiskAssumption ==
  /\ \A s, t \in SaveNames : PartOf[s] = PartOf[t] => s = t
  /\ Cwd \in Dirs /\ Existing \subseteq FileNames
ASSUME CallbackAssumption == NoCb \in Callbacks
ASSUME NilAssumption ==
  Nil \notin Payload \cup {Junk} \cup Callbacks \cup SaveNames \cup Data
ASSUME JunkAssumption == Junk \notin Payload

VARIABLES
  proc,     \* "up" between init and fini, "down", or "abort"ed by a bad access
  files,    \* the hash table files: id -> struct nctx, or Nil
  star,     \* the callback of "*", the first entry of fcb_reg
  reg,      \* the other entries of fcb_reg: name -> callback, or Nil
  recvdir,  \* where files are received
  disk,     \* directory, file name -> content, or Nil
  out       \* what the last call returned, answered, saved and ran

mem == <<files, star, reg, recvdir>>
vars == <<proc, files, star, reg, recvdir, disk, out>>

(* struct nctx.  fcb points into the registry: at the "*" entry, at the    *)
(* entry of the file's own name, or at an entry unregister has freed.      *)
Ctx == [cap     : 1..MaxBlocks,
        nextid  : 0..MaxBlocks,
        entries : [0..(MaxBlocks - 1) -> Payload \cup {Nil}],
        ver     : Versions,
        wfname  : SaveNames,
        fcb     : {"default", "own", "freed"}]
ASSUME NoCtxAssumption == Nil \notin Ctx

(* What a call gave its caller: the return value, an ACK to send, the name *)
(* of the saved file, and the callback that ran on the way.                *)
Outcome == [rv    : {"ok", "none", "ERR_HT", "ERR_OVERFLOW", "ERR_FILE", "ERR_PROTO"},
            ack   : BOOLEAN,
            saved : SaveNames \cup {Nil},
            ran   : Callbacks \cup {Nil}]

InProcess(id) == files[id] # Nil
Idle == \A id \in Ids : ~InProcess(id)
Result(rv) == [rv |-> rv, ack |-> FALSE, saved |-> Nil, ran |-> Nil]
Content(v) == [k \in 1..Blocks[v] |-> <<v, k - 1>>]

(* Mutant: the loop that clears the entries stops one short.               *)
LastEntryUnset(v, w, f) ==
  [cap |-> Blocks[v], nextid |-> 0,
   entries |-> [k \in 0..(MaxBlocks - 1) |-> IF k = Blocks[v] - 1 THEN Junk ELSE Nil],
   ver |-> v, wfname |-> w, fcb |-> f]

NewCtx(v, w, f) ==
  [cap |-> Blocks[v], nextid |-> 0,
   entries |-> [k \in 0..(MaxBlocks - 1) |-> Nil],
   ver |-> v, wfname |-> w, fcb |-> f]

-----------------------------------------------------------------------------
(* The process.                                                            *)

ClearMemory ==
  /\ files' = [id \in Ids |-> Nil]
  /\ star' = NoCb
  /\ reg' = [n \in Names |-> Nil]
  /\ recvdir' = Cwd
  /\ out' = Result("none")

Init ==
  /\ proc = "down"
  /\ files = [id \in Ids |-> Nil]
  /\ star = NoCb
  /\ reg = [n \in Names |-> Nil]
  /\ recvdir = Cwd
  /\ out = Result("none")
  /\ \E E \in SUBSET (Dirs \X Existing) :
       disk = [x \in Dirs \X FileNames |-> IF x \in E THEN <<Junk>> ELSE Nil]

Start == /\ proc # "up" /\ proc' = "up"
         /\ UNCHANGED <<mem, disk, out>>

Fini == /\ proc = "up" /\ "fini" \in Calls
        /\ proc' = "down"
        /\ ClearMemory
        /\ UNCHANGED disk

Dies == proc' = "down" /\ ClearMemory
Aborts == proc' = "abort" /\ ClearMemory

-----------------------------------------------------------------------------
(* The registry.                                                           *)

RegistryFull == Cardinality({n \in Names : reg[n] # Nil}) + 1 >= MaxFcb

Register(n, cb) ==
  /\ proc = "up" /\ "register" \in Calls
  /\ IF reg[n] # Nil
       THEN /\ reg' = reg /\ out' = Result("ERR_HT")
       ELSE IF RegistryFull
         THEN /\ reg' = reg /\ out' = Result("ERR_OVERFLOW")
         ELSE /\ reg' = [reg EXCEPT ![n] = cb] /\ out' = Result("ok")
  /\ UNCHANGED <<proc, files, star, recvdir, disk>>

RegisterDefault(cb) ==
  /\ proc = "up" /\ "default" \in Calls
  /\ star' = cb
  /\ out' = Result("ok")
  /\ UNCHANGED <<proc, files, reg, recvdir, disk>>

Unregister(n) ==
  /\ proc = "up" /\ "unregister" \in Calls
  /\ InProcess(FileId[n]) => "unregister" \in MidTransfer
  /\ reg' = [reg EXCEPT ![n] = Nil]
  /\ out' = Result(IF reg[n] # Nil THEN "ok" ELSE "ERR_HT")
  /\ files' = [id \in Ids |->
                 IF id = FileId[n] /\ InProcess(id) /\ files[id].fcb = "own"
                   THEN [files[id] EXCEPT !.fcb = "freed"] ELSE files[id]]
  /\ UNCHANGED <<proc, star, recvdir, disk>>

SetRecvdir(d) ==
  /\ proc = "up" /\ "set_recvdir" \in Calls
  /\ Idle \/ "set_recvdir" \in MidTransfer
  /\ recvdir' = d
  /\ out' = Result("ok")
  /\ UNCHANGED <<proc, files, star, reg, disk>>

-----------------------------------------------------------------------------
(* HELLO.                                                                  *)

At(s) == <<recvdir, s>>
(* Mutant: the name is looked up without the receive directory.            *)
ExistsInCwd(s) == disk[<<Cwd, s>>] # Nil

Exists(s) == disk[At(s)] # Nil

(* Mutant: the suffixed name is taken unseen.                              *)
FirstSuffix(n, w) ==
  \/ w = n /\ ~Exists(n)
  \/ Exists(n) /\ w = Suffixed[n, 1]

(* The name the file will be saved under: its own, or the first suffixed   *)
(* name that is free when HELLO is handled.                                *)
FirstFree(n, w) ==
  \/ w = n /\ ~Exists(n)
  \/ /\ Exists(n)
     /\ \E k \in 1..MaxSuffix : /\ w = Suffixed[n, k] /\ ~Exists(w)
                                /\ \A j \in 1..(k - 1) : Exists(Suffixed[n, j])

NoFreeName(n) == \A s \in SavesOf(n) : Exists(s)

(* decode leaves fileid of a HELLO at 0, so the check "is a file with this *)
(* id in process" looks up id 0 whatever the name is.                      *)
Refused == InProcess(0)

FcbOf(n) == IF reg[n] # Nil THEN "own" ELSE "default"

(* A name nobody registered is registered with a copy of the "*" callback; *)
(* the result of that call is ignored.                                     *)
RegisterByHello(n) ==
  reg' = IF reg[n] # Nil \/ RegistryFull THEN reg ELSE [reg EXCEPT ![n] = star]

(* Mutant: an old part file is not truncated.                              *)
KeepOldPart(w) ==
  disk' = [disk EXCEPT ![At(PartOf[w])] = IF @ = Nil THEN <<>> ELSE @]

CreatePart(w) == disk' = [disk EXCEPT ![At(PartOf[w])] = <<>>]

HelloRefused ==
  /\ Refused
  /\ out' = Result("ERR_HT")
  /\ UNCHANGED <<proc, mem, disk>>

HelloAccepted(v) ==
  LET n == NameOf[v]  id == FileId[n] IN
  /\ ~Refused
  /\ \E w \in SavesOf(n) :
       /\ FirstFree(n, w)
       /\ CreatePart(w)
       /\ files' = [files EXCEPT ![id] = NewCtx(v, w, FcbOf(n))]
  /\ RegisterByHello(n)
  /\ out' = IF InProcess(id) THEN Result("ERR_HT")  \* ht_insert: HT_UPDATED
            ELSE [Result("ok") EXCEPT !.ack = TRUE]
  /\ UNCHANGED <<proc, star, recvdir>>

HelloWriteFails(v) ==
  /\ ~Refused /\ "write" \in IoFaults /\ ~NoFreeName(NameOf[v])
  /\ RegisterByHello(NameOf[v])
  /\ out' = Result("ERR_FILE")
  /\ UNCHANGED <<proc, files, star, recvdir, disk>>

HelloNoName(v) ==
  /\ ~Refused /\ NoFreeName(NameOf[v])
  /\ Aborts
  /\ UNCHANGED disk

Hello(v) == /\ proc = "up"
            /\ \/ HelloRefused \/ HelloAccepted(v)
               \/ HelloWriteFails(v) \/ HelloNoName(v)

-----------------------------------------------------------------------------
(* FILE and END, the same code for both.                                   *)

(* Mutant: the part file is named after the file, not after its new name.  *)
PartOfName(c) == PartOf[NameOf[c.ver]]

PartFile(c) == PartOf[c.wfname]
Part(c) == disk[At(PartFile(c))]

(* Mutant: the cached blocks that follow are left in the cache.            *)
RunOfOne(c, s) == s = c.nextid + 1 /\ s \in 1..MaxBlocks

(* The block at nextid is appended, then the cached blocks that follow it; *)
(* s is the first sequence number that is neither.                         *)
RunEnds(c, s) ==
  /\ s \in (c.nextid + 1)..MaxBlocks
  /\ s < c.cap => c.entries[s] = Nil
  /\ \A k \in (c.nextid + 1)..(s - 1) : k < c.cap /\ c.entries[k] # Nil

RunUpTo(c, b, s) ==
  [j \in 1..(s - c.nextid) |-> IF j = 1 THEN b ELSE c.entries[c.nextid + j - 1]]

AdvancedTo(c, s) ==
  [c EXCEPT !.nextid = s,
            !.entries = [k \in 0..(MaxBlocks - 1) |->
                           IF c.nextid < k /\ k < s THEN Nil ELSE c.entries[k]]]

(* What handler does once a block is in place.  p is the part file by now. *)
Received(id, c, p) ==
  /\ c.nextid # c.cap
  /\ files' = [files EXCEPT ![id] = c]
  /\ disk' = [disk EXCEPT ![At(PartFile(c))] = p]
  /\ out' = Result("ok")
  /\ UNCHANGED <<proc, reg>>

RenameFails(id, c, p) ==
  /\ c.nextid = c.cap
  /\ p = Nil \/ "rename" \in IoFaults
  /\ files' = [files EXCEPT ![id] = c]
  /\ disk' = [disk EXCEPT ![At(PartFile(c))] = p]
  /\ out' = Result("ERR_FILE")
  /\ UNCHANGED <<proc, reg>>

(* Mutant: the part file is renamed to the name the file was sent under.   *)
RenamedToSentName(c, p) ==
  /\ c.nextid = c.cap /\ p # Nil
  /\ disk' = [disk EXCEPT ![At(PartFile(c))] = Nil,
                          ![At(NameOf[c.ver])] = p]

(* Mutant: the file is copied to its final name, the part file stays.      *)
Copied(c, p) ==
  /\ c.nextid = c.cap /\ p # Nil
  /\ disk' = [disk EXCEPT ![At(c.wfname)] = p]

Renamed(c, p) ==
  /\ c.nextid = c.cap /\ p # Nil
  /\ disk' = [disk EXCEPT ![At(PartFile(c))] = Nil,
                          ![At(c.wfname)] = p]

(* The checksum is computed after the rename; when that fails or does not  *)
(* match, the file stays under its final name and the context in files.    *)
HashRejects(id, c, p) ==
  /\ Renamed(c, p)
  /\ files' = [files EXCEPT ![id] = c]
  /\ \/ /\ "hash" \in IoFaults
        /\ out' = [Result("ERR_FILE") EXCEPT !.saved = c.wfname]
     \/ /\ p # Content(c.ver)
        /\ out' = [Result("ERR_PROTO") EXCEPT !.saved = c.wfname]
  /\ UNCHANGED <<proc, reg>>

(* Mutant: a file that is done stays in the table.                         *)
CompletesInTable(id, c, p) ==
  LET n == NameOf[c.ver]
      cb == IF c.fcb = "own" THEN reg[n] ELSE star IN
  /\ Renamed(c, p) /\ p = Content(c.ver) /\ c.fcb # "freed"
  /\ out' = [rv |-> "ok", ack |-> FALSE, saved |-> c.wfname,
             ran |-> IF cb = NoCb THEN Nil ELSE cb]
  /\ reg' = IF c.fcb = "own" THEN [reg EXCEPT ![n] = Nil] ELSE reg
  /\ files' = [files EXCEPT ![id] = c]
  /\ UNCHANGED proc

Completes(id, c, p) ==
  LET n == NameOf[c.ver]
      cb == IF c.fcb = "own" THEN reg[n] ELSE star IN
  /\ Renamed(c, p) /\ p = Content(c.ver) /\ c.fcb # "freed"
  /\ out' = [rv |-> "ok", ack |-> FALSE, saved |-> c.wfname,
             ran |-> IF cb = NoCb THEN Nil ELSE cb]
  /\ reg' = IF c.fcb = "own" THEN [reg EXCEPT ![n] = Nil] ELSE reg
  /\ files' = [files EXCEPT ![id] = Nil]
  /\ UNCHANGED proc

Finish(id, c, p) ==
  /\ \/ Received(id, c, p) \/ RenameFails(id, c, p)
     \/ HashRejects(id, c, p) \/ Completes(id, c, p)
  /\ UNCHANGED <<star, recvdir>>

(* The callback is read through a pointer that unregister has freed.       *)
FinishAborts(c, p) ==
  /\ Renamed(c, p) /\ p = Content(c.ver) /\ c.fcb = "freed"
  /\ Aborts

(* Mutant: a block of a file that is not in process opens it.              *)
BlockOpens(v) ==
  LET n == NameOf[v] IN
  /\ ~InProcess(FileId[n])
  /\ \E w \in SavesOf(n) :
       /\ FirstFree(n, w) /\ CreatePart(w)
       /\ files' = [files EXCEPT ![FileId[n]] = NewCtx(v, w, "default")]
  /\ out' = Result("ok")
  /\ UNCHANGED <<proc, star, reg, recvdir>>

BlockUnknown(v) ==
  /\ ~InProcess(FileId[NameOf[v]])
  /\ out' = Result("ERR_HT")
  /\ UNCHANGED <<proc, mem, disk>>

(* Mutant: a block that was appended before is appended again.             *)
BlockAgain(v, i) ==
  LET id == FileId[NameOf[v]]  c == files[id] IN
  /\ InProcess(id) /\ i <= c.nextid /\ Part(c) # Nil
  /\ \E s \in 1..MaxBlocks :
       /\ RunEnds(c, s)
       /\ LET p == Part(c) \o RunUpTo(c, <<v, i>>, s)
              d == AdvancedTo(c, s)
          IN Finish(id, d, p) \/ FinishAborts(d, p)

BlockInOrder(v, i) ==
  LET id == FileId[NameOf[v]]  c == files[id] IN
  /\ InProcess(id) /\ i = c.nextid /\ Part(c) # Nil
  /\ \E s \in 1..MaxBlocks :
       /\ RunEnds(c, s)
       /\ LET p == Part(c) \o RunUpTo(c, <<v, i>>, s)
              d == AdvancedTo(c, s)
          IN Finish(id, d, p) \/ FinishAborts(d, p)

(* Mutant: nextid moves on only once the whole run is appended.            *)
AppendFailsUncounted(v, i) ==
  LET id == FileId[NameOf[v]]  c == files[id] IN
  /\ InProcess(id) /\ i = c.nextid /\ Part(c) # Nil /\ "append" \in IoFaults
  /\ \E s \in c.nextid..(MaxBlocks - 1) :
       /\ \E e \in (s + 1)..MaxBlocks : RunEnds(c, e)
       /\ disk' = [disk EXCEPT ![At(PartFile(c))] =
                     Part(c) \o RunUpTo(c, <<v, i>>, s)]
  /\ out' = Result("ERR_FILE")
  /\ UNCHANGED <<proc, files, star, reg, recvdir>>

(* Mutant: a cached block is freed before it is appended.                  *)
AppendFailsFreed(v, i) ==
  LET id == FileId[NameOf[v]]  c == files[id] IN
  /\ InProcess(id) /\ i = c.nextid /\ Part(c) # Nil /\ "append" \in IoFaults
  /\ \E s \in c.nextid..(MaxBlocks - 1) :
       /\ \E e \in (s + 1)..MaxBlocks : RunEnds(c, e)
       /\ files' = [files EXCEPT ![id] = [AdvancedTo(c, s) EXCEPT !.entries[s] = Nil]]
       /\ disk' = [disk EXCEPT ![At(PartFile(c))] =
                     Part(c) \o RunUpTo(c, <<v, i>>, s)]
  /\ out' = Result("ERR_FILE")
  /\ UNCHANGED <<proc, star, reg, recvdir>>

(* Appending block s of the run fails, after the blocks before it went to  *)
(* the part file; a short write leaves some of its bytes there.            *)
BlockAppendFails(v, i) ==
  LET id == FileId[NameOf[v]]  c == files[id] IN
  /\ InProcess(id) /\ i = c.nextid
  /\ \/ /\ Part(c) = Nil
        /\ UNCHANGED <<files, disk>>
     \/ /\ Part(c) # Nil
        /\ \E s \in c.nextid..(MaxBlocks - 1), short \in {<<>>, <<Junk>>} :
             /\ \E e \in (s + 1)..MaxBlocks : RunEnds(c, e)
             /\ IF short = <<>> THEN "append" \in IoFaults
                  ELSE "short" \in IoFaults /\ Len(Part(c)) < MaxPart
             /\ files' = [files EXCEPT ![id] = AdvancedTo(c, s)]
             /\ disk' = [disk EXCEPT ![At(PartFile(c))] =
                           Part(c) \o RunUpTo(c, <<v, i>>, s) \o short]
  /\ out' = Result("ERR_FILE")
  /\ UNCHANGED <<proc, star, reg, recvdir>>

BlockOutOfOrder(v, i) ==
  LET id == FileId[NameOf[v]]  c == files[id] IN
  /\ InProcess(id) /\ i # c.nextid /\ i < c.cap
  /\ LET d == [c EXCEPT !.entries[i] = <<v, i>>]
     IN Finish(id, d, Part(c)) \/ FinishAborts(d, Part(c))

(* entries has cap elements; nothing compares the sequence number to it.   *)
BlockPastEnd(v, i) ==
  LET c == files[FileId[NameOf[v]]] IN
  /\ InProcess(FileId[NameOf[v]]) /\ i # c.nextid /\ i >= c.cap
  /\ Aborts
  /\ UNCHANGED disk

Block(v, i) == /\ proc = "up" /\ i \in 0..(Blocks[v] - 1)
               /\ \/ BlockUnknown(v) \/ BlockInOrder(v, i)
                  \/ BlockAppendFails(v, i)
                  \/ BlockOutOfOrder(v, i) \/ BlockPastEnd(v, i)

-----------------------------------------------------------------------------
(* nftp_proto_recv_stop.  The context leaves the table first, so when the  *)
(* part file cannot be removed the context and its fcb stay behind.        *)

(* Mutant: the callback is freed and the context stays in the table.       *)
RecvStopInTable(n) ==
  LET id == FileId[n]  c == files[id] IN
  /\ proc = "up" /\ "stop" \in Calls /\ InProcess(id)
  /\ reg' = IF c.fcb = "own" THEN [reg EXCEPT ![n] = Nil] ELSE reg
  /\ out' = Result("ERR_FILE")
  /\ UNCHANGED <<proc, files, star, recvdir, disk>>

(* Mutant: the file of that name is removed, and not its part file.        *)
RecvStopRemovesFile(n) ==
  LET id == FileId[n]  c == files[id] IN
  /\ proc = "up" /\ "stop" \in Calls /\ InProcess(id)
  /\ files' = [files EXCEPT ![id] = Nil]
  /\ disk' = [disk EXCEPT ![At(n)] = Nil]
  /\ reg' = IF c.fcb = "own" THEN [reg EXCEPT ![n] = Nil] ELSE reg
  /\ out' = Result("ok")
  /\ UNCHANGED <<proc, star, recvdir>>

RecvStop(n) ==
  LET id == FileId[n]  c == files[id] IN
  /\ proc = "up" /\ "stop" \in Calls
  /\ \/ /\ ~InProcess(id)
        /\ out' = Result("ERR_HT")
        /\ UNCHANGED <<files, reg, disk>>
     \/ /\ InProcess(id)
        /\ files' = [files EXCEPT ![id] = Nil]
        /\ \/ /\ Part(c) = Nil \/ "remove" \in IoFaults
              /\ out' = Result("ERR_FILE")
              /\ UNCHANGED <<reg, disk>>
           \/ /\ Part(c) # Nil
              /\ disk' = [disk EXCEPT ![At(PartFile(c))] = Nil]
              /\ reg' = IF c.fcb = "own" THEN [reg EXCEPT ![n] = Nil] ELSE reg
              /\ out' = Result("ok")
  /\ UNCHANGED <<proc, star, recvdir>>

-----------------------------------------------------------------------------
(* The process is killed: between two calls, inside a HELLO, or inside a   *)
(* block with any part of what the call writes already on the disk.        *)

Crash == Dies /\ UNCHANGED disk

CrashInHello(v) ==
  /\ ~Refused
  /\ \E w \in SavesOf(NameOf[v]) : FirstFree(NameOf[v], w) /\ CreatePart(w)
  /\ Dies

CrashInAppend(v, i) ==
  LET c == files[FileId[NameOf[v]]] IN
  /\ InProcess(FileId[NameOf[v]]) /\ i = c.nextid /\ Part(c) # Nil
  /\ \E e \in 1..MaxBlocks, short \in {<<>>, <<Junk>>} :
       /\ RunEnds(c, e)
       /\ \E s \in c.nextid..e :
            disk' = [disk EXCEPT ![At(PartFile(c))] =
                       Part(c) \o RunUpTo(c, <<v, i>>, s) \o short]
  /\ Dies

(* After the rename, before the checksum is looked at.                     *)
CrashInFinish(v, i) ==
  LET c == files[FileId[NameOf[v]]] IN
  /\ InProcess(FileId[NameOf[v]]) /\ i = c.nextid /\ Part(c) # Nil
  /\ \E s \in 1..MaxBlocks :
       RunEnds(c, s) /\ Renamed(AdvancedTo(c, s), Part(c) \o RunUpTo(c, <<v, i>>, s))
  /\ Dies

KilledAbout(V) ==
  /\ proc = "up" /\ "crash" \in Calls
  /\ \/ Crash
     \/ \E v \in V :
          \/ CrashInHello(v)
          \/ \E i \in 0..(Blocks[v] - 1) : CrashInAppend(v, i) \/ CrashInFinish(v, i)

Killed == KilledAbout(Versions)

-----------------------------------------------------------------------------
Next ==
  \/ Start \/ Fini \/ Killed
  \/ \E n \in Names : RecvStop(n) \/ Unregister(n)
  \/ \E n \in Names, cb \in Callbacks : Register(n, cb)
  \/ \E cb \in Callbacks : RegisterDefault(cb)
  \/ \E d \in Dirs : SetRecvdir(d)
  \/ \E v \in Versions :
       Hello(v) \/ \E i \in 0..(MaxBlocks - 1) : Block(v, i)

Spec == Init /\ [][Next]_vars

-----------------------------------------------------------------------------
(* Properties.                                                             *)

(* Every variable keeps its type.                                          *)
TypeOK ==
  /\ proc \in {"up", "down", "abort"}
  /\ files \in [Ids -> Ctx \cup {Nil}]
  /\ star \in Callbacks
  /\ reg \in [Names -> Callbacks \cup {Nil}]
  /\ recvdir \in Dirs
  /\ disk \in [Dirs \X FileNames -> Data \cup {Nil}]
  /\ out \in Outcome

Awaiting(c) == c.nextid < c.cap

(* b is block seq of a version of the file that c receives.                *)
BlockOf(c, b, seq) == b \in Payload /\ NameOf[b[1]] = NameOf[c.ver] /\ b[2] = seq

PartOk(c, p) ==
  /\ Awaiting(c) => p # Nil
  /\ p # Nil => /\ Len(p) = c.nextid
                /\ \A k \in 1..Len(p) : BlockOf(c, p[k], k - 1)

(* A context belongs to its name, saves under a name of that name, and     *)
(* caches each block of that file in its own place.                        *)
CtxOk(id, c) ==
  /\ FileId[NameOf[c.ver]] = id
  /\ c.cap = Blocks[c.ver]
  /\ c.wfname \in SavesOf(NameOf[c.ver])
  /\ \A k \in 0..(MaxBlocks - 1) :
       c.entries[k] # Nil => BlockOf(c, c.entries[k], k)

CtxsOk == \A id \in Ids : InProcess(id) => CtxOk(id, files[id])

(* However blocks arrive, the part file of a transfer is blocks 0 to       *)
(* nextid - 1 in order, and is there for as long as blocks are awaited: a  *)
(* resumed or a repeated block never tears it (handler, FILE, 499-533).    *)
PartInOrder == \A id \in Ids : InProcess(id) => PartOk(files[id], Part(files[id]))

(* The name picked at HELLO is still free when the part is renamed to it,  *)
(* however long that takes (proto.c:453-463 against 545-546).              *)
TargetFree ==
  \A id \in Ids : InProcess(id) /\ Part(files[id]) # Nil =>
    ~Exists(files[id].wfname)

(* The block that recv_status reports as next, the one the application asks *)
(* the sender for, is never one that already lies in the cache.            *)
AwaitedIsMissing ==
  \A id \in Ids : InProcess(id) /\ Awaiting(files[id]) =>
    files[id].entries[files[id].nextid] = Nil

(* A file's own registration lasts until its transfer ends: finish and     *)
(* recv_stop find the entry they free.                                     *)
FcbRegistered ==
  \A n \in Names : InProcess(FileId[n]) /\ files[FileId[n]].fcb = "own" =>
    reg[n] # Nil

(* The checksum never rejects a file that no one changed while it was      *)
(* sent: reassembly is right for every order, loss and repetition.         *)
HashCheckPasses == out.rv # "ERR_PROTO"

CollectedOf(c) ==
  0..(c.nextid - 1) \cup {k \in 0..(MaxBlocks - 1) : c.entries[k] # Nil}

(* A failed append, rename or checksum costs no block that was collected:  *)
(* what a transfer has, in the part file or the cache, shrinks only when a *)
(* HELLO starts it over.                                                   *)
KeepsCollected ==
  [][\A id \in Ids : InProcess(id) /\ files'[id] # Nil =>
       \/ CollectedOf(files[id]) \subseteq CollectedOf(files'[id])
       \/ CollectedOf(files'[id]) = {}]_vars

IsActivePart(d, s) ==
  d = recvdir /\ \E id \in Ids : InProcess(id) /\ s = PartFile(files[id])

(* A file once saved is never written, replaced or removed by a later      *)
(* transfer.                                                               *)
SavedIsKept ==
  [][\A d \in Dirs, s \in SaveNames :
       disk[<<d, s>>] # Nil /\ ~IsActivePart(d, s) =>
         disk'[<<d, s>>] = disk[<<d, s>>]]_vars

-----------------------------------------------------------------------------
(* What comments, documents and tests say of this code, and it does not do.*)

(* "Must return a ACK packet with same PacketID to response."              *)
(* (docs/doc-ver1.1.md): a HELLO the handler acts on is answered with one. *)
HelloIsAcked ==
  [][\A v \in Versions : proc = "up" /\ HelloAccepted(v) => out'.ack]_vars

(* "Receive up to 32 files at once" (nftp.h:29): with no file in process   *)
(* and none registered by the application, there is room to register one.  *)
RegistryHasRoom == proc = "up" /\ Idle => ~RegistryFull
=============================================================================
