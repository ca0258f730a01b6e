-------------------------- MODULE RefinementProofs --------------------------
(***************************************************************************)
(* What is proved of the modules that are about NftpReceiver.  It          *)
(* implements Delivery: every step of it is a step of Delivery or changes  *)
(* nothing that Delivery sees.  In NftpTransfer it behaves as it does on   *)
(* its own, so what is proved of the receiver holds with any sender and    *)
(* network; and what the two sides agree on.  In NftpCallback a callback   *)
(* that calls the library about other files than its own finds it as if    *)
(* the handler that runs the callback was one step.                        *)
(***************************************************************************)
EXTENDS NftpReceiverProofs, NftpDelivery, NftpTransfer, NftpCallback, FiniteSetTheorems

-----------------------------------------------------------------------------
(* A context collects blocks of its file only, and not beyond its cap.     *)

Within(c) == /\ c.nextid <= c.cap
             /\ \A k \in 0..(MaxBlocks - 1) : c.entries[k] # Nil => k < c.cap

AllWithin == \A id \in Ids : InProcess(id) => Within(files[id])

LEMMA AdvancedWithin ==
  ASSUME NEW c \in Ctx, Within(c), c.nextid < c.cap,
         NEW e, RunEnds(c, e), NEW s \in c.nextid..e
  PROVE  Within(AdvancedTo(c, s))
<1>1. /\ c.nextid \in Nat /\ c.cap \in Nat /\ s \in Nat /\ e \in Nat /\ s <= e
      /\ c.nextid < e
  BY BoundsAssumption DEF Ctx, RunEnds
<1>2. s <= c.cap
  <2> SUFFICES ASSUME s > c.cap PROVE FALSE
    BY <1>1
  <2>1. c.cap \in (c.nextid + 1)..(e - 1)
    BY <1>1
  <2> QED
    BY <1>1, <2>1 DEF RunEnds
<1>3. /\ AdvancedTo(c, s).nextid = s /\ AdvancedTo(c, s).cap = c.cap
      /\ \A k \in 0..(MaxBlocks - 1) :
           AdvancedTo(c, s).entries[k] # Nil => c.entries[k] # Nil
  BY DEF AdvancedTo, Ctx
<1> QED
  BY <1>2, <1>3 DEF Within

LEMMA StoredWithin ==
  ASSUME NEW c \in Ctx, Within(c), NEW b \in Payload, b[2] < c.cap
  PROVE  Within([c EXCEPT !.entries[b[2]] = b])
<1> DEFINE d == [c EXCEPT !.entries[b[2]] = b]
<1>1. d.nextid = c.nextid /\ d.cap = c.cap /\ d.entries = [c.entries EXCEPT ![b[2]] = b]
  BY DEF Ctx
<1>2. b[2] \in 0..(MaxBlocks - 1)
  BY DEF Payload
<1> HIDE DEF d
<1>3. \A k \in 0..(MaxBlocks - 1) : d.entries[k] # Nil => c.entries[k] # Nil \/ k = b[2]
  BY <1>1 DEF Ctx
<1> QED
  BY <1>1, <1>3 DEF Within, d

(* What a run or a cached block adds to the blocks a transfer has.         *)
LEMMA AdvancedCollects ==
  ASSUME NEW c \in Ctx, Within(c), c.nextid < c.cap,
         NEW s, RunEnds(c, s)
  PROVE  LET d == AdvancedTo(c, s) IN
         /\ CollectedOf(d) = CollectedOf(c) \cup {c.nextid}
         /\ d.nextid < d.cap => CollectedOf(d) # 0..(d.cap - 1)
<1> DEFINE d == AdvancedTo(c, s)
<1>1. /\ c.nextid \in Nat /\ c.cap \in Nat /\ s \in Nat /\ c.nextid < s
      /\ MaxBlocks \in Nat /\ c.cap <= MaxBlocks /\ s <= MaxBlocks
  BY BoundsAssumption DEF Ctx, RunEnds
<1>2. /\ d.nextid = s /\ d.cap = c.cap
      /\ \A k \in 0..(MaxBlocks - 1) :
           d.entries[k] = IF c.nextid < k /\ k < s THEN Nil ELSE c.entries[k]
  BY DEF AdvancedTo, Ctx
<1>3. \A k \in (c.nextid + 1)..(s - 1) : k \in 0..(MaxBlocks - 1) /\ c.entries[k] # Nil
  BY <1>1 DEF RunEnds
<1>4. s < c.cap => c.entries[s] = Nil /\ s \in 0..(MaxBlocks - 1)
  BY <1>1 DEF RunEnds
<1> HIDE DEF d
<1>5. CollectedOf(d) \subseteq CollectedOf(c) \cup {c.nextid}
  <2> SUFFICES ASSUME NEW k \in CollectedOf(d), k # c.nextid PROVE k \in CollectedOf(c)
    OBVIOUS
  <2>1. CASE k \in 0..(s - 1)
    <3>1. k \in 0..(c.nextid - 1) \/ k \in (c.nextid + 1)..(s - 1)
      BY <1>1, <2>1
    <3> QED
      BY <1>3, <3>1 DEF CollectedOf
  <2>2. CASE k \in 0..(MaxBlocks - 1) /\ d.entries[k] # Nil
    BY <1>2, <2>2 DEF CollectedOf
  <2> QED
    BY <1>2, <2>1, <2>2 DEF CollectedOf
<1>6. CollectedOf(c) \cup {c.nextid} \subseteq CollectedOf(d)
  <2>1. c.nextid \in CollectedOf(d)
    BY <1>1, <1>2 DEF CollectedOf
  <2>2. s \in c.nextid..s
    BY <1>1
  <2> QED
    BY <2>1, <2>2, AdvancedKeeps DEF d
<1>7. ASSUME d.nextid < d.cap PROVE s \notin CollectedOf(d) /\ s \in 0..(d.cap - 1)
  <2>1. d.entries[s] = Nil
    BY <1>1, <1>2, <1>4, <1>7
  <2> QED
    BY <1>1, <1>2, <1>7, <2>1 DEF CollectedOf
<1> QED
  BY <1>5, <1>6, <1>7 DEF d

LEMMA StoredCollects ==
  ASSUME NEW c \in Ctx, Within(c), c.nextid < c.cap, c.entries[c.nextid] = Nil,
         NEW b \in Payload, b[2] # c.nextid, b[2] < c.cap
  PROVE  LET d == [c EXCEPT !.entries[b[2]] = b] IN
         /\ CollectedOf(d) = CollectedOf(c) \cup {b[2]}
         /\ CollectedOf(d) # 0..(d.cap - 1)
<1> DEFINE d == [c EXCEPT !.entries[b[2]] = b]
<1>1. d.nextid = c.nextid /\ d.cap = c.cap /\ d.entries = [c.entries EXCEPT ![b[2]] = b]
  BY DEF Ctx
<1>2. b[2] \in 0..(MaxBlocks - 1) /\ b # Nil
  BY NilAssumption DEF Payload
<1>3. /\ d.entries[b[2]] = b
      /\ \A k \in 0..(MaxBlocks - 1) : k # b[2] => d.entries[k] = c.entries[k]
  BY <1>1, <1>2 DEF Ctx
<1>4. c.nextid \in 0..(MaxBlocks - 1) /\ c.nextid \in 0..(c.cap - 1)
  BY BoundsAssumption DEF Ctx
<1> HIDE DEF d
<1>5. CollectedOf(d) = CollectedOf(c) \cup {b[2]}
  BY <1>1, <1>2, <1>3 DEF CollectedOf
<1>6. c.nextid \notin CollectedOf(d)
  <2>1. d.entries[c.nextid] = Nil
    BY <1>3, <1>4
  <2> QED
    BY <1>1, <1>4, <2>1 DEF CollectedOf
<1> QED
  BY <1>1, <1>4, <1>5, <1>6 DEF d

(* A context that awaits nothing has every block of its file.              *)
LEMMA AllCollected ==
  ASSUME NEW c \in Ctx, Within(c), c.nextid = c.cap
  PROVE  CollectedOf(c) = 0..(c.cap - 1)
<1>1. c.cap \in Nat /\ MaxBlocks \in Nat
  BY BoundsAssumption DEF Ctx
<1> QED
  BY <1>1 DEF Within, CollectedOf
-----------------------------------------------------------------------------
(* Copies on the disk.                                                     *)

CopySet(dk, v) == {x \in Dirs \X SavesOf(NameOf[v]) : dk[x] = Content(v)}

LEMMA ImageFinite ==
  ASSUME NEW S, IsFiniteSet(S), NEW f
  PROVE  IsFiniteSet({f[x] : x \in S})
<1> DEFINE g == [x \in S |-> f[x]]
<1>1. g \in Surjection(S, {f[x] : x \in S})
  BY DEF Surjection
<1> QED
  BY <1>1, FS_Surjection

LEMMA SavesFinite ==
  ASSUME NEW n \in Names
  PROVE  IsFiniteSet(SavesOf(n))
<1> DEFINE f == [k \in 1..MaxSuffix |-> Suffixed[n, k]]
<1>1. \A k \in 1..MaxSuffix : f[k] = Suffixed[n, k]
  BY Zenon
<1>2. SavesOf(n) = {n} \cup {f[k] : k \in 1..MaxSuffix}
  BY <1>1, Zenon DEF SavesOf
<1> HIDE DEF f
<1>3. IsFiniteSet({f[k] : k \in 1..MaxSuffix})
  <2>1. IsFiniteSet(1..MaxSuffix)
    BY FS_Interval, BoundsAssumption
  <2> QED
    BY <2>1, ImageFinite, Zenon
<1>4. IsFiniteSet({n})
  BY FS_Singleton
<1> QED
  BY <1>2, <1>3, <1>4, FS_Union, Zenon

LEMMA CopiesFinite ==
  ASSUME IsFiniteSet(Dirs), NEW v \in Versions, NEW dk
  PROVE  IsFiniteSet(CopySet(dk, v))
<1>1. IsFiniteSet(Dirs \X SavesOf(NameOf[v]))
  BY SavesFinite, FS_Product, NamesAssumption
<1> QED
  BY <1>1, FS_Subset DEF CopySet

LEMMA ContentFacts ==
  ASSUME NEW v \in Versions
  PROVE  Content(v) # Nil /\ Content(v) # <<Junk>>
<1>1. Blocks[v] \in 1..MaxBlocks /\ MaxBlocks \in Nat
  BY BoundsAssumption
<1>2. \A k \in 1..Blocks[v] : <<v, k - 1>> \in Payload
  BY <1>1 DEF Payload
<1>3. Content(v) \in Data /\ Content(v)[1] = <<v, 0>>
  BY <1>1, <1>2 DEF Content, Data
<1>4. <<v, 0>> \in Payload
  BY <1>1 DEF Payload
<1> QED
  BY <1>3, <1>4, NilAssumption, JunkAssumption

LEMMA PartIsNoCopy ==
  ASSUME CleanNames, TypeOK, NEW s \in SaveNames, NEW q, NEW v \in Versions,
         disk' = [disk EXCEPT ![At(PartOf[s])] = q]
  PROVE  CopySet(disk', v) = CopySet(disk, v)
<1>1. \A x \in Dirs \X SavesOf(NameOf[v]) : x \in Dirs \X FileNames /\ x # At(PartOf[s])
  BY NamesOnDisk, NamesAssumption DEF CleanNames, At
<1>2. \A x \in Dirs \X SavesOf(NameOf[v]) : disk'[x] = disk[x]
  BY <1>1 DEF TypeOK
<1> QED
  BY <1>2 DEF CopySet

LEMMA RenamedIsCopy ==
  ASSUME CleanNames, TypeOK, NEW id, NEW c \in Ctx, CtxOk(id, c),
         disk[At(c.wfname)] = Nil, NEW p, p = Content(c.ver), Renamed(c, p)
  PROVE  /\ CopySet(disk', c.ver) = CopySet(disk, c.ver) \cup {At(c.wfname)}
         /\ At(c.wfname) \notin CopySet(disk, c.ver)
         /\ \A u \in Versions : NameOf[u] # NameOf[c.ver] =>
              CopySet(disk', u) = CopySet(disk, u)
<1>1. /\ c.ver \in Versions /\ c.wfname \in SaveNames
      /\ NameOf[c.ver] \in Names /\ c.wfname \in SavesOf(NameOf[c.ver])
      /\ recvdir \in Dirs
  BY NamesAssumption DEF Ctx, CtxOk, TypeOK
<1>2. disk' = [disk EXCEPT ![At(PartFile(c))] = Nil, ![At(c.wfname)] = p]
  BY DEF Renamed
<1>3. ASSUME NEW x \in Dirs \X SaveNames
      PROVE  disk'[x] = IF x = At(c.wfname) THEN p ELSE disk[x]
  <2>1. x \in Dirs \X FileNames /\ x # At(PartFile(c))
    BY <1>1, NamesOnDisk DEF CleanNames, At, PartFile
  <2> QED
    BY <1>2, <2>1 DEF TypeOK
<1>4. \A u \in Versions : Dirs \X SavesOf(NameOf[u]) \subseteq Dirs \X SaveNames
  BY NamesOnDisk, NamesAssumption
<1>5. At(c.wfname) \in Dirs \X SavesOf(NameOf[c.ver])
  BY <1>1 DEF At
<1>6. CopySet(disk', c.ver) = CopySet(disk, c.ver) \cup {At(c.wfname)}
  BY <1>1, <1>3, <1>4, <1>5 DEF CopySet
<1>7. At(c.wfname) \notin CopySet(disk, c.ver)
  BY <1>1, ContentFacts DEF CopySet
<1>8. ASSUME NEW u \in Versions, NameOf[u] # NameOf[c.ver]
      PROVE  CopySet(disk', u) = CopySet(disk, u)
  <2>1. NameOf[u] \in Names /\ SavesOf(NameOf[u]) \cap SavesOf(NameOf[c.ver]) = {}
    BY <1>1, <1>8, NamesAssumption DEF CleanNames
  <2>2. \A x \in Dirs \X SavesOf(NameOf[u]) : x # At(c.wfname)
    BY <1>1, <2>1 DEF At
  <2> QED
    BY <1>3, <1>4, <2>2 DEF CopySet
<1> QED
  BY <1>6, <1>7, <1>8
-----------------------------------------------------------------------------
(* The steps of Delivery, in terms of what the receiver has.               *)

SameCopies == \A u \in Versions : Copies(u)' = Copies(u)
SameBut(v) == \A u \in Versions : u # v => Collected(u)' = Collected(u)
OneMore(v) == \A u \in Versions : Copies(u)' = IF u = v THEN Copies(u) + 1 ELSE Copies(u)
Seqs(v) == 0..(Blocks[v] - 1)
Closed == {-1}

DStep == [D!DNext]_(D!dvars)

LEMMA StutterStep ==
  ASSUME SameCopies, \A u \in Versions : Collected(u)' = Collected(u)
  PROVE  DStep
BY DEF SameCopies, DStep, D!dvars

LEMMA AnnounceStep ==
  ASSUME NEW v \in Versions, SameCopies, SameBut(v), Collected(v)' = {}
  PROVE  DStep
<1>1. D!Announce(v)
  BY DEF D!Announce, SameCopies, SameBut
<1> QED
  BY <1>1 DEF DStep, D!DNext

LEMMA AbandonStep ==
  ASSUME NEW v \in Versions, SameCopies, SameBut(v), Collected(v)' = Closed
  PROVE  DStep
<1>1. D!Abandon(v)
  BY DEF D!Abandon, SameCopies, SameBut, Closed
<1> QED
  BY <1>1 DEF DStep, D!DNext

LEMMA CollectStep ==
  ASSUME NEW v \in Versions, NEW i \in Seqs(v), SameCopies, SameBut(v),
         Collected(v) # Closed, Collected(v)' = Collected(v) \cup {i},
         Collected(v)' # Seqs(v)
  PROVE  DStep
<1>1. D!Collect(v, i)
  BY DEF D!Collect, D!Seqs, SameCopies, SameBut, Closed, Seqs
<1> QED
  BY <1>1 DEF DStep, D!DNext, D!Seqs, Seqs

LEMMA DeliverStep ==
  ASSUME NEW v \in Versions, NEW i \in Seqs(v), OneMore(v), SameBut(v),
         Collected(v) # Closed, Collected(v) \cup {i} = Seqs(v),
         Collected(v)' = Closed
  PROVE  DStep
<1>1. D!Deliver(v, i)
  BY DEF D!Deliver, D!Seqs, OneMore, SameBut, Closed, Seqs
<1> QED
  BY <1>1 DEF DStep, D!DNext, D!Seqs, Seqs

LEMMA HaltStep ==
  ASSUME \A u \in Versions : Collected(u)' = Closed,
         \/ SameCopies
         \/ \E v \in Versions : \E i \in Seqs(v) :
              /\ OneMore(v) /\ Collected(v) # Closed
              /\ Collected(v) \cup {i} = Seqs(v)
  PROVE  DStep
<1>1. D!Halt
  <2>1. CASE SameCopies
    BY <2>1 DEF D!Halt, SameCopies, Closed
  <2>2. CASE \E v \in Versions : \E i \in Seqs(v) :
               /\ OneMore(v) /\ Collected(v) # Closed
               /\ Collected(v) \cup {i} = Seqs(v)
    <3>1. PICK v \in Versions : \E i \in Seqs(v) :
            /\ OneMore(v) /\ Collected(v) # Closed
            /\ Collected(v) \cup {i} = Seqs(v)
      BY <2>2
    <3>2. PICK i \in Seqs(v) : Collected(v) \cup {i} = Seqs(v)
      BY <3>1
    <3> QED
      BY <3>1, <3>2 DEF D!Halt, D!Seqs, OneMore, Closed, Seqs
  <2> QED
    BY <2>1, <2>2
<1> QED
  BY <1>1 DEF DStep, D!DNext
-----------------------------------------------------------------------------
(* When the receiver is left to do its work: no append, rename or checksum *)
(* fails, nobody edits a file that is sent, and the application waits for  *)
(* the end of a transfer before it unregisters the file or sets recvdir.   *)
Undisturbed ==
  /\ {"append", "short", "rename", "hash"} \cap IoFaults = {}
  /\ {"unregister", "set_recvdir"} \cap MidTransfer = {}
  /\ CleanNames /\ OneVersion /\ IsFiniteSet(Dirs)

AllAwaiting == \A id \in Ids : InProcess(id) => Awaiting(files[id])

Safe == /\ TypeOK /\ CtxsOk /\ PartInOrder /\ TargetFree
        /\ FcbsOk /\ AwaitedIsMissing /\ AllWithin /\ AllAwaiting

IdOf(v) == FileId[NameOf[v]]

LEMMA CollectedFacts ==
  ASSUME NEW c \in Ctx
  PROVE  CollectedOf(c) # Closed /\ c # Nil
<1>1. -1 \notin CollectedOf(c)
  BY BoundsAssumption DEF CollectedOf, Ctx
<1> QED
  BY <1>1, NoCtxAssumption DEF Closed

(* The transfer that a version of a file is sent to.                       *)
LEMMA TransferFacts ==
  ASSUME Undisturbed, Safe, NEW v \in Versions, InProcess(IdOf(v))
  PROVE  LET c == files[IdOf(v)] IN
         /\ IdOf(v) \in Ids /\ c \in Ctx /\ CtxOk(IdOf(v), c) /\ PartOk(c, Part(c))
         /\ c.ver = v /\ c.cap = Blocks[v] /\ c.fcb # "freed"
         /\ Within(c) /\ c.nextid < c.cap /\ c.entries[c.nextid] = Nil
         /\ Part(c) \in Data /\ Part(c) # Nil /\ disk[At(c.wfname)] = Nil
         /\ Collected(v) = CollectedOf(c) /\ Collected(v) # Closed
<1> DEFINE c == files[IdOf(v)]
<1>1. IdOf(v) \in Ids /\ NameOf[v] \in Names
  BY NamesAssumption, IdsOfNames DEF IdOf
<1>2. c \in Ctx /\ CtxOk(IdOf(v), c) /\ PartOk(c, Part(c))
  BY <1>1 DEF Safe, TypeOK, CtxsOk, PartInOrder, InProcess
<1>3. /\ c.fcb # "freed" /\ Within(c) /\ Awaiting(c)
      /\ c.entries[c.nextid] = Nil
  <2>1. "unregister" \notin MidTransfer
    BY DEF Undisturbed
  <2> QED
    BY <1>1, <2>1 DEF Safe, FcbsOk, NoneFreed, AllWithin, AllAwaiting, AwaitedIsMissing
<1>4. c.ver = v
  <2>1. c.ver \in Versions /\ NameOf[c.ver] \in Names
    BY <1>2, NamesAssumption DEF Ctx
  <2>2. NameOf[c.ver] = NameOf[v]
    BY <1>1, <1>2, <2>1, NamesAssumption DEF CtxOk, IdOf
  <2> QED
    BY <2>1, <2>2 DEF Undisturbed, OneVersion
<1>5. c.cap = Blocks[v]
  BY <1>2, <1>4 DEF CtxOk
<1>6. Part(c) \in Data \cup {Nil} /\ Part(c) # Nil
  <2>1. At(PartFile(c)) \in Dirs \X FileNames
    BY <1>2, NamesOnDisk DEF Safe, TypeOK, At, PartFile, Ctx
  <2> QED
    BY <1>2, <1>3, <2>1 DEF PartOk, Part, Safe, TypeOK
<1>7. disk[At(c.wfname)] = Nil
  BY <1>1, <1>6 DEF Safe, TargetFree, Exists
<1>8. Collected(v) = CollectedOf(c)
  BY <1>4 DEF Collected, IdOf
<1> QED
  BY <1>1, <1>2, <1>3, <1>4, <1>5, <1>6, <1>7, <1>8, CollectedFacts DEF Awaiting

LEMMA OneTransferChanges ==
  ASSUME Undisturbed, TypeOK, NEW v \in Versions, NEW X,
         files' = [files EXCEPT ![IdOf(v)] = X]
  PROVE  /\ SameBut(v)
         /\ files'[IdOf(v)] = X
         /\ \A id \in Ids : id # IdOf(v) => files'[id] = files[id]
<1>1. IdOf(v) \in Ids /\ NameOf[v] \in Names
  BY NamesAssumption, IdsOfNames DEF IdOf
<1>2. \A id \in Ids : id # IdOf(v) => files'[id] = files[id]
  BY DEF TypeOK
<1>3. ASSUME NEW u \in Versions, u # v PROVE Collected(u)' = Collected(u)
  <2>1. NameOf[u] \in Names /\ FileId[NameOf[u]] \in Ids
    BY NamesAssumption, IdsOfNames
  <2>2. FileId[NameOf[u]] # IdOf(v)
    BY <1>1, <1>3, <2>1, NamesAssumption DEF Undisturbed, OneVersion, IdOf
  <2> QED
    BY <1>2, <2>1, <2>2 DEF Collected, InProcess
<1> QED
  BY <1>1, <1>2, <1>3 DEF SameBut, TypeOK

LEMMA CopiesAre == \A v \in Versions : /\ Copies(v) = Cardinality(CopySet(disk, v))
                                       /\ Copies(v)' = Cardinality(CopySet(disk', v))
BY DEF Copies, CopySet, Content

LEMMA PartCopies ==
  ASSUME Undisturbed, TypeOK, NEW s \in SaveNames, NEW q,
         disk' = [disk EXCEPT ![At(PartOf[s])] = q]
  PROVE  SameCopies
BY PartIsNoCopy, CopiesAre DEF SameCopies, Undisturbed

LEMMA DiskSame ==
  ASSUME UNCHANGED disk
  PROVE  SameCopies
BY DEF SameCopies, Copies

LEMMA RenamedCopies ==
  ASSUME Undisturbed, TypeOK, NEW v \in Versions, NEW d \in Ctx, CtxOk(IdOf(v), d),
         d.ver = v, disk[At(d.wfname)] = Nil, NEW p, p = Content(v), Renamed(d, p)
  PROVE  OneMore(v)
<1>1. /\ CopySet(disk', v) = CopySet(disk, v) \cup {At(d.wfname)}
      /\ At(d.wfname) \notin CopySet(disk, v)
      /\ \A u \in Versions : NameOf[u] # NameOf[v] => CopySet(disk', u) = CopySet(disk, u)
  BY RenamedIsCopy DEF Undisturbed
<1>2. IsFiniteSet(CopySet(disk, v))
  BY CopiesFinite DEF Undisturbed
<1>3. Copies(v)' = Copies(v) + 1
  BY <1>1, <1>2, FS_AddElement, CopiesAre
<1>4. ASSUME NEW u \in Versions, u # v PROVE Copies(u)' = Copies(u)
  BY <1>1, <1>4, CopiesAre DEF Undisturbed, OneVersion
<1> QED
  BY <1>3, <1>4 DEF OneMore
-----------------------------------------------------------------------------
(* A block that adds to a transfer: it is collected, or the last one.      *)
Adds(c, d, i) ==
  /\ d.wfname = c.wfname /\ d.ver = c.ver /\ d.fcb = c.fcb /\ Within(d)
  /\ CollectedOf(d) = CollectedOf(c) \cup {i}
  /\ d.nextid < d.cap => CollectedOf(d) # 0..(d.cap - 1)

LEMMA FinishDelivers ==
  ASSUME Undisturbed, Safe, NEW v \in Versions, NEW i \in Seqs(v), InProcess(IdOf(v)),
         NEW d \in Ctx, CtxOk(IdOf(v), d), Adds(files[IdOf(v)], d, i),
         NEW p \in Data, PartOk(d, p),
         Finish(IdOf(v), d, p) \/ FinishAborts(d, p)
  PROVE  DStep /\ AllAwaiting'
<1> DEFINE id == IdOf(v)
           c == files[id]
<1>1. /\ id \in Ids /\ c \in Ctx
      /\ c.ver = v /\ c.fcb # "freed"
      /\ disk[At(c.wfname)] = Nil
      /\ Collected(v) = CollectedOf(c) /\ Collected(v) # Closed
  BY TransferFacts
<1>2. /\ d.wfname = c.wfname /\ d.ver = v /\ d.fcb # "freed" /\ d.cap = Blocks[v]
      /\ d.wfname \in SaveNames /\ d # Nil /\ p # Nil
      /\ CollectedOf(d) = Collected(v) \cup {i}
  BY <1>1, CollectedFacts, NilAssumption DEF Adds, CtxOk, Ctx
<1>3. TypeOK
  BY DEF Safe
<1> HIDE DEF c
<1>4. Finish(id, d, p)
  BY <1>2 DEF FinishAborts
<1>5. CASE Received(id, d, p)
  <2>1. files' = [files EXCEPT ![IdOf(v)] = d] /\ d.nextid # d.cap
    BY <1>5 DEF Received
  <2>2. SameBut(v) /\ files'[id] = d /\ \A j \in Ids : j # id => files'[j] = files[j]
    BY <1>3, <2>1, OneTransferChanges
  <2>3. Collected(v)' = CollectedOf(d)
    BY <1>2, <2>2 DEF Collected, InProcess, IdOf
  <2>4. d.nextid < d.cap
    BY <2>1 DEF Adds, Within, Ctx
  <2>5. CollectedOf(d) # Seqs(v)
    BY <1>2, <2>4 DEF Adds, Seqs
  <2>6. SameCopies
    BY <1>2, <1>3, <1>5, PartCopies DEF Received, PartFile
  <2>7. DStep
    BY <1>1, <1>2, <2>2, <2>3, <2>5, <2>6, CollectStep
  <2>8. AllAwaiting'
    BY <2>2, <2>4 DEF Safe, AllAwaiting, Awaiting, InProcess
  <2> QED
    BY <2>7, <2>8
<1>6. CASE RenameFails(id, d, p)
  BY <1>2, <1>6 DEF RenameFails, Undisturbed
<1>7. CASE HashRejects(id, d, p) \/ Completes(id, d, p)
  <2>1. d.nextid = d.cap /\ Renamed(d, p)
    BY <1>7 DEF HashRejects, Completes, Renamed
  <2>2. p = Content(v)
    BY <1>2, <2>1, OrderedIsContent DEF Undisturbed
  <2>3. Completes(id, d, p)
    BY <1>2, <1>7, <2>2 DEF HashRejects, Undisturbed
  <2>4. files' = [files EXCEPT ![IdOf(v)] = Nil]
    BY <2>3 DEF Completes
  <2>5. SameBut(v) /\ files'[id] = Nil /\ \A j \in Ids : j # id => files'[j] = files[j]
    BY <1>3, <2>4, OneTransferChanges
  <2>6. Collected(v)' = Closed
    BY <2>5 DEF Collected, InProcess, IdOf, Closed
  <2>7. CollectedOf(d) = Seqs(v)
    BY <1>2, <2>1, AllCollected DEF Adds, Seqs
  <2>8. OneMore(v)
    BY <1>1, <1>2, <1>3, <2>1, <2>2, RenamedCopies
  <2>9. DStep
    BY <1>1, <1>2, <2>5, <2>6, <2>7, <2>8, DeliverStep
  <2>10. AllAwaiting'
    BY <2>5 DEF Safe, AllAwaiting, InProcess
  <2> QED
    BY <2>9, <2>10
<1> QED
  BY <1>4, <1>5, <1>6, <1>7 DEF Finish

LEMMA NothingChanges ==
  ASSUME Safe, UNCHANGED <<files, disk>>
  PROVE  DStep /\ AllAwaiting'
<1>1. \A u \in Versions : Collected(u)' = Collected(u)
  BY DEF Collected, InProcess
<1> QED
  BY <1>1, DiskSame, StutterStep DEF Safe, AllAwaiting, InProcess

(* The context and part file that a block in order leaves.                 *)
LEMMA InOrderAdds ==
  ASSUME Undisturbed, Safe, NEW v \in Versions, NEW i \in Seqs(v), InProcess(IdOf(v)),
         i = files[IdOf(v)].nextid, NEW s, RunEnds(files[IdOf(v)], s)
  PROVE  LET c == files[IdOf(v)]
             d == AdvancedTo(c, s)
             p == Part(c) \o RunUpTo(c, <<v, i>>, s)
         IN d \in Ctx /\ CtxOk(IdOf(v), d) /\ Adds(c, d, i) /\ p \in Data /\ PartOk(d, p)
<1> DEFINE c == files[IdOf(v)]
           d == AdvancedTo(c, s)
           p == Part(c) \o RunUpTo(c, <<v, i>>, s)
<1>1. /\ IdOf(v) \in Ids /\ c \in Ctx /\ CtxOk(IdOf(v), c) /\ PartOk(c, Part(c))
      /\ c.ver = v /\ Within(c) /\ c.nextid < c.cap
      /\ Part(c) \in Data /\ Part(c) # Nil
  BY TransferFacts
<1>2. TypeOK /\ s \in c.nextid..s /\ <<v, i>> \in Payload /\ i \in 0..(MaxBlocks - 1)
  BY <1>1, BoundsAssumption DEF Safe, RunEnds, Ctx, Payload, Seqs
<1>3. BlockOf(c, <<v, i>>, i)
  BY <1>1, <1>2 DEF BlockOf
<1>4. d \in Ctx /\ CtxOk(IdOf(v), d)
  BY <1>1, <1>2, AdvancedIsCtx, AdvancedCtxOk
<1>5. p \in Data
  BY <1>1, <1>2, RunTypes
<1>6. PartOk(d, p)
  BY <1>1, <1>2, <1>3, RunInOrder
<1>7. d.wfname = c.wfname /\ d.ver = c.ver /\ d.fcb = c.fcb
  BY <1>1 DEF AdvancedTo, Ctx
<1>8. Within(d) /\ CollectedOf(d) = CollectedOf(c) \cup {i}
      /\ (d.nextid < d.cap => CollectedOf(d) # 0..(d.cap - 1))
  BY <1>1, <1>2, AdvancedWithin, AdvancedCollects
<1> QED
  BY <1>4, <1>5, <1>6, <1>7, <1>8 DEF Adds

LEMMA OutOfOrderAdds ==
  ASSUME Undisturbed, Safe, NEW v \in Versions, NEW i \in Seqs(v), InProcess(IdOf(v)),
         i # files[IdOf(v)].nextid
  PROVE  LET c == files[IdOf(v)]
             d == [c EXCEPT !.entries[i] = <<v, i>>]
         IN d \in Ctx /\ CtxOk(IdOf(v), d) /\ Adds(c, d, i) /\ PartOk(d, Part(c))
<1> DEFINE c == files[IdOf(v)]
           b == <<v, i>>
           d == [c EXCEPT !.entries[b[2]] = b]
<1>1. /\ IdOf(v) \in Ids /\ c \in Ctx /\ CtxOk(IdOf(v), c) /\ PartOk(c, Part(c))
      /\ c.ver = v /\ c.cap = Blocks[v] /\ Within(c) /\ c.nextid < c.cap
      /\ c.entries[c.nextid] = Nil
  BY TransferFacts
<1>2. b \in Payload /\ i \in 0..(MaxBlocks - 1) /\ b[2] = i /\ i < c.cap
  BY <1>1, BoundsAssumption DEF Payload, Seqs
<1>3. d \in Ctx /\ CtxOk(IdOf(v), d)
  BY <1>1, <1>2, StoredCtxOk DEF IdOf
<1>4. PartOk(d, Part(c))
  BY <1>1, <1>2, StoredPartOk DEF IdOf
<1>5. d.wfname = c.wfname /\ d.ver = c.ver /\ d.fcb = c.fcb
  BY <1>1 DEF Ctx
<1>6. Within(d)
  BY <1>1, <1>2, StoredWithin
<1>7. CollectedOf(d) = CollectedOf(c) \cup {i} /\ CollectedOf(d) # 0..(d.cap - 1)
  BY <1>1, <1>2, StoredCollects
<1> QED
  BY <1>2, <1>3, <1>4, <1>5, <1>6, <1>7 DEF Adds

LEMMA BlockDelivers ==
  ASSUME Undisturbed, Safe, NEW v \in Versions, NEW i \in 0..(MaxBlocks - 1), Block(v, i)
  PROVE  DStep /\ AllAwaiting'
<1> DEFINE c == files[IdOf(v)]
<1>1. i \in Seqs(v) /\ IdOf(v) = FileId[NameOf[v]]
  BY DEF Block, Seqs, IdOf
<1>2. CASE BlockUnknown(v)
  BY <1>2, NothingChanges DEF BlockUnknown, mem
<1>3. CASE BlockInOrder(v, i)
  <2>1. InProcess(IdOf(v)) /\ i = c.nextid
    BY <1>3 DEF BlockInOrder, IdOf
  <2>2. PICK s \in 1..MaxBlocks :
          /\ RunEnds(c, s)
          /\ LET d == AdvancedTo(c, s)  p == Part(c) \o RunUpTo(c, <<v, i>>, s) IN
             Finish(IdOf(v), d, p) \/ FinishAborts(d, p)
    BY <1>3 DEF BlockInOrder, IdOf
  <2> QED
    BY <1>1, <2>1, <2>2, InOrderAdds, FinishDelivers
<1>4. CASE BlockAppendFails(v, i)
  <2>1. UNCHANGED <<files, disk>>
    BY <1>4 DEF BlockAppendFails, Undisturbed
  <2> QED
    BY <2>1, NothingChanges
<1>5. CASE BlockOutOfOrder(v, i)
  <2> DEFINE d == [c EXCEPT !.entries[i] = <<v, i>>]
  <2>1. /\ InProcess(IdOf(v)) /\ i # c.nextid
        /\ Finish(IdOf(v), d, Part(c)) \/ FinishAborts(d, Part(c))
    BY <1>5 DEF BlockOutOfOrder, IdOf
  <2>2. d \in Ctx /\ CtxOk(IdOf(v), d) /\ Adds(c, d, i) /\ PartOk(d, Part(c))
    BY <1>1, <2>1, OutOfOrderAdds
  <2>3. Part(c) \in Data
    BY <2>1, TransferFacts
  <2> HIDE DEF d
  <2> QED
    BY <1>1, <2>1, <2>2, <2>3, FinishDelivers
<1>6. CASE BlockPastEnd(v, i)
  <2>1. InProcess(IdOf(v)) /\ i >= c.cap
    BY <1>6 DEF BlockPastEnd, IdOf
  <2>2. c.cap = Blocks[v]
    BY <2>1, TransferFacts
  <2> QED
    BY <1>1, <2>1, <2>2, BoundsAssumption DEF Seqs
<1> QED
  BY <1>2, <1>3, <1>4, <1>5, <1>6 DEF Block
-----------------------------------------------------------------------------
(* The other steps.                                                        *)

LEMMA AllClosed ==
  ASSUME ClearMemory
  PROVE  AllAwaiting' /\ \A u \in Versions : Collected(u)' = Closed
<1>1. \A id \in Ids : ~InProcess(id)'
  BY DEF ClearMemory, InProcess
<1>2. \A u \in Versions : FileId[NameOf[u]] \in Ids
  BY NamesAssumption, IdsOfNames
<1>3. \A u \in Versions : Collected(u)' = Closed
  BY <1>1, <1>2 DEF Collected, Closed, InProcess
<1> QED
  BY <1>1, <1>3 DEF AllAwaiting

LEMMA HelloDelivers ==
  ASSUME Undisturbed, Safe, NEW v \in Versions, Hello(v)
  PROVE  DStep /\ AllAwaiting'
<1>1. CASE HelloRefused \/ HelloWriteFails(v)
  BY <1>1, NothingChanges DEF HelloRefused, HelloWriteFails, mem
<1>2. CASE HelloNoName(v)
  BY <1>2, AllClosed, DiskSame, HaltStep DEF HelloNoName, Aborts
<1>3. CASE HelloAccepted(v)
  <2>1. PICK w \in SavesOf(NameOf[v]) :
          CreatePart(w) /\ files' = [files EXCEPT ![IdOf(v)] = NewCtx(v, w, FcbOf(NameOf[v]))]
    BY <1>3 DEF HelloAccepted, IdOf
  <2> DEFINE d == NewCtx(v, w, FcbOf(NameOf[v]))
  <2>2. SameBut(v) /\ files'[IdOf(v)] = d
        /\ \A id \in Ids : id # IdOf(v) => files'[id] = files[id]
    BY <2>1, OneTransferChanges DEF Safe
  <2>3. d.ver = v /\ CollectedOf(d) = {} /\ Awaiting(d)
    BY BoundsAssumption DEF NewCtx, CollectedOf, Awaiting
  <2>4. w \in SaveNames
    BY NamesOnDisk, NamesAssumption
  <2>5. d \in Ctx
    BY <2>4, BoundsAssumption DEF NewCtx, Ctx, FcbOf
  <2>6. d # Nil
    BY <2>5, CollectedFacts
  <2> HIDE DEF d
  <2>7. Collected(v)' = {}
    BY <2>2, <2>3, <2>6 DEF Collected, InProcess, IdOf
  <2>8. SameCopies
    BY <2>1, <2>4, PartCopies DEF Safe, CreatePart
  <2>9. AllAwaiting'
    BY <2>2, <2>3 DEF Safe, AllAwaiting, Awaiting, InProcess
  <2> QED
    BY <2>2, <2>7, <2>8, <2>9, AnnounceStep
<1> QED
  BY <1>1, <1>2, <1>3 DEF Hello

LEMMA StopDelivers ==
  ASSUME Undisturbed, Safe, NEW n \in Names, RecvStop(n)
  PROVE  DStep /\ AllAwaiting'
<1> DEFINE c == files[FileId[n]]
<1>1. CASE ~InProcess(FileId[n])
  BY <1>1, NothingChanges DEF RecvStop
<1>2. CASE InProcess(FileId[n])
  <2>1. FileId[n] \in Ids /\ c \in Ctx /\ CtxOk(FileId[n], c) /\ TypeOK
    BY <1>2, IdsOfNames DEF Safe, TypeOK, CtxsOk, InProcess
  <2>2. PICK v \in Versions : v = c.ver /\ IdOf(v) = FileId[n] /\ c.wfname \in SaveNames
    BY <2>1 DEF Ctx, CtxOk, IdOf
  <2>3. files' = [files EXCEPT ![IdOf(v)] = Nil]
    BY <1>2, <2>2 DEF RecvStop
  <2>4. SameBut(v) /\ files'[IdOf(v)] = Nil
        /\ \A id \in Ids : id # IdOf(v) => files'[id] = files[id]
    BY <2>1, <2>3, OneTransferChanges
  <2>5. Collected(v)' = Closed
    BY <2>4 DEF Collected, InProcess, IdOf, Closed
  <2>6. SameCopies
    <3>1. CASE UNCHANGED disk
      BY <3>1, DiskSame
    <3>2. CASE disk' = [disk EXCEPT ![At(PartFile(c))] = Nil]
      BY <2>1, <2>2, <3>2, PartCopies DEF PartFile
    <3> QED
      BY <1>2, <3>1, <3>2 DEF RecvStop
  <2>7. AllAwaiting'
    BY <2>4 DEF Safe, AllAwaiting, InProcess
  <2> QED
    BY <2>4, <2>5, <2>6, <2>7, AbandonStep
<1> QED
  BY <1>1, <1>2

LEMMA KilledDelivers ==
  ASSUME Undisturbed, Safe, Killed
  PROVE  DStep /\ AllAwaiting'
<1>1. ClearMemory
  BY DEF Killed, KilledAbout, Crash, CrashInHello, CrashInAppend, CrashInFinish, Dies
<1>2. CASE Crash
  BY <1>1, <1>2, AllClosed, DiskSame, HaltStep DEF Crash
<1>3. ASSUME NEW v \in Versions, CrashInHello(v) PROVE DStep
  <2>1. PICK w \in SavesOf(NameOf[v]) : CreatePart(w)
    BY <1>3 DEF CrashInHello
  <2>2. w \in SaveNames
    BY NamesOnDisk, NamesAssumption
  <2> QED
    BY <1>1, <2>1, <2>2, AllClosed, PartCopies, HaltStep DEF CreatePart, Safe
<1>4. ASSUME NEW v \in Versions, NEW i \in 0..(Blocks[v] - 1), CrashInAppend(v, i)
      PROVE  DStep
  <2>1. InProcess(IdOf(v)) /\ \E q : disk' = [disk EXCEPT ![At(PartFile(files[IdOf(v)]))] = q]
    BY <1>4 DEF CrashInAppend, IdOf
  <2>2. files[IdOf(v)].wfname \in SaveNames
    BY <2>1, TransferFacts DEF Ctx
  <2>3. SameCopies
    BY <2>1, <2>2, PartCopies DEF PartFile, Safe
  <2> QED
    BY <1>1, <2>3, AllClosed, HaltStep
<1>5. ASSUME NEW v \in Versions, NEW i \in 0..(Blocks[v] - 1), CrashInFinish(v, i)
      PROVE  DStep
  <2> DEFINE c == files[IdOf(v)]
  <2>1. InProcess(IdOf(v)) /\ i = c.nextid /\ i \in Seqs(v)
    BY <1>5 DEF CrashInFinish, IdOf, Seqs
  <2>2. PICK s \in 1..MaxBlocks :
          RunEnds(c, s) /\ Renamed(AdvancedTo(c, s), Part(c) \o RunUpTo(c, <<v, i>>, s))
    BY <1>5 DEF CrashInFinish, IdOf
  <2> DEFINE d == AdvancedTo(c, s)
             p == Part(c) \o RunUpTo(c, <<v, i>>, s)
  <2>3. d \in Ctx /\ CtxOk(IdOf(v), d) /\ Adds(c, d, i) /\ p \in Data /\ PartOk(d, p)
    BY <2>1, <2>2, InOrderAdds
  <2>4. Renamed(d, p) /\ d.nextid = d.cap
    BY <2>2 DEF Renamed
  <2>5. /\ c.ver = v /\ disk[At(c.wfname)] = Nil
        /\ Collected(v) = CollectedOf(c) /\ Collected(v) # Closed
    BY <2>1, TransferFacts
  <2> HIDE DEF c, d, p
  <2>6. d.ver = v /\ d.wfname = c.wfname /\ d.cap = Blocks[v] /\ Within(d)
    BY <2>3, <2>5 DEF Adds, CtxOk
  <2>7. p = Content(v)
    BY <2>3, <2>4, <2>6, OrderedIsContent DEF Undisturbed
  <2>8. OneMore(v)
    BY <2>3, <2>4, <2>5, <2>6, <2>7, RenamedCopies DEF Safe
  <2>9. Collected(v) \cup {i} = Seqs(v)
    BY <2>3, <2>4, <2>5, <2>6, AllCollected DEF Adds, Seqs
  <2> QED
    BY <1>1, <2>1, <2>5, <2>8, <2>9, AllClosed, HaltStep
<1> QED
  BY <1>1, <1>2, <1>3, <1>4, <1>5, AllClosed DEF Killed, KilledAbout

LEMMA StepDelivers ==
  ASSUME Undisturbed, Safe, [Next]_vars
  PROVE  DStep /\ AllAwaiting'
<1>1. CASE Start \/ UNCHANGED vars
  BY <1>1, NothingChanges DEF Start, mem, vars
<1>2. CASE Fini
  BY <1>2, AllClosed, DiskSame, HaltStep DEF Fini
<1>3. CASE Killed
  BY <1>3, KilledDelivers
<1>4. CASE \E n \in Names : RecvStop(n)
  BY <1>4, StopDelivers
<1>5. ASSUME NEW n \in Names, Unregister(n) PROVE DStep /\ AllAwaiting'
  <2>1. ~InProcess(FileId[n]) /\ UNCHANGED disk
    BY <1>5 DEF Unregister, Undisturbed
  <2>2. files' = [id \in Ids |-> files[id]]
    BY <1>5, <2>1 DEF Unregister
  <2> QED
    BY <2>1, <2>2, NothingChanges DEF Safe, TypeOK
<1>6. CASE \/ \E n \in Names, cb \in Callbacks : Register(n, cb)
           \/ \E cb \in Callbacks : RegisterDefault(cb)
           \/ \E d \in Dirs : SetRecvdir(d)
  BY <1>6, NothingChanges DEF Register, RegisterDefault, SetRecvdir
<1>7. CASE \E v \in Versions : Hello(v)
  BY <1>7, HelloDelivers
<1>8. CASE \E v \in Versions, i \in 0..(MaxBlocks - 1) : Block(v, i)
  BY <1>8, BlockDelivers
<1> QED
  BY <1>1, <1>2, <1>3, <1>4, <1>5, <1>6, <1>7, <1>8 DEF Next

(* No transfer collects a block beyond its cap.                            *)
LEMMA WithinStep ==
  ASSUME Safe, [Next]_vars
  PROVE  AllWithin'
<1> SUFFICES ASSUME NEW id \in Ids, files'[id] # Nil PROVE Within(files'[id])
  BY DEF AllWithin, InProcess, Within
<1>1. CASE Opened(files'[id])
  BY <1>1, BoundsAssumption DEF Opened, NewCtx, Within
<1>2. CASE InProcess(id) /\ CtxStep(files[id], files'[id])
  <2> DEFINE c == files[id]
  <2>1. c \in Ctx /\ Within(c) /\ c.nextid < c.cap
    BY <1>2 DEF Safe, TypeOK, AllWithin, AllAwaiting, Awaiting, InProcess
  <2>2. CASE files'[id] = c
    BY <2>1, <2>2
  <2>3. CASE Appends(c, files'[id])
    BY <2>1, <2>3, AdvancedWithin DEF Appends
  <2>4. CASE Caches(c, files'[id])
    BY <2>1, <2>4, StoredWithin DEF Caches
  <2>5. CASE LosesEntry(c, files'[id])
    BY <2>1, <2>5 DEF LosesEntry, Within, Ctx
  <2> QED
    BY <1>2, <2>2, <2>3, <2>4, <2>5 DEF CtxStep
<1> QED
  BY <1>1, <1>2, EachFollows DEF Follows, Goes, Safe

LEMMA InitDelivers == Init => AllWithin /\ AllAwaiting /\ D!DInit
<1> SUFFICES ASSUME Init PROVE AllWithin /\ AllAwaiting /\ D!DInit
  OBVIOUS
<1>1. AllWithin /\ AllAwaiting
  BY DEF Init, AllWithin, AllAwaiting, InProcess
<1>2. ASSUME NEW v \in Versions PROVE Collected(v) = {-1} /\ Copies(v) = 0
  <2>1. FileId[NameOf[v]] \in Ids /\ NameOf[v] \in Names
    BY NamesAssumption, IdsOfNames
  <2>2. Collected(v) = {-1}
    BY <2>1 DEF Init, Collected, InProcess
  <2>3. ASSUME NEW x \in Dirs \X SavesOf(NameOf[v]) PROVE disk[x] # Content(v)
    <3>1. x \in Dirs \X FileNames
      BY <2>1, NamesOnDisk
    <3>2. disk[x] = <<Junk>> \/ disk[x] = Nil
      BY <3>1 DEF Init
    <3> QED
      BY <3>2, ContentFacts
  <2>4. Copies(v) = 0
    BY <2>3, FS_EmptySet DEF Copies
  <2> QED
    BY <2>2, <2>4
<1>3. D!DInit
  BY <1>2 DEF D!DInit
<1> QED
  BY <1>1, <1>3

LEMMA SafeInvariant ==
  ASSUME Undisturbed
  PROVE  Spec => []Safe
<1>1. /\ "short" \notin IoFaults /\ "set_recvdir" \notin MidTransfer
      /\ "unregister" \notin MidTransfer /\ {"append", "short"} \cap IoFaults = {}
      /\ CleanNames
  BY DEF Undisturbed
<1> DEFINE Known == /\ TypeOK /\ CtxsOk /\ PartInOrder /\ TargetFree
                    /\ FcbsOk /\ AwaitedIsMissing
<1>2. Spec => []Known
  BY <1>1, TypeCorrect, ContextsWellFormed, PartStaysInOrder, TargetStaysFree,
     FcbsInvariant, AwaitedStaysMissing, PTL
<1>3. Known /\ AllWithin /\ AllAwaiting /\ [Next]_vars => AllWithin' /\ AllAwaiting'
  BY StepDelivers, WithinStep DEF Safe
<1>4. Known /\ AllWithin /\ AllAwaiting => Safe
  BY DEF Safe
<1>5. Init => AllWithin /\ AllAwaiting
  BY InitDelivers
<1> HIDE DEF Known
<1> QED
  BY <1>2, <1>3, <1>4, <1>5, PTL DEF Spec

(* The receiver implements Delivery, if it is left to do its work: each    *)
(* transfer of a file leaves exactly one more intact copy, made by the     *)
(* step that gets the last missing block.                                  *)
THEOREM ReceiverDelivers ==
  ASSUME Undisturbed
  PROVE  Spec => DeliversOnce
<1>1. Safe /\ [Next]_vars => [D!DNext]_(D!dvars)
  BY StepDelivers DEF DStep
<1>2. Init => D!DInit
  BY InitDelivers
<1> QED
  BY <1>1, <1>2, SafeInvariant, PTL DEF Spec, DeliversOnce, D!DSpec
-----------------------------------------------------------------------------
(* The sender and the messages under way.                                  *)

Message ==
  [type : {"HELLO"}, ver : Versions] \cup [type : {"ACK"}, name : Names]
    \cup [type : {"BLOCK"}, ver : Versions, seq : 0..(MaxBlocks - 1)]
    \cup [type : {"GIVEME"}, name : Names, seq : 0..(MaxBlocks - 1)]

SenderTypes ==
  /\ source \in [Paths -> Versions]
  /\ \A p \in Paths : NameOf[source[p]] = BaseName[p]
  /\ senderfiles \in [Ids -> Paths \cup {Nil}]
  /\ acked \subseteq Paths
  /\ net \subseteq Message
  /\ hellos \in Nat

LEMMA MessageFacts ==
  ASSUME NEW m \in Message
  PROVE  /\ m.type = "HELLO" => m.ver \in Versions
         /\ m.type = "ACK" => m.name \in Names
         /\ m.type = "BLOCK" => m.ver \in Versions /\ m.seq \in 0..(MaxBlocks - 1)
         /\ m.type = "GIVEME" => m.name \in Names /\ m.seq \in 0..(MaxBlocks - 1)
BY DEF Message

LEMMA MadeTypes ==
  ASSUME SenderTypes, NEW p \in Paths, NEW i \in 0..(MaxBlocks - 1)
  PROVE  BlocksMade(p, i) \subseteq Message
BY DEF SenderTypes, BlocksMade, BlockMsg, Message

LEMMA RemainsTypes ==
  ASSUME net \subseteq Message, NEW m, NEW rest \in Remains(m)
  PROVE  rest \subseteq net
BY DEF Remains

LEMMA HandleTypes ==
  ASSUME TypeOK, SenderTypes, NEW m \in net, Handle(m)
  PROVE  SenderTypes'
<1>1. m \in Message
  BY DEF SenderTypes
<1>2. CASE HandleHello(m)
  <2>1. m.ver \in Versions /\ NameOf[m.ver] \in Names
    BY <1>1, <1>2, MessageFacts, NamesAssumption DEF HandleHello
  <2>2. AckMsg(NameOf[m.ver]) \in Message
    BY <2>1 DEF AckMsg, Message
  <2> QED
    BY <1>2, <2>2, RemainsTypes DEF SenderTypes, HandleHello, sender
<1>3. CASE HandleBlock(m)
  BY <1>3, RemainsTypes DEF SenderTypes, HandleBlock, sender
<1>4. CASE HandleAck(m)
  BY <1>4, RemainsTypes DEF SenderTypes, HandleAck
<1>5. CASE HandleGiveme(m)
  <2>1. m.name \in Names /\ m.seq \in 0..(MaxBlocks - 1)
    BY <1>1, <1>5, MessageFacts DEF HandleGiveme
  <2> DEFINE p == senderfiles[FileId[m.name]]
  <2>2. p = Nil \/ p \in Paths
    BY <2>1, IdsOfNames DEF SenderTypes
  <2>3. p # Nil => BlocksMade(p, m.seq) \subseteq Message
    BY <2>1, <2>2, MadeTypes
  <2> QED
    BY <1>5, <2>3, RemainsTypes DEF SenderTypes, HandleGiveme, sender
<1> QED
  BY <1>2, <1>3, <1>4, <1>5 DEF Handle

LEMMA AskTypes ==
  ASSUME TypeOK, SenderTypes, NEW n \in Names, Ask(n)
  PROVE  SenderTypes'
<1> DEFINE c == files[FileId[n]]
<1>1. InProcess(FileId[n]) /\ c.nextid < c.cap
      /\ net' = net \cup {GivemeMsg(n, c.nextid)}
  BY DEF Ask, RecvStatus
<1>2. c \in Ctx
  BY <1>1, IdsOfNames DEF TypeOK, InProcess
<1>3. c.nextid \in 0..(MaxBlocks - 1)
  BY <1>1, <1>2, BoundsAssumption DEF Ctx
<1>4. GivemeMsg(n, c.nextid) \in Message
  BY <1>3 DEF GivemeMsg, Message
<1> QED
  BY <1>1, <1>4 DEF SenderTypes, Ask, sender

LEMMA SenderStep == TypeOK /\ SenderTypes /\ [TNext]_tvars => SenderTypes'
<1> SUFFICES ASSUME TypeOK, SenderTypes, [TNext]_tvars PROVE SenderTypes'
  OBVIOUS
<1>1. CASE Restart \/ UNCHANGED tvars
  BY <1>1 DEF Restart, tvars, sender, SenderTypes
<1>2. ASSUME NEW p \in Paths, SendHello(p) PROVE SenderTypes'
  <2>1. HelloMsg(source[p]) \in Message
    BY DEF SenderTypes, HelloMsg, Message
  <2>2. BaseName[p] \in Names /\ FileId[BaseName[p]] \in Ids
    BY PathsAssumption, IdsOfNames
  <2>3. senderfiles' = [senderfiles EXCEPT ![FileId[BaseName[p]]] = p]
    BY <1>2 DEF SendHello
  <2>4. senderfiles' \in [Ids -> Paths \cup {Nil}]
    BY <2>2, <2>3 DEF SenderTypes
  <2>5. net' = net \cup {HelloMsg(source[p])} /\ hellos' = hellos + 1
        /\ UNCHANGED <<source, acked>>
    BY <1>2 DEF SendHello
  <2> QED
    BY <2>1, <2>4, <2>5 DEF SenderTypes
<1>3. ASSUME NEW p \in Paths, Edit(p) PROVE SenderTypes'
  BY <1>3 DEF Edit, SenderTypes
<1>4. ASSUME NEW p \in Paths, NEW i \in 0..(MaxBlocks - 1), SendBlock(p, i)
      PROVE  SenderTypes'
  BY <1>4, MadeTypes DEF SendBlock, SenderTypes, sender
<1>5. ASSUME NEW n \in Names, Ask(n) PROVE SenderTypes'
  BY <1>5, AskTypes
<1>6. ASSUME NEW m \in net, Handle(m) PROVE SenderTypes'
  BY <1>6, HandleTypes
<1>7. ASSUME NEW m \in net, Lose(m) PROVE SenderTypes'
  BY <1>7 DEF Lose, SenderTypes, sender
<1> QED
  BY <1>1, <1>2, <1>3, <1>4, <1>5, <1>6, <1>7 DEF TNext

-----------------------------------------------------------------------------
(* The receiver within the transfer takes the steps of the receiver alone. *)

LEMMA ReceiverStep == SenderTypes /\ [TNext]_tvars => [Next]_vars
<1> SUFFICES ASSUME SenderTypes, TNext \/ UNCHANGED tvars PROVE [Next]_vars
  OBVIOUS
<1>1. CASE Restart
  BY <1>1 DEF Restart, Next
<1>2. ASSUME NEW m \in net, HandleHello(m) PROVE [Next]_vars
  BY <1>2, MessageFacts DEF HandleHello, SenderTypes, Next
<1>3. ASSUME NEW m \in net, HandleBlock(m) PROVE [Next]_vars
  BY <1>3, MessageFacts DEF HandleBlock, SenderTypes, Next
<1>4. ASSUME NEW m \in net, HandleAck(m) \/ HandleGiveme(m) \/ Lose(m) PROVE [Next]_vars
  BY <1>4 DEF HandleAck, HandleGiveme, Lose
<1>5. CASE \E p \in Paths : \/ SendHello(p) \/ Edit(p)
                            \/ \E i \in 0..(MaxBlocks - 1) : SendBlock(p, i)
  BY <1>5 DEF SendHello, Edit, SendBlock
<1>6. CASE \E n \in Names : Ask(n)
  BY <1>6 DEF Ask
<1>7. CASE UNCHANGED tvars
  BY <1>7 DEF tvars
<1> QED
  BY <1>1, <1>2, <1>3, <1>4, <1>5, <1>6, <1>7 DEF TNext, Handle

LEMMA InitSender == TInit => Init /\ SenderTypes
BY DEF TInit, SenderTypes

LEMMA SenderInvariant == TSpec => [](TypeOK /\ SenderTypes)
<1>1. TInit => TypeOK /\ SenderTypes
  BY InitSender, InitTypes
<1>2. TypeOK /\ SenderTypes /\ [TNext]_tvars => TypeOK' /\ SenderTypes'
  BY SenderStep, ReceiverStep, TypeStep
<1> QED
  BY <1>1, <1>2, PTL DEF TSpec

(* What is proved of the receiver is true of it with this sender and       *)
(* network: the messages it makes are among those Next handles.            *)
THEOREM TransferImplementsReceiver == TSpec => Spec
BY SenderInvariant, ReceiverStep, InitSender, PTL DEF TSpec, Spec

-----------------------------------------------------------------------------
(* What the sender knows.                                                  *)

HellosKnown ==
  \A m \in net : m.type = "HELLO" => senderfiles[FileId[NameOf[m.ver]]] # Nil

(* Only a HELLO opens a transfer, and only the sender makes a HELLO.       *)
LEMMA OnlyHelloOpens ==
  ASSUME TypeOK, SenderTypes, [TNext]_tvars, NEW id \in Ids, ~Goes(id)
  PROVE  \E m \in net : HandleHello(m) /\ FileId[NameOf[m.ver]] = id
<1>1. CASE UNCHANGED vars
  BY <1>1, SameGoes DEF vars
<1>2. CASE Restart
  <2>1. CASE Start
    BY <2>1, SameGoes DEF Start, mem
  <2>2. CASE Fini
    BY <2>2, ClearedGoes DEF Fini
  <2>3. ASSUME NEW n \in Names, RecvStop(n) PROVE Goes(id)
    <3>1. UNCHANGED files \/ files' = [files EXCEPT ![FileId[n]] = Nil]
      BY <2>3 DEF RecvStop
    <3> QED
      BY <3>1, SameGoes DEF TypeOK, Goes
  <2> QED
    BY <1>2, <2>1, <2>2, <2>3 DEF Restart
<1>3. ASSUME NEW m \in net, HandleBlock(m) PROVE Goes(id)
  BY <1>3, MessageFacts, BlockGoes DEF HandleBlock, SenderTypes
<1>4. ASSUME NEW m \in net, HandleHello(m), FileId[NameOf[m.ver]] # id PROVE Goes(id)
  <2>1. Hello(m.ver)
    BY <1>4 DEF HandleHello
  <2>2. CASE HelloRefused \/ HelloWriteFails(m.ver)
    BY <2>2, SameGoes DEF HelloRefused, HelloWriteFails, mem
  <2>3. CASE HelloNoName(m.ver)
    BY <2>3, ClearedGoes DEF HelloNoName, Aborts
  <2>4. CASE HelloAccepted(m.ver)
    BY <1>4, <2>4, SameGoes DEF HelloAccepted, TypeOK
  <2> QED
    BY <2>1, <2>2, <2>3, <2>4 DEF Hello
<1> QED
  BY <1>1, <1>2, <1>3, <1>4
     DEF TNext, tvars, Handle, HandleAck, HandleGiveme, Lose, SendHello, Edit, SendBlock, Ask

LEMMA KnownStep ==
  ASSUME TypeOK, SenderTypes, HellosKnown, SenderKnowsOpenFiles, [TNext]_tvars
  PROVE  HellosKnown' /\ SenderKnowsOpenFiles'
<1>1. \A id \in Ids : senderfiles[id] # Nil => senderfiles'[id] # Nil
  <2>1. ASSUME NEW p \in Paths, SendHello(p)
        PROVE  \A id \in Ids : senderfiles[id] # Nil => senderfiles'[id] # Nil
    BY <2>1, PathsAssumption DEF SendHello, SenderTypes
  <2> QED
    BY <2>1 DEF TNext, tvars, sender, Restart, Edit, SendBlock, Ask, Handle, HandleHello,
                HandleBlock, HandleAck, HandleGiveme, Lose
<1>2. ASSUME NEW m \in net', m.type = "HELLO", m \notin net
      PROVE  senderfiles'[FileId[NameOf[m.ver]]] # Nil
  <2>1. \E p \in Paths : SendHello(p) /\ m = HelloMsg(source[p])
    <3>1. ASSUME NEW k \in net, Handle(k) PROVE FALSE
      BY <1>2, <3>1, RemainsTypes
         DEF SenderTypes, Handle, HandleHello, HandleBlock, HandleAck, HandleGiveme,
             AckMsg, BlocksMade, BlockMsg
    <3>2. ASSUME NEW k \in net, Lose(k) PROVE FALSE
      BY <1>2, <3>2 DEF Lose
    <3>3. CASE Restart \/ UNCHANGED tvars
      BY <1>2, <3>3 DEF Restart, tvars
    <3>4. ASSUME NEW n \in Names, Ask(n) PROVE FALSE
      BY <1>2, <3>4 DEF Ask, GivemeMsg
    <3>5. ASSUME NEW p \in Paths, Edit(p) \/ \E i \in 0..(MaxBlocks - 1) : SendBlock(p, i)
          PROVE  FALSE
      BY <1>2, <3>5 DEF Edit, SendBlock, BlocksMade, BlockMsg
    <3>6. ASSUME NEW p \in Paths, SendHello(p) PROVE m = HelloMsg(source[p])
      BY <1>2, <3>6 DEF SendHello
    <3> QED
      BY <3>1, <3>2, <3>3, <3>4, <3>5, <3>6 DEF TNext
  <2>2. PICK p \in Paths : SendHello(p) /\ m = HelloMsg(source[p])
    BY <2>1
  <2>3. NameOf[m.ver] = BaseName[p]
    BY <2>2 DEF HelloMsg, SenderTypes
  <2>4. FileId[BaseName[p]] \in Ids /\ p # Nil
    BY PathsAssumption, IdsOfNames
  <2>5. senderfiles' = [senderfiles EXCEPT ![FileId[BaseName[p]]] = p]
    BY <2>2 DEF SendHello
  <2> QED
    BY <2>3, <2>4, <2>5 DEF SenderTypes
<1>3. ASSUME NEW m \in net, m.type = "HELLO"
      PROVE  /\ FileId[NameOf[m.ver]] \in Ids
             /\ senderfiles'[FileId[NameOf[m.ver]]] # Nil
  <2>1. m.ver \in Versions /\ NameOf[m.ver] \in Names
    BY <1>3, MessageFacts, NamesAssumption DEF SenderTypes
  <2>2. FileId[NameOf[m.ver]] \in Ids
    BY <2>1, IdsOfNames
  <2> QED
    BY <1>1, <1>3, <2>2 DEF HellosKnown
<1>4. HellosKnown'
  BY <1>2, <1>3 DEF HellosKnown
<1>5. ASSUME NEW n \in Names, files'[FileId[n]] # Nil PROVE senderfiles'[FileId[n]] # Nil
  <2>1. FileId[n] \in Ids
    BY IdsOfNames
  <2>2. CASE Goes(FileId[n])
    BY <1>1, <1>5, <2>1, <2>2 DEF Goes, SenderKnowsOpenFiles
  <2>3. CASE ~Goes(FileId[n])
    <3>1. PICK m \in net : HandleHello(m) /\ FileId[NameOf[m.ver]] = FileId[n]
      BY <2>1, <2>3, OnlyHelloOpens
    <3> QED
      BY <1>3, <3>1 DEF HandleHello
  <2> QED
    BY <2>2, <2>3
<1> QED
  BY <1>4, <1>5 DEF SenderKnowsOpenFiles, InProcess

(* A sender that can still be asked answers: whatever the network does, it *)
(* knows the path of every file the receiver has open.                     *)
THEOREM SenderStaysInformed == TSpec => []SenderKnowsOpenFiles
<1>1. TInit => HellosKnown /\ SenderKnowsOpenFiles
  BY IdsOfNames DEF TInit, Init, HellosKnown, SenderKnowsOpenFiles, InProcess
<1>2. TypeOK /\ SenderTypes /\ HellosKnown /\ SenderKnowsOpenFiles /\ [TNext]_tvars
        => HellosKnown' /\ SenderKnowsOpenFiles'
  BY KnownStep
<1> QED
  BY <1>1, <1>2, SenderInvariant, PTL DEF TSpec

-----------------------------------------------------------------------------
(* How many copies there can be: a HELLO that is under way, the transfer   *)
(* it opens and the copy the transfer leaves are one another's successors. *)

One(b) == IF b THEN 1 ELSE 0

Count(v) == Copies(v) + One(Collected(v) # Closed) + One(HelloMsg(v) \in net)

WithinHellos == \A v \in Versions : Copies(v) \in Nat /\ Count(v) <= hellos

(* A step adds a copy only by closing the transfer it is of.               *)
LEMMA StepCopies ==
  ASSUME DStep, NEW v \in Versions
  PROVE  \/ Copies(v)' = Copies(v)
         \/ /\ Copies(v)' = Copies(v) + 1
            /\ Collected(v) # Closed /\ Collected(v)' = Closed
<1> DEFINE g == [u \in Versions |-> Collected(u)]
           k == [u \in Versions |-> Copies(u)]
<1>1. g[v] = Collected(v) /\ g'[v] = Collected(v)' /\ k[v] = Copies(v) /\ k'[v] = Copies(v)'
  OBVIOUS
<1>2. CASE UNCHANGED D!dvars
  BY <1>1, <1>2 DEF D!dvars
<1>3. CASE D!Halt
  BY <1>1, <1>3 DEF D!Halt, Closed
<1>4. ASSUME NEW f \in Versions, D!Announce(f) \/ D!Abandon(f) PROVE k' = k
  BY <1>4 DEF D!Announce, D!Abandon
<1>5. ASSUME NEW f \in Versions, NEW i \in D!Seqs(f), D!Collect(f, i) PROVE k' = k
  BY <1>5 DEF D!Collect
<1>6. ASSUME NEW f \in Versions, NEW i \in D!Seqs(f), D!Deliver(f, i)
      PROVE  \/ k'[v] = k[v]
             \/ k'[v] = k[v] + 1 /\ g[v] # Closed /\ g'[v] = Closed
  <2>1. /\ g[f] # Closed /\ g' = [g EXCEPT ![f] = Closed]
        /\ k' = [k EXCEPT ![f] = @ + 1]
    BY <1>6 DEF D!Deliver, Closed
  <2> HIDE DEF g, k
  <2>2. v = f => k'[v] = k[v] + 1 /\ g'[v] = Closed
    BY <2>1 DEF g, k
  <2>3. v # f => k'[v] = k[v]
    BY <2>1
  <2> QED
    BY <2>1, <2>2, <2>3
<1> QED
  BY <1>1, <1>2, <1>3, <1>4, <1>5, <1>6 DEF DStep, D!DNext

(* A transfer of v that is open was open before, or a HELLO opened it.     *)
LEMMA OpensByHello ==
  ASSUME Undisturbed, Safe, CtxsOk', TypeOK', SenderTypes, [TNext]_tvars, NEW v \in Versions,
         Collected(v) = Closed, Collected(v)' # Closed
  PROVE  HelloMsg(v) \in net /\ HandleHello(HelloMsg(v))
<1>1. IdOf(v) \in Ids /\ files'[IdOf(v)] # Nil
  BY NamesAssumption, IdsOfNames DEF IdOf, Collected, InProcess, Closed
<1>2. ~InProcess(IdOf(v))
  BY TransferFacts
<1>3. ~Goes(IdOf(v))
  BY <1>1, <1>2 DEF Goes
<1>4. PICK m \in net : HandleHello(m) /\ FileId[NameOf[m.ver]] = IdOf(v)
  BY <1>1, <1>3, OnlyHelloOpens DEF Safe
<1>5. m.type = "HELLO" /\ m \in Message
  BY <1>4 DEF HandleHello, SenderTypes
<1>6. m.ver \in Versions /\ m = HelloMsg(m.ver)
  BY <1>5 DEF Message, HelloMsg
<1>7. m.ver = v
  BY <1>4, <1>6, NamesAssumption DEF IdOf, Undisturbed, OneVersion
<1> QED
  BY <1>4, <1>6, <1>7

(* The HELLOs under way come from the sender, which counts them; one that  *)
(* is handled is gone.                                                     *)
LEMMA HellosCounted ==
  ASSUME SenderTypes, [TNext]_tvars, NEW v \in Versions
  PROVE  /\ hellos' \in Nat /\ hellos <= hellos'
         /\ HelloMsg(v) \in net' => HelloMsg(v) \in net
                                    \/ (hellos' = hellos + 1 /\ UNCHANGED vars)
         /\ "HELLO" \notin Duplicated /\ HandleHello(HelloMsg(v)) => HelloMsg(v) \notin net'
<1>0. HelloMsg(v).type = "HELLO" /\ \A n : AckMsg(n).type = "ACK"
  BY DEF HelloMsg, AckMsg
<1>1. "HELLO" \notin Duplicated /\ HandleHello(HelloMsg(v)) => HelloMsg(v) \notin net'
  BY <1>0 DEF HandleHello, Remains
<1>2. CASE \E p \in Paths : SendHello(p)
  BY <1>1, <1>2 DEF SendHello, SenderTypes
<1>3. CASE ~\E p \in Paths : SendHello(p)
  <2>1. hellos' = hellos
    BY <1>3 DEF TNext, tvars, sender, Restart, Edit, SendBlock, Ask, Handle, HandleHello,
                HandleBlock, HandleAck, HandleGiveme, Lose
  <2>2. ASSUME HelloMsg(v) \in net', HelloMsg(v) \notin net PROVE FALSE
    <3>1. ASSUME NEW k \in net, Handle(k) PROVE FALSE
      BY <1>0, <2>2, <3>1, RemainsTypes
         DEF SenderTypes, Handle, HandleHello, HandleBlock, HandleAck, HandleGiveme,
             BlocksMade, BlockMsg
    <3>2. ASSUME NEW k \in net, Lose(k) PROVE FALSE
      BY <2>2, <3>2 DEF Lose
    <3>3. CASE Restart \/ UNCHANGED tvars
      BY <2>2, <3>3 DEF Restart, tvars
    <3>4. ASSUME NEW n \in Names, Ask(n) PROVE FALSE
      BY <1>0, <2>2, <3>4 DEF Ask, GivemeMsg
    <3>5. ASSUME NEW p \in Paths, Edit(p) \/ \E i \in 0..(MaxBlocks - 1) : SendBlock(p, i)
          PROVE  FALSE
      BY <1>0, <2>2, <3>5 DEF Edit, SendBlock, BlocksMade, BlockMsg
    <3> QED
      BY <1>3, <3>1, <3>2, <3>3, <3>4, <3>5 DEF TNext
  <2> QED
    BY <1>1, <2>1, <2>2 DEF SenderTypes
<1> QED
  BY <1>2, <1>3

LEMMA WithinStays ==
  ASSUME Undisturbed, "HELLO" \notin Duplicated, Safe, Safe', SenderTypes, WithinHellos,
         [TNext]_tvars
  PROVE  WithinHellos'
<1> SUFFICES ASSUME NEW v \in Versions
             PROVE  /\ Copies(v)' \in Nat
                    /\ Copies(v)' + One(Collected(v)' # Closed) + One(HelloMsg(v) \in net')
                         <= hellos'
  BY DEF WithinHellos, Count, One, HelloMsg
<1>1. DStep
  BY ReceiverStep, StepDelivers
<1>2. /\ Copies(v) \in Nat /\ hellos \in Nat
      /\ Copies(v) + One(Collected(v) # Closed) + One(HelloMsg(v) \in net) <= hellos
  BY DEF WithinHellos, Count, SenderTypes
<1>3. \/ Copies(v)' = Copies(v)
      \/ /\ Copies(v)' = Copies(v) + 1
         /\ Collected(v) # Closed /\ Collected(v)' = Closed
  BY <1>1, StepCopies
<1>4. /\ hellos' \in Nat /\ hellos <= hellos'
      /\ HelloMsg(v) \in net' => HelloMsg(v) \in net
                                 \/ (hellos' = hellos + 1 /\ UNCHANGED vars)
  BY HellosCounted
<1>5. Collected(v) = Closed /\ Collected(v)' # Closed =>
        HelloMsg(v) \in net /\ HelloMsg(v) \notin net'
  BY OpensByHello, HellosCounted DEF Safe
<1>6. UNCHANGED vars => Copies(v)' = Copies(v) /\ Collected(v)' = Collected(v)
  BY DEF vars, Copies, Collected, InProcess
<1>7. CASE HelloMsg(v) \in net' /\ HelloMsg(v) \notin net
  BY <1>2, <1>4, <1>6, <1>7 DEF One
<1>8. CASE HelloMsg(v) \in net' => HelloMsg(v) \in net
  BY <1>2, <1>3, <1>4, <1>5, <1>8 DEF One
<1> QED
  BY <1>7, <1>8

(* A file is saved at most as often as it was announced, however blocks,   *)
(* requests and acknowledgements are lost, repeated or reordered, and      *)
(* whatever is stopped, failed or removed meanwhile.                       *)
THEOREM OneCopyAtMost ==
  ASSUME Undisturbed, "HELLO" \notin Duplicated
  PROVE  TSpec => []OneCopyPerHello
<1>1. TInit => WithinHellos
  <2> SUFFICES ASSUME TInit, NEW v \in Versions
               PROVE  Copies(v) \in Nat /\ Count(v) <= hellos
    BY DEF WithinHellos
  <2>1. Copies(v) = 0 /\ Collected(v) = Closed
    BY InitDelivers DEF TInit, D!DInit, Closed
  <2> QED
    BY <2>1 DEF TInit, Count, One
<1>2. Safe /\ Safe' /\ SenderTypes /\ WithinHellos /\ [TNext]_tvars => WithinHellos'
  BY WithinStays
<1>3. WithinHellos /\ SenderTypes => OneCopyPerHello
  <2> SUFFICES ASSUME WithinHellos, SenderTypes, NEW v \in Versions
               PROVE  Copies(v) <= hellos
    BY DEF OneCopyPerHello
  <2> QED
    BY DEF WithinHellos, Count, One, SenderTypes
<1>4. TSpec => []Safe
  BY TransferImplementsReceiver, SafeInvariant, PTL
<1> QED
  BY <1>1, <1>2, <1>3, <1>4, SenderInvariant, PTL DEF TSpec


-----------------------------------------------------------------------------
(* Which contents there are on the way, in the cache and on the disk.      *)

Sent == {source[p] : p \in Paths}

OnlyPiece(S, b) == b \in Payload => b[1] \in S
OnlyCtx(S, c) == c # Nil => /\ c.ver \in S
                            /\ \A k \in 0..(MaxBlocks - 1) : OnlyPiece(S, c.entries[k])
OnlyData(S, p) == p # Nil => \A k \in 1..Len(p) : OnlyPiece(S, p[k])
OnlyOf(S) == /\ \A id \in Ids : OnlyCtx(S, files[id])
             /\ \A x \in Dirs \X FileNames : OnlyData(S, disk[x])

OnlyMsg(S, m) == m.type \in {"HELLO", "BLOCK"} =>
                   m.ver \in S /\ (m.type = "BLOCK" => m.seq < Blocks[m.ver])

LEMMA OnlyAfter ==
  ASSUME NEW S, OnlyOf(S), NEW d, OnlyCtx(S, d), NEW p, OnlyData(S, p),
         \A id \in Ids : files'[id] = files[id] \/ files'[id] = d \/ files'[id] = Nil,
         \A x \in Dirs \X FileNames : disk'[x] = disk[x] \/ disk'[x] = p \/ disk'[x] = Nil
  PROVE  OnlyOf(S)'
<1>1. ASSUME NEW id \in Ids PROVE OnlyCtx(S, files'[id])
  <2>1. OnlyCtx(S, files[id]) /\ OnlyCtx(S, Nil)
    BY DEF OnlyOf, OnlyCtx
  <2> QED BY <2>1, Zenon
<1>2. ASSUME NEW x \in Dirs \X FileNames PROVE OnlyData(S, disk'[x])
  <2>1. OnlyData(S, disk[x]) /\ OnlyData(S, Nil)
    BY Zenon DEF OnlyOf, OnlyData
  <2> QED BY <2>1, Zenon
<1> QED BY <1>1, <1>2, Zenon DEF OnlyOf, OnlyCtx, OnlyData, OnlyPiece

LEMMA OnlyWhenCleared ==
  ASSUME NEW S, OnlyOf(S), ClearMemory, UNCHANGED disk
  PROVE  OnlyOf(S)'
BY DEF OnlyOf, OnlyCtx, OnlyData, OnlyPiece, ClearMemory

LEMMA OnlyAfterFinish ==
  ASSUME TypeOK, NEW S, OnlyOf(S), NEW id \in Ids, NEW d \in Ctx, OnlyCtx(S, d),
         NEW p, OnlyData(S, p), Finish(id, d, p) \/ FinishAborts(d, p)
  PROVE  OnlyOf(S)'
<1>1. \/ files' = [files EXCEPT ![id] = d] \/ files' = [files EXCEPT ![id] = Nil]
      \/ files' = [j \in Ids |-> Nil]
  BY DEF Finish, FinishAborts, Received, RenameFails, HashRejects, Completes, Aborts,
         ClearMemory
<1>2. \/ disk' = [disk EXCEPT ![At(PartFile(d))] = p]
      \/ disk' = [disk EXCEPT ![At(PartFile(d))] = Nil, ![At(d.wfname)] = p]
  BY DEF Finish, FinishAborts, Received, RenameFails, HashRejects, Completes, Renamed
<1>3. \A j \in Ids : files'[j] = files[j] \/ files'[j] = d \/ files'[j] = Nil
  BY <1>1 DEF TypeOK
<1>4. \A x \in Dirs \X FileNames : disk'[x] = disk[x] \/ disk'[x] = p \/ disk'[x] = Nil
  BY <1>2 DEF TypeOK
<1> QED BY <1>3, <1>4, OnlyAfter

(* What a run leaves of a context, and what it adds to the part file.      *)
LEMMA OnlyInRun ==
  ASSUME TypeOK, NEW S, NEW c \in Ctx, OnlyCtx(S, c), Part(c) # Nil, OnlyData(S, Part(c)),
         NEW b \in Payload, b[1] \in S, NEW e, RunEnds(c, e), NEW s \in c.nextid..e,
         NEW x \in {<<>>, <<Junk>>}
  PROVE  /\ OnlyCtx(S, AdvancedTo(c, s))
         /\ OnlyData(S, Part(c) \o RunUpTo(c, b, s))
         /\ OnlyData(S, Part(c) \o RunUpTo(c, b, s) \o x)
<1> DEFINE r == RunUpTo(c, b, s)
           Only(q) == \A k \in 1..Len(q) : OnlyPiece(S, q[k])
<1>1. c # Nil
  BY NoCtxAssumption
<1>2. OnlyCtx(S, AdvancedTo(c, s))
  BY <1>1, AdvancedIsCtx, NilAssumption DEF OnlyCtx, OnlyPiece
<1>3. /\ r \in Seq(Payload) /\ Len(r) = s - c.nextid
      /\ \A j \in 1..(s - c.nextid) :
           r[j] = IF j = 1 THEN b ELSE c.entries[c.nextid + j - 1]
  BY RunFacts
<1>4. c.nextid \in Nat /\ s \in Nat /\ e \in Nat /\ s <= e /\ e <= MaxBlocks /\ MaxBlocks \in Nat
  BY BoundsAssumption DEF Ctx, RunEnds
<1>5. ASSUME NEW j \in 1..Len(r) PROVE OnlyPiece(S, r[j])
  <2>1. j \in 1..(s - c.nextid) /\ (j # 1 => c.nextid + j - 1 \in 0..(MaxBlocks - 1))
    BY <1>3, <1>4
  <2>2. CASE j = 1
    BY <1>3, <2>1, <2>2 DEF OnlyPiece
  <2>3. CASE j # 1
    <3>1. r[j] = c.entries[c.nextid + j - 1] /\ c.nextid + j - 1 \in 0..(MaxBlocks - 1)
      BY <1>3, <2>1, <2>3
    <3> QED BY <1>1, <3>1, Zenon DEF OnlyCtx
  <2> QED BY <2>2, <2>3
<1>6. Part(c) \in Data /\ r \in Data /\ x \in Data /\ Only(x)
  <2>1. Part(c) \in Data
    BY NamesOnDisk DEF TypeOK, Part, At, PartFile, Ctx
  <2>2. <<>> \in Data /\ <<Junk>> \in Data /\ \A q \in Seq(Payload) : q \in Data
    BY DEF Data
  <2>3. Only(x)
    BY JunkAssumption DEF OnlyPiece
  <2> QED BY <1>3, <2>1, <2>2, <2>3
<1> HIDE DEF r
<1>7. ASSUME NEW p \in Data, NEW q \in Data, Only(p), Only(q)
      PROVE  p \o q \in Data /\ Only(p \o q)
  <2>1. /\ p \o q \in Data /\ Len(p \o q) = Len(p) + Len(q)
        /\ \A k \in 1..(Len(p) + Len(q)) :
             (p \o q)[k] = IF k <= Len(p) THEN p[k] ELSE q[k - Len(p)]
    <3>1. p \in Seq(Payload \cup {Junk}) /\ q \in Seq(Payload \cup {Junk})
      BY DEF Data
    <3> QED BY <3>1, ConcatFacts DEF Data
  <2>2. Len(p) \in Nat /\ Len(q) \in Nat
    BY DEF Data
  <2>3. ASSUME NEW k \in 1..Len(p \o q) PROVE OnlyPiece(S, (p \o q)[k])
    <3>1. CASE k <= Len(p)
      <4>1. (p \o q)[k] = p[k] /\ k \in 1..Len(p)
        BY <2>1, <2>2, <3>1
      <4> QED BY <1>7, <4>1
    <3>2. CASE ~(k <= Len(p))
      <4>1. (p \o q)[k] = q[k - Len(p)] /\ k - Len(p) \in 1..Len(q)
        BY <2>1, <2>2, <3>2
      <4> QED BY <1>7, <4>1
    <3> QED BY <3>1, <3>2
  <2> QED BY <2>1, <2>3
<1>8. Only(Part(c)) /\ Only(r)
  BY <1>5 DEF OnlyData
<1>9. Part(c) \o r \in Data /\ Only(Part(c) \o r)
  BY <1>6, <1>7, <1>8
<1>10. Only(Part(c) \o r \o x)
  BY <1>6, <1>7, <1>9
<1> QED BY <1>2, <1>9, <1>10 DEF OnlyData, r

LEMMA OnlyByBlock ==
  ASSUME TypeOK, NEW S, OnlyOf(S), NEW v \in Versions, v \in S,
         NEW i \in 0..(MaxBlocks - 1), Block(v, i)
  PROVE  OnlyOf(S)'
<1> DEFINE id == FileId[NameOf[v]]
           c == files[id]
           b == <<v, i>>
<1>0. id \in Ids /\ b \in Payload /\ b[1] \in S
  BY NamesAssumption, IdsOfNames DEF Payload
<1> HIDE DEF b
<1>1. ASSUME InProcess(id)
      PROVE  c \in Ctx /\ OnlyCtx(S, c) /\ OnlyData(S, Part(c)) /\ Part(c) \in Data \cup {Nil}
  <2>1. c \in Ctx /\ OnlyCtx(S, c)
    BY <1>0, <1>1 DEF TypeOK, InProcess, OnlyOf
  <2>2. At(PartFile(c)) \in Dirs \X FileNames
    BY <2>1, NamesOnDisk DEF TypeOK, At, PartFile, Ctx
  <2> QED BY <2>1, <2>2 DEF OnlyOf, Part, TypeOK
<1>2. CASE BlockUnknown(v)
  BY <1>2 DEF BlockUnknown, mem, OnlyOf, OnlyCtx, OnlyData, OnlyPiece
<1>3. CASE BlockInOrder(v, i)
  <2>1. InProcess(id) /\ Part(c) # Nil
    BY <1>3 DEF BlockInOrder
  <2>2. PICK s \in 1..MaxBlocks :
          /\ RunEnds(c, s)
          /\ \/ Finish(id, AdvancedTo(c, s), Part(c) \o RunUpTo(c, b, s))
             \/ FinishAborts(AdvancedTo(c, s), Part(c) \o RunUpTo(c, b, s))
    BY <1>3 DEF BlockInOrder, b
  <2>3. s \in c.nextid..s
    BY <1>1, <2>1, <2>2 DEF RunEnds, Ctx
  <2>4. AdvancedTo(c, s) \in Ctx
    BY <1>1, <2>1, <2>2, <2>3, AdvancedIsCtx
  <2>5. OnlyCtx(S, AdvancedTo(c, s)) /\ OnlyData(S, Part(c) \o RunUpTo(c, b, s))
    BY <1>0, <1>1, <2>1, <2>2, <2>3, OnlyInRun
  <2> QED BY <1>0, <2>2, <2>4, <2>5, OnlyAfterFinish
<1>4. CASE BlockAppendFails(v, i)
  <2>1. InProcess(id)
    BY <1>4 DEF BlockAppendFails
  <2>2. CASE Part(c) = Nil
    BY <1>4, <2>2 DEF BlockAppendFails, OnlyOf, OnlyCtx, OnlyData, OnlyPiece
  <2>3. CASE Part(c) # Nil
    <3>1. PICK s \in c.nextid..(MaxBlocks - 1), short \in {<<>>, <<Junk>>} :
            /\ \E e \in (s + 1)..MaxBlocks : RunEnds(c, e)
            /\ files' = [files EXCEPT ![id] = AdvancedTo(c, s)]
            /\ disk' = [disk EXCEPT ![At(PartFile(c))] =
                          Part(c) \o RunUpTo(c, b, s) \o short]
      BY <1>4, <2>3 DEF BlockAppendFails, b
    <3>2. PICK e \in (s + 1)..MaxBlocks : RunEnds(c, e)
      BY <3>1
    <3>3. s \in c.nextid..e
      BY <1>1, <2>1, <3>2 DEF Ctx
    <3>4. /\ OnlyCtx(S, AdvancedTo(c, s))
          /\ OnlyData(S, Part(c) \o RunUpTo(c, b, s) \o short)
      BY <1>0, <1>1, <2>1, <2>3, <3>2, <3>3, OnlyInRun
    <3>5. \A j \in Ids : files'[j] = files[j] \/ files'[j] = AdvancedTo(c, s)
      BY <3>1 DEF TypeOK
    <3>6. \A x \in Dirs \X FileNames :
            disk'[x] = disk[x] \/ disk'[x] = Part(c) \o RunUpTo(c, b, s) \o short
      BY <3>1 DEF TypeOK
    <3> QED BY <3>4, <3>5, <3>6, OnlyAfter
  <2> QED BY <2>2, <2>3
<1>5. CASE BlockOutOfOrder(v, i)
  <2> DEFINE d == [c EXCEPT !.entries[i] = b]
  <2>1. InProcess(id) /\ (Finish(id, d, Part(c)) \/ FinishAborts(d, Part(c)))
    BY <1>5 DEF BlockOutOfOrder, b
  <2>2. /\ d \in Ctx /\ d.ver = c.ver
        /\ \A k \in 0..(MaxBlocks - 1) : d.entries[k] = IF k = i THEN b ELSE c.entries[k]
    BY <1>0, <1>1, <2>1 DEF Ctx
  <2>3. c # Nil
    BY <2>1 DEF InProcess
  <2> HIDE DEF d
  <2>4. OnlyCtx(S, d)
    BY <1>0, <1>1, <2>1, <2>2, <2>3 DEF OnlyCtx, OnlyPiece
  <2> QED BY <1>0, <1>1, <2>1, <2>2, <2>4, OnlyAfterFinish
<1>6. CASE BlockPastEnd(v, i)
  BY <1>6, OnlyWhenCleared DEF BlockPastEnd, Aborts
<1> QED BY <1>2, <1>3, <1>4, <1>5, <1>6 DEF Block

LEMMA OnlyByHello ==
  ASSUME TypeOK, NEW S, OnlyOf(S), NEW v \in Versions, v \in S, Hello(v)
  PROVE  OnlyOf(S)'
<1> DEFINE n == NameOf[v]
<1>1. CASE HelloRefused \/ HelloWriteFails(v)
  BY <1>1 DEF HelloRefused, HelloWriteFails, mem, OnlyOf, OnlyCtx, OnlyData, OnlyPiece
<1>2. CASE HelloAccepted(v)
  <2>1. PICK w \in SavesOf(n) :
          CreatePart(w) /\ files' = [files EXCEPT ![FileId[n]] = NewCtx(v, w, FcbOf(n))]
    BY <1>2 DEF HelloAccepted
  <2> DEFINE c == NewCtx(v, w, FcbOf(n))
  <2>2. OnlyCtx(S, c) /\ OnlyData(S, <<>>)
    BY NilAssumption DEF OnlyCtx, OnlyData, OnlyPiece, NewCtx
  <2>3. \A j \in Ids : files'[j] = files[j] \/ files'[j] = c
    BY <2>1 DEF TypeOK
  <2>4. \A x \in Dirs \X FileNames : disk'[x] = disk[x] \/ disk'[x] = <<>>
    BY <2>1 DEF CreatePart, TypeOK
  <2> HIDE DEF c
  <2> QED BY <2>2, <2>3, <2>4, OnlyAfter
<1>3. CASE HelloNoName(v)
  BY <1>3, OnlyWhenCleared DEF HelloNoName, Aborts
<1> QED BY <1>1, <1>2, <1>3 DEF Hello

LEMMA OnlyByRestart ==
  ASSUME TypeOK, NEW S, OnlyOf(S), Restart
  PROVE  OnlyOf(S)'
<1>1. CASE Start
  BY <1>1 DEF Start, mem, OnlyOf, OnlyCtx, OnlyData, OnlyPiece
<1>2. CASE Fini
  BY <1>2, OnlyWhenCleared DEF Fini
<1>3. ASSUME NEW n \in Names, RecvStop(n) PROVE OnlyOf(S)'
  <2>1. files' = files \/ files' = [files EXCEPT ![FileId[n]] = Nil]
    BY <1>3, Zenon DEF RecvStop
  <2>2. disk' = disk \/ disk' = [disk EXCEPT ![At(PartFile(files[FileId[n]]))] = Nil]
    BY <1>3, Zenon DEF RecvStop
  <2>3. \A j \in Ids : files'[j] = files[j] \/ files'[j] = Nil
    BY <2>1 DEF TypeOK
  <2>4. \A x \in Dirs \X FileNames : disk'[x] = disk[x] \/ disk'[x] = Nil
    BY <2>2 DEF TypeOK
  <2>5. OnlyCtx(S, Nil) /\ OnlyData(S, Nil)
    BY DEF OnlyCtx, OnlyData
  <2> QED BY <2>3, <2>4, <2>5, OnlyAfter
<1> QED BY <1>1, <1>2, <1>3 DEF Restart

(* Each file of the sender goes by a name of its own.                      *)
OnePath == \A p, q \in Paths : BaseName[p] = BaseName[q] => p = q

OnlySent == /\ edits \in Nat
            /\ edits = 0 => OnlyOf(Sent) /\ \A m \in net : OnlyMsg(Sent, m)

LEMMA SentTwice ==
  ASSUME OnePath, SenderTypes, NEW u \in Sent, NEW v \in Sent, NameOf[u] = NameOf[v]
  PROVE  u = v
BY DEF OnePath, SenderTypes, Sent

LEMMA SentVersions == SenderTypes => Sent \subseteq Versions
BY DEF SenderTypes, Sent

LEMMA MadeOnly ==
  ASSUME SenderTypes, NEW p \in Paths, NEW i \in 0..(MaxBlocks - 1), NEW m \in BlocksMade(p, i)
  PROVE  OnlyMsg(Sent, m)
<1>1. m = BlockMsg(source[p], i) /\ i < Blocks[source[p]]
  BY DEF BlocksMade
<1> QED BY <1>1 DEF OnlyMsg, BlockMsg, Sent

(* What a step puts on the way is a message for a file as it is now.       *)
LEMMA OnlyMadeOnTheWay ==
  ASSUME TypeOK, SenderTypes, UNCHANGED source, [TNext]_tvars,
         \A m \in net : OnlyMsg(Sent, m)
  PROVE  \A m \in net' : OnlyMsg(Sent, m)
<1>1. ASSUME NEW k \in net, Handle(k), NEW m \in net', m \notin net PROVE OnlyMsg(Sent, m)
  <2>1. k \in Message
    BY DEF SenderTypes
  <2>2. CASE HandleHello(k)
    <3>1. m = AckMsg(NameOf[k.ver])
      BY <1>1, <2>2, RemainsTypes DEF HandleHello, SenderTypes
    <3> QED BY <3>1 DEF OnlyMsg, AckMsg
  <2>3. CASE HandleGiveme(k)
    <3> DEFINE p == senderfiles[FileId[k.name]]
    <3>1. k.name \in Names /\ k.seq \in 0..(MaxBlocks - 1)
      BY <2>1, <2>3, MessageFacts DEF HandleGiveme
    <3>2. p \in Paths \cup {Nil}
      BY <3>1, IdsOfNames DEF SenderTypes
    <3>3. p # Nil /\ m \in BlocksMade(p, k.seq)
      BY <1>1, <2>3, RemainsTypes DEF HandleGiveme, SenderTypes
    <3> QED BY <3>1, <3>2, <3>3, MadeOnly
  <2>4. CASE HandleBlock(k) \/ HandleAck(k)
    BY <1>1, <2>4, RemainsTypes DEF HandleBlock, HandleAck, SenderTypes
  <2> QED BY <1>1, <2>2, <2>3, <2>4 DEF Handle
<1>2. ASSUME NEW p \in Paths, SendHello(p), NEW m \in net', m \notin net PROVE OnlyMsg(Sent, m)
  <2>1. m = HelloMsg(source[p])
    BY <1>2 DEF SendHello
  <2> QED BY <2>1 DEF OnlyMsg, HelloMsg, Sent
<1>3. ASSUME NEW p \in Paths, NEW i \in 0..(MaxBlocks - 1), SendBlock(p, i),
             NEW m \in net', m \notin net
      PROVE  OnlyMsg(Sent, m)
  BY <1>3, MadeOnly DEF SendBlock
<1>4. ASSUME NEW n \in Names, Ask(n), NEW m \in net', m \notin net PROVE OnlyMsg(Sent, m)
  BY <1>4 DEF Ask, GivemeMsg, OnlyMsg
<1>5. CASE \/ Restart \/ UNCHANGED tvars \/ (\E k \in net : Lose(k))
           \/ \E p \in Paths : Edit(p)
  BY <1>5 DEF Restart, tvars, Lose, Edit
<1> QED BY <1>1, <1>2, <1>3, <1>4, <1>5 DEF TNext

LEMMA OnlySentStep == TypeOK /\ SenderTypes /\ OnlySent /\ [TNext]_tvars => OnlySent'
<1> SUFFICES ASSUME TypeOK, SenderTypes, OnlySent, [TNext]_tvars PROVE OnlySent'
  OBVIOUS
<1>1. /\ edits' \in Nat
      /\ edits' = 0 => edits = 0 /\ UNCHANGED source
  BY DEF OnlySent, TNext, tvars, sender, Restart, SendHello, Edit, SendBlock, Ask, Handle,
         HandleHello, HandleBlock, HandleAck, HandleGiveme, Lose
<1> SUFFICES ASSUME edits' = 0
             PROVE  OnlyOf(Sent)' /\ (\A m \in net : OnlyMsg(Sent, m))'
  BY <1>1 DEF OnlySent
<1>2. Sent' = Sent /\ OnlyOf(Sent) /\ \A m \in net : OnlyMsg(Sent, m)
  BY <1>1 DEF OnlySent, Sent
<1>3. PICK S : S = Sent
  OBVIOUS
<1>4. OnlyOf(S)'
  <2>1. OnlyOf(S)
    BY <1>2, <1>3
  <2>2. ASSUME NEW m \in net, HandleHello(m) PROVE OnlyOf(S)'
    <3>1. m.ver \in Versions /\ m.ver \in S /\ Hello(m.ver)
      BY <1>2, <1>3, <2>2, MessageFacts DEF HandleHello, OnlyMsg, SenderTypes
    <3> QED BY <2>1, <3>1, OnlyByHello
  <2>3. ASSUME NEW m \in net, HandleBlock(m) PROVE OnlyOf(S)'
    <3>1. m.ver \in Versions /\ m.ver \in S /\ m.seq \in 0..(MaxBlocks - 1) /\ Block(m.ver, m.seq)
      BY <1>2, <1>3, <2>3, MessageFacts DEF HandleBlock, OnlyMsg, SenderTypes
    <3> QED BY <2>1, <3>1, OnlyByBlock
  <2>4. CASE Restart
    BY <2>1, <2>4, OnlyByRestart
  <2>5. CASE UNCHANGED vars
    BY <2>1, <2>5 DEF vars, mem, OnlyOf, OnlyCtx, OnlyData, OnlyPiece
  <2>6. UNCHANGED vars \/ Restart \/ \E m \in net : HandleHello(m) \/ HandleBlock(m)
    BY DEF TNext, tvars, Handle, HandleAck, HandleGiveme, Lose, SendHello, Edit, SendBlock, Ask
  <2> QED BY <2>2, <2>3, <2>4, <2>5, <2>6
<1>5. \A m \in net' : OnlyMsg(S, m)
  BY <1>1, <1>2, <1>3, OnlyMadeOnTheWay
<1> QED BY <1>2, <1>3, <1>4, <1>5 DEF OnlyOf, OnlyCtx, OnlyData, OnlyPiece, OnlyMsg

LEMMA OnlySentInit == TInit => OnlySent
<1> SUFFICES ASSUME TInit PROVE OnlySent
  OBVIOUS
<1>1. \A id \in Ids : OnlyCtx(Sent, files[id])
  BY DEF TInit, Init, OnlyCtx
<1>2. ASSUME NEW x \in Dirs \X FileNames PROVE OnlyData(Sent, disk[x])
  <2>1. disk[x] = Nil \/ disk[x] = <<Junk>>
    BY DEF TInit, Init
  <2>2. OnlyData(Sent, <<Junk>>)
    BY JunkAssumption DEF OnlyData, OnlyPiece
  <2> QED BY <2>1, <2>2 DEF OnlyData
<1> QED BY <1>1, <1>2 DEF TInit, OnlySent, OnlyOf

(* A file that nobody edits while it is sent never has a block of another  *)
(* content in its transfer, nor one past its entries under way to it, when *)
(* no two files go by one name (handler, 499-527; maker, 314-367).         *)
THEOREM UneditedNeverMixes ==
  ASSUME OnePath, CleanNames, "set_recvdir" \notin MidTransfer, "short" \notin IoFaults
  PROVE  TSpec => []NothingMixed
<1>1. TypeOK /\ SenderTypes /\ CtxsOk /\ PartInOrder /\ OnlySent => NothingMixed
  <2> SUFFICES ASSUME TypeOK, SenderTypes, CtxsOk, PartInOrder, OnlySent, edits = 0,
                      NEW id \in Ids, InProcess(id)
               PROVE  LET c == files[id] IN
                      /\ \A b \in Pieces(c) : b[1] = c.ver
                      /\ \A m \in net : m.type = "BLOCK" /\ FileId[NameOf[m.ver]] = id =>
                           m.ver = c.ver /\ m.seq < c.cap
    BY DEF NothingMixed
  <2> DEFINE c == files[id]
  <2>1. /\ c \in Ctx /\ CtxOk(id, c) /\ PartOk(c, Part(c)) /\ c # Nil
        /\ OnlyCtx(Sent, c) /\ \A m \in net : OnlyMsg(Sent, m)
    BY DEF TypeOK, InProcess, CtxsOk, PartInOrder, OnlySent, OnlyOf
  <2>2. At(PartFile(c)) \in Dirs \X FileNames
    BY <2>1, NamesOnDisk DEF TypeOK, At, PartFile, Ctx
  <2>3. OnlyData(Sent, Part(c)) /\ c.ver \in Sent
    BY <2>1, <2>2 DEF OnlySent, OnlyOf, Part, OnlyCtx
  <2>4. ASSUME NEW b \in Pieces(c) PROVE b[1] = c.ver
    <3>1. b \in Payload
      BY <2>4 DEF Pieces
    <3>2. CASE \E k \in 0..(MaxBlocks - 1) : b = c.entries[k]
      <4>1. b # Nil
        BY <3>1, NilAssumption
      <4>2. NameOf[b[1]] = NameOf[c.ver] /\ b[1] \in Sent
        BY <2>1, <3>1, <3>2, <4>1 DEF CtxOk, BlockOf, OnlyCtx, OnlyPiece
      <4> QED BY <2>3, <4>2, SentTwice
    <3>3. CASE Part(c) # Nil /\ \E k \in 1..Len(Part(c)) : b = Part(c)[k]
      <4>1. NameOf[b[1]] = NameOf[c.ver] /\ b[1] \in Sent
        BY <2>1, <2>3, <3>1, <3>3 DEF PartOk, BlockOf, OnlyData, OnlyPiece
      <4> QED BY <2>3, <4>1, SentTwice
    <3> QED BY <2>4, <3>2, <3>3 DEF Pieces
  <2>5. ASSUME NEW m \in net, m.type = "BLOCK", FileId[NameOf[m.ver]] = id
        PROVE  m.ver = c.ver /\ m.seq < c.cap
    <3>1. m.ver \in Sent /\ m.seq < Blocks[m.ver] /\ m.ver \in Versions
      BY <2>1, <2>5, SentVersions DEF OnlyMsg
    <3>2. NameOf[m.ver] = NameOf[c.ver]
      BY <2>1, <2>5, <3>1, NamesAssumption DEF CtxOk, Ctx
    <3>3. m.ver = c.ver
      BY <2>3, <3>1, <3>2, SentTwice
    <3> QED BY <2>1, <3>1, <3>3 DEF CtxOk
  <2> QED BY <2>4, <2>5
<1>2. TSpec => []OnlySent
  BY OnlySentInit, OnlySentStep, SenderInvariant, PTL DEF TSpec
<1>3. TSpec => [](CtxsOk /\ PartInOrder)
  BY TransferImplementsReceiver, ContextsWellFormed, PartStaysInOrder, PTL
<1> QED BY <1>1, <1>2, <1>3, SenderInvariant, PTL

-----------------------------------------------------------------------------
(* NftpCallback implements NftpReceiver.  While a callback runs, the       *)
(* context of its transfer and its registration are hidden; every call     *)
(* about another file is the same call of NftpReceiver on what is left to  *)
(* see.                                                                    *)

(* The table and the registry as the one-step receiver has them.           *)
HF == IF Running THEN [files EXCEPT ![FileId[inside.name]] = Nil] ELSE files
HR == IF Running /\ inside.fcb = "own" THEN [reg EXCEPT ![inside.name] = Nil] ELSE reg

-----------------------------------------------------------------------------
(* The operators that read neither are the same in both.                   *)

LEMMA SameContexts ==
  /\ \A n : W!SavesOf(n) = SavesOf(n)
  /\ \A rv : W!Result(rv) = Result(rv)
  /\ \A v : W!Content(v) = Content(v)
  /\ \A v, w, f : W!NewCtx(v, w, f) = NewCtx(v, w, f)
  /\ \A c, b, s : W!RunUpTo(c, b, s) = RunUpTo(c, b, s)
  /\ \A c, s : W!AdvancedTo(c, s) = AdvancedTo(c, s)
BY DEF W!SavesOf, SavesOf, W!Result, Result, W!Content, Content, W!NewCtx, NewCtx,
       W!RunUpTo, RunUpTo, W!AdvancedTo, AdvancedTo

LEMMA SameRuns == \A c, s : W!RunEnds(c, s) <=> RunEnds(c, s)
BY DEF W!RunEnds, RunEnds

LEMMA SameDisk ==
  /\ \A s : W!Exists(s) <=> Exists(s)
  /\ \A n, w : W!FirstFree(n, w) <=> FirstFree(n, w)
  /\ \A n : W!NoFreeName(n) <=> NoFreeName(n)
  /\ \A w : W!CreatePart(w) <=> CreatePart(w)
  /\ \A c : W!Part(c) = Part(c)
  /\ \A c, p : W!Renamed(c, p) <=> Renamed(c, p)
<1>1. \A s : W!At(s) = At(s)
  BY DEF W!At, At
<1>2. \A s : W!Exists(s) <=> Exists(s)
  BY <1>1 DEF W!Exists, Exists
<1>3. \A c : W!PartFile(c) = PartFile(c)
  BY DEF W!PartFile, PartFile
<1>4. \A n, w : W!FirstFree(n, w) <=> FirstFree(n, w)
  BY <1>2 DEF W!FirstFree, FirstFree
<1>5. \A n : W!NoFreeName(n) <=> NoFreeName(n)
  BY <1>2, SameContexts DEF W!NoFreeName, NoFreeName
<1>6. \A w : W!CreatePart(w) <=> CreatePart(w)
  BY <1>1 DEF W!CreatePart, CreatePart
<1>7. \A c : W!Part(c) = Part(c)
  BY <1>1, <1>3 DEF W!Part, Part
<1>8. \A c, p : W!Renamed(c, p) <=> Renamed(c, p)
  BY <1>1, <1>3 DEF W!Renamed, Renamed
<1> QED
  BY <1>2, <1>4, <1>5, <1>6, <1>7, <1>8
-----------------------------------------------------------------------------
(* A step about file n that does to the table and the registry what it     *)
(* does to what is left to see of them.                                    *)
Mirrors(n) ==
  /\ UNCHANGED files => HF' = HF
  /\ UNCHANGED reg => HR' = HR
  /\ \A d : files' = [files EXCEPT ![FileId[n]] = d] => HF' = [HF EXCEPT ![FileId[n]] = d]
  /\ \A x : reg' = [reg EXCEPT ![n] = x] => HR' = [HR EXCEPT ![n] = x]

Sees(n) ==
  /\ n \in Names /\ HF[FileId[n]] = files[FileId[n]] /\ HR[n] = reg[n]
  /\ UNCHANGED proc => Mirrors(n)
  /\ ~UNCHANGED proc /\ ClearMemory => W!ClearMemory

LEMMA SeesBoth ==
  ASSUME NEW n, Sees(n)
  PROVE  /\ W!InProcess(FileId[n]) <=> InProcess(FileId[n])
         /\ W!FcbOf(n) = FcbOf(n)
BY DEF Sees, W!InProcess, InProcess, W!FcbOf, FcbOf, HF, HR

LEMMA AbortSeen ==
  ASSUME NEW n, Sees(n), proc = "up", Aborts
  PROVE  W!Aborts
BY DEF Sees, Aborts, W!Aborts

LEMMA DeathSeen ==
  ASSUME NEW n, Sees(n), proc = "up", Dies
  PROVE  W!Dies
BY DEF Sees, Dies, W!Dies

LEMMA FinishSeen ==
  ASSUME NEW n, Sees(n), proc = "up", NEW c, NameOf[c.ver] = n, NEW p,
         Finish(FileId[n], c, p) \/ FinishAborts(c, p)
  PROVE  W!Finish(FileId[n], c, p) \/ W!FinishAborts(c, p)
<1> DEFINE id == FileId[n]
<1>0. W!Renamed(c, p) <=> Renamed(c, p)
  BY SameDisk
<1>1. CASE FinishAborts(c, p)
  BY <1>0, <1>1, AbortSeen, SameContexts DEF FinishAborts, W!FinishAborts
<1>2. CASE Finish(id, c, p)
  <2>1. UNCHANGED <<proc, star, recvdir>>
    BY <1>2 DEF Finish, Received, RenameFails, HashRejects, Completes
  <2>2. Mirrors(n)
    BY <2>1 DEF Sees
  <2>3. CASE Received(id, c, p)
    BY <2>1, <2>2, <2>3, SameContexts DEF Received, W!Finish, W!Received, Mirrors, HF, HR,
         W!At, At, W!PartFile, PartFile
  <2>4. CASE RenameFails(id, c, p)
    BY <2>1, <2>2, <2>4, SameContexts DEF RenameFails, W!Finish, W!RenameFails, Mirrors, HF, HR,
         W!At, At, W!PartFile, PartFile
  <2>5. CASE HashRejects(id, c, p)
    BY <1>0, <2>1, <2>2, <2>5, SameContexts
       DEF HashRejects, W!Finish, W!HashRejects, Mirrors, HF, HR
  <2>6. CASE Completes(id, c, p)
    <3>1. HR[n] = reg[n]
      BY DEF Sees
    <3>2. HF' = [HF EXCEPT ![id] = Nil]
      BY <2>2, <2>6 DEF Completes, Mirrors
    <3>3. HR' = IF c.fcb = "own" THEN [HR EXCEPT ![n] = Nil] ELSE HR
      BY <2>2, <2>6 DEF Completes, Mirrors
    <3> QED
      BY <1>0, <2>1, <2>6, <3>1, <3>2, <3>3, SameContexts
         DEF Completes, W!Finish, W!Completes, HF, HR
  <2> QED
    BY <1>2, <2>3, <2>4, <2>5, <2>6 DEF Finish
<1> QED
  BY <1>1, <1>2
LEMMA BlockSeen ==
  ASSUME TypeOK, CtxsOk, NEW v \in Versions, Sees(NameOf[v]), NEW i \in 0..(MaxBlocks - 1),
         Block(v, i)
  PROVE  W!Block(v, i)
<1> DEFINE n == NameOf[v]
           id == FileId[n]
           c == files[id]
<1>0. /\ proc = "up" /\ i \in 0..(Blocks[v] - 1)
      /\ id \in Ids /\ n \in Names /\ <<v, i>> \in Payload
  BY NamesAssumption, IdsOfNames DEF Block, Payload
<1>1. /\ W!InProcess(id) <=> InProcess(id)
      /\ HF[id] = c
  BY SeesBoth DEF Sees
<1>2. InProcess(id) => /\ c \in Ctx /\ CtxOk(id, c)
                       /\ NameOf[c.ver] = n
  <2>1. InProcess(id) => c \in Ctx /\ CtxOk(id, c)
    BY <1>0 DEF InProcess, TypeOK, CtxsOk
  <2>2. c \in Ctx => NameOf[c.ver] \in Names
    BY NamesAssumption DEF Ctx
  <2> QED
    BY <1>0, <2>1, <2>2, NamesAssumption DEF CtxOk
<1>3. CASE BlockUnknown(v)
  <2>1. UNCHANGED <<proc, files, reg>>
    BY <1>3 DEF BlockUnknown, mem
  <2>2. HF' = HF /\ HR' = HR
    BY <2>1 DEF Sees, Mirrors
  <2>3. W!BlockUnknown(v)
    BY <1>1, <1>3, <2>2, SameContexts DEF BlockUnknown, W!BlockUnknown, mem, W!mem, HF, HR
  <2> QED
    BY <1>0, <2>3 DEF W!Block
<1>4. CASE BlockInOrder(v, i)
  <2>1. PICK s \in 1..MaxBlocks :
          /\ RunEnds(c, s)
          /\ LET d == AdvancedTo(c, s)  p == Part(c) \o RunUpTo(c, <<v, i>>, s) IN
             Finish(id, d, p) \/ FinishAborts(d, p)
    BY <1>4 DEF BlockInOrder
  <2> DEFINE d == AdvancedTo(c, s)
             p == Part(c) \o RunUpTo(c, <<v, i>>, s)
  <2>2. InProcess(id) /\ i = c.nextid /\ Part(c) # Nil
    BY <1>4 DEF BlockInOrder
  <2>3. NameOf[d.ver] = n
    BY <1>2, <2>2 DEF AdvancedTo, Ctx
  <2>4. W!Finish(id, d, p) \/ W!FinishAborts(d, p)
    BY <1>0, <2>1, <2>3, FinishSeen
  <2>5. W!Part(c) = Part(c) /\ W!RunUpTo(c, <<v, i>>, s) = RunUpTo(c, <<v, i>>, s)
        /\ W!AdvancedTo(c, s) = AdvancedTo(c, s) /\ W!RunEnds(c, s)
    BY <2>1, SameContexts, SameDisk, SameRuns
  <2>6. W!BlockInOrder(v, i)
    BY <1>1, <2>2, <2>4, <2>5 DEF W!BlockInOrder, HF
  <2> QED
    BY <1>0, <2>6 DEF W!Block
<1>5. CASE BlockAppendFails(v, i)
  <2>1. /\ InProcess(id) /\ i = c.nextid /\ out' = Result("ERR_FILE")
        /\ UNCHANGED <<proc, star, reg, recvdir>>
    BY <1>5 DEF BlockAppendFails
  <2>2. HR' = HR
    BY <2>1 DEF Sees, Mirrors
  <2>3. CASE Part(c) = Nil /\ UNCHANGED <<files, disk>>
    <3>1. HF' = HF
      BY <2>1, <2>3 DEF Sees, Mirrors
    <3>2. W!BlockAppendFails(v, i)
      BY <1>1, <2>1, <2>2, <2>3, <3>1, SameContexts, SameDisk DEF W!BlockAppendFails, HF, HR
    <3> QED
      BY <1>0, <3>2 DEF W!Block
  <2>4. CASE ~(Part(c) = Nil /\ UNCHANGED <<files, disk>>)
    <3>1. PICK s \in c.nextid..(MaxBlocks - 1), short \in {<<>>, <<Junk>>} :
             /\ \E e \in (s + 1)..MaxBlocks : RunEnds(c, e)
             /\ IF short = <<>> THEN "append" \in IoFaults
                  ELSE "short" \in IoFaults /\ Len(Part(c)) < MaxPart
             /\ files' = [files EXCEPT ![id] = AdvancedTo(c, s)]
             /\ disk' = [disk EXCEPT ![At(PartFile(c))] =
                           Part(c) \o RunUpTo(c, <<v, i>>, s) \o short]
      BY <1>5, <2>4 DEF BlockAppendFails
    <3>2. HF' = [HF EXCEPT ![id] = AdvancedTo(c, s)]
      <4>1. files' = [files EXCEPT ![FileId[n]] = AdvancedTo(c, s)]
        BY <3>1
      <4> QED
        BY <2>1, <4>1, Zenon DEF Sees, Mirrors
    <3>3. \E e \in (s + 1)..MaxBlocks : W!RunEnds(c, e)
      BY <3>1, SameRuns
    <3>4. /\ W!At(W!PartFile(c)) = At(PartFile(c)) /\ W!Part(c) = Part(c)
          /\ W!RunUpTo(c, <<v, i>>, s) = RunUpTo(c, <<v, i>>, s)
          /\ W!AdvancedTo(c, s) = AdvancedTo(c, s)
          /\ W!Result("ERR_FILE") = Result("ERR_FILE")
      BY SameContexts, SameDisk DEF W!At, At, W!PartFile, PartFile
    <3>5. Part(c) # Nil
      BY <1>5, <2>4 DEF BlockAppendFails
    <3>6. W!BlockAppendFails(v, i)
      BY <1>1, <2>1, <2>2, <3>1, <3>2, <3>3, <3>4, <3>5 DEF W!BlockAppendFails, HF, HR
    <3> QED
      BY <1>0, <3>6 DEF W!Block
  <2> QED
    BY <2>3, <2>4
<1>6. CASE BlockOutOfOrder(v, i)
  <2> DEFINE d == [c EXCEPT !.entries[i] = <<v, i>>]
  <2>1. /\ InProcess(id) /\ i # c.nextid /\ i < c.cap
        /\ Finish(id, d, Part(c)) \/ FinishAborts(d, Part(c))
    BY <1>6 DEF BlockOutOfOrder
  <2>2. NameOf[d.ver] = n
    BY <1>2, <2>1 DEF Ctx
  <2> HIDE DEF d
  <2>3. W!Finish(id, d, Part(c)) \/ W!FinishAborts(d, Part(c))
    BY <1>0, <2>1, <2>2, FinishSeen
  <2>4. W!Part(c) = Part(c)
    BY SameDisk
  <2>5. W!BlockOutOfOrder(v, i)
    BY <1>1, <2>1, <2>3, <2>4 DEF W!BlockOutOfOrder, HF, d
  <2> QED
    BY <1>0, <2>5 DEF W!Block
<1>7. CASE BlockPastEnd(v, i)
  <2>1. W!Aborts
    BY <1>0, <1>7, AbortSeen DEF BlockPastEnd
  <2>2. W!BlockPastEnd(v, i)
    BY <1>1, <1>7, <2>1 DEF BlockPastEnd, W!BlockPastEnd, HF
  <2> QED
    BY <1>0, <2>2 DEF W!Block
<1> QED
  BY <1>3, <1>4, <1>5, <1>6, <1>7 DEF Block

LEMMA RecvStopSeen ==
  ASSUME NEW n, Sees(n), RecvStop(n)
  PROVE  W!RecvStop(n)
<1> DEFINE id == FileId[n]
           c == files[id]
<1>0. proc = "up" /\ "stop" \in Calls /\ UNCHANGED <<proc, star, recvdir>>
  BY DEF RecvStop
<1>1. /\ W!InProcess(id) <=> InProcess(id)
      /\ HF[id] = c
  BY SeesBoth DEF Sees
<1>2. /\ W!At(W!PartFile(c)) = At(PartFile(c)) /\ W!Part(c) = Part(c)
      /\ \A rv : W!Result(rv) = Result(rv)
  BY SameContexts, SameDisk DEF W!At, At, W!PartFile, PartFile
<1>3. Mirrors(n)
  BY <1>0 DEF Sees
<1>4. CASE ~InProcess(id)
  <2>1. HF' = HF /\ HR' = HR
    BY <1>3, <1>4 DEF RecvStop, Mirrors
  <2> QED
    BY <1>0, <1>1, <1>2, <1>4, <2>1 DEF RecvStop, W!RecvStop, HF, HR
<1>5. CASE InProcess(id)
  <2>1. HF' = [HF EXCEPT ![id] = Nil]
    BY <1>3, <1>5 DEF RecvStop, Mirrors
  <2>2. CASE UNCHANGED <<reg, disk>> /\ out' = Result("ERR_FILE") /\ (Part(c) = Nil \/ "remove" \in IoFaults)
    <3>1. HR' = HR
      BY <1>3, <2>2 DEF Mirrors
    <3> QED
      BY <1>0, <1>1, <1>2, <1>5, <2>1, <2>2, <3>1 DEF W!RecvStop, HF, HR
  <2>3. CASE /\ Part(c) # Nil
             /\ disk' = [disk EXCEPT ![At(PartFile(c))] = Nil]
             /\ reg' = IF c.fcb = "own" THEN [reg EXCEPT ![n] = Nil] ELSE reg
             /\ out' = Result("ok")
    <3>1. HR' = IF c.fcb = "own" THEN [HR EXCEPT ![n] = Nil] ELSE HR
      BY <1>3, <2>3 DEF Mirrors
    <3> QED
      BY <1>0, <1>1, <1>2, <1>5, <2>1, <2>3, <3>1 DEF W!RecvStop, HF, HR
  <2> QED
    BY <1>5, <2>2, <2>3 DEF RecvStop
<1> QED
  BY <1>4, <1>5
-----------------------------------------------------------------------------
(* The registry counts the hidden entry, so it must not be full for it.    *)
RoomForAll == IsFiniteSet(Names) /\ MaxFcb > Cardinality(Names)

LEMMA NeverFull ==
  ASSUME RoomForAll, NEW R, NEW n \in Names, R[n] = Nil
  PROVE  ~(Cardinality({m \in Names : R[m] # Nil}) + 1 >= MaxFcb)
<1> DEFINE S == {m \in Names : R[m] # Nil}
<1>1. S \subseteq Names \ {n}
  OBVIOUS
<1>2. /\ IsFiniteSet(Names \ {n})
      /\ Cardinality(Names \ {n}) = Cardinality(Names) - 1
  BY FS_RemoveElement DEF RoomForAll
<1>3. Cardinality(S) \in Nat /\ Cardinality(S) <= Cardinality(Names \ {n})
  BY <1>1, <1>2, FS_Subset, FS_CardinalityType
<1>4. Cardinality(Names) \in Nat
  BY FS_CardinalityType DEF RoomForAll
<1> QED
  BY <1>2, <1>3, <1>4, BoundsAssumption DEF RoomForAll

LEMMA NeitherFull ==
  ASSUME RoomForAll, NEW n, Sees(n), reg[n] = Nil
  PROVE  ~RegistryFull /\ ~W!RegistryFull
<1>1. n \in Names /\ HR[n] = Nil
  BY DEF Sees
<1>2. ~RegistryFull
  BY <1>1, NeverFull DEF RegistryFull
<1>3. ~(Cardinality({m \in Names : HR[m] # Nil}) + 1 >= MaxFcb)
  BY <1>1, NeverFull
<1>4. \A S : W!Cardinality(S) = Cardinality(S)
  BY DEF W!Cardinality, Cardinality
<1> QED
  BY <1>2, <1>3, <1>4 DEF W!RegistryFull, HR

LEMMA EntrySeen ==
  ASSUME RoomForAll, NEW n, Sees(n), UNCHANGED proc, RegisterByHello(n)
  PROVE  W!RegisterByHello(n)
<1>1. HR[n] = reg[n] /\ Mirrors(n)
  BY DEF Sees
<1>2. CASE reg[n] # Nil
  BY <1>1, <1>2 DEF RegisterByHello, W!RegisterByHello, Mirrors, HR
<1>3. CASE reg[n] = Nil
  <2>1. ~RegistryFull /\ ~W!RegistryFull
    BY <1>3, NeitherFull
  <2>2. HR' = [HR EXCEPT ![n] = star]
    BY <1>1, <1>3, <2>1 DEF RegisterByHello, Mirrors
  <2> QED
    BY <1>1, <1>3, <2>1, <2>2 DEF W!RegisterByHello, HR
<1> QED
  BY <1>2, <1>3

LEMMA HelloSeen ==
  ASSUME RoomForAll, NEW v \in Versions, Sees(NameOf[v]), W!Refused <=> Refused, Hello(v)
  PROVE  W!Hello(v)
<1> DEFINE n == NameOf[v]
           id == FileId[n]
<1>0. proc = "up"
  BY DEF Hello
<1>1. /\ W!InProcess(id) <=> InProcess(id)
      /\ W!FcbOf(n) = FcbOf(n)
  BY SeesBoth
<1>2. CASE HelloRefused
  <2>1. UNCHANGED <<proc, files, reg, star, recvdir, disk>>
    BY <1>2 DEF HelloRefused, mem
  <2>2. HF' = HF /\ HR' = HR
    BY <2>1 DEF Sees, Mirrors
  <2> QED
    BY <1>0, <1>2, <2>1, <2>2, SameContexts DEF HelloRefused, W!Hello, W!HelloRefused, W!mem, HF, HR
<1>3. CASE HelloAccepted(v)
  <2>1. /\ ~Refused /\ RegisterByHello(n) /\ UNCHANGED <<proc, star, recvdir>>
        /\ out' = IF InProcess(id) THEN Result("ERR_HT")
                  ELSE [Result("ok") EXCEPT !.ack = TRUE]
    BY <1>3 DEF HelloAccepted
  <2>2. PICK w \in SavesOf(n) :
          /\ FirstFree(n, w) /\ CreatePart(w)
          /\ files' = [files EXCEPT ![id] = NewCtx(v, w, FcbOf(n))]
    BY <1>3 DEF HelloAccepted
  <2>3. HF' = [HF EXCEPT ![id] = NewCtx(v, w, FcbOf(n))]
    BY <2>1, <2>2 DEF Sees, Mirrors
  <2>4. W!RegisterByHello(n)
    BY <2>1, EntrySeen
  <2>5. /\ w \in W!SavesOf(n) /\ W!FirstFree(n, w) /\ W!CreatePart(w)
        /\ W!NewCtx(v, w, W!FcbOf(n)) = NewCtx(v, w, FcbOf(n))
        /\ \A rv : W!Result(rv) = Result(rv)
    BY <1>1, <2>2, SameContexts, SameDisk
  <2>6. W!HelloAccepted(v)
    BY <1>1, <2>1, <2>3, <2>4, <2>5 DEF W!HelloAccepted, HF
  <2> QED
    BY <1>0, <2>6 DEF W!Hello
<1>4. CASE HelloWriteFails(v)
  <2>1. /\ ~Refused /\ "write" \in IoFaults /\ ~NoFreeName(n) /\ RegisterByHello(n)
        /\ out' = Result("ERR_FILE") /\ UNCHANGED <<proc, files, star, recvdir, disk>>
    BY <1>4 DEF HelloWriteFails
  <2>2. HF' = HF
    BY <2>1 DEF Sees, Mirrors
  <2>3. W!RegisterByHello(n)
    BY <2>1, EntrySeen
  <2>4. W!HelloWriteFails(v)
    BY <2>1, <2>2, <2>3, SameContexts, SameDisk DEF W!HelloWriteFails, HF
  <2> QED
    BY <1>0, <2>4 DEF W!Hello
<1>5. CASE HelloNoName(v)
  <2>1. W!Aborts
    BY <1>0, <1>5, AbortSeen DEF HelloNoName
  <2>2. W!HelloNoName(v)
    BY <1>5, <2>1, SameDisk DEF HelloNoName, W!HelloNoName
  <2> QED
    BY <1>0, <2>2 DEF W!Hello
<1> QED
  BY <1>2, <1>3, <1>4, <1>5 DEF Hello

LEMMA RegisterSeen ==
  ASSUME RoomForAll, NEW n, Sees(n), NEW cb, Register(n, cb)
  PROVE  W!Register(n, cb)
<1>1. /\ proc = "up" /\ "register" \in Calls
      /\ UNCHANGED <<proc, files, star, recvdir, disk>>
  BY DEF Register
<1>2. HF' = HF /\ HR[n] = reg[n] /\ Mirrors(n)
  BY <1>1 DEF Sees, Mirrors
<1>3. CASE reg[n] # Nil
  BY <1>1, <1>2, <1>3, SameContexts DEF Register, W!Register, Mirrors, HF, HR
<1>4. CASE reg[n] = Nil
  <2>1. ~RegistryFull /\ ~W!RegistryFull
    BY <1>4, NeitherFull
  <2>2. HR' = [HR EXCEPT ![n] = cb] /\ out' = Result("ok")
    BY <1>2, <1>4, <2>1 DEF Register, Mirrors
  <2> QED
    BY <1>1, <1>2, <1>4, <2>1, <2>2, SameContexts DEF W!Register, HF, HR
<1> QED
  BY <1>3, <1>4

LEMMA UnregisterSeen ==
  ASSUME TypeOK, HF \in [Ids -> Ctx \cup {Nil}], NEW n, Sees(n), Unregister(n)
  PROVE  W!Unregister(n)
<1> DEFINE id == FileId[n]
           frees == InProcess(id) /\ files[id].fcb = "own"
<1>0. id \in Ids
  BY IdsOfNames DEF Sees
<1>1. /\ proc = "up" /\ "unregister" \in Calls
      /\ InProcess(id) => "unregister" \in MidTransfer
      /\ reg' = [reg EXCEPT ![n] = Nil]
      /\ out' = Result(IF reg[n] # Nil THEN "ok" ELSE "ERR_HT")
      /\ UNCHANGED <<proc, star, recvdir, disk>>
  BY DEF Unregister
<1>2. Mirrors(n) /\ HF[id] = files[id] /\ HR[n] = reg[n]
  BY <1>1 DEF Sees
<1>3. HR' = [HR EXCEPT ![n] = Nil]
  BY <1>1, <1>2 DEF Mirrors
<1>4. HF' = [j \in Ids |-> IF j = id /\ HF[j] # Nil /\ HF[j].fcb = "own"
                             THEN [HF[j] EXCEPT !.fcb = "freed"] ELSE HF[j]]
  <2>1. CASE ~frees
    <3>1. files' = files
      BY <2>1 DEF Unregister, TypeOK
    <3>2. HF' = HF
      BY <1>2, <3>1 DEF Mirrors
    <3> QED
      BY <1>2, <2>1, <3>2 DEF InProcess
  <2>2. CASE frees
    <3>1. files' = [files EXCEPT ![id] = [files[id] EXCEPT !.fcb = "freed"]]
      BY <2>2 DEF Unregister, TypeOK
    <3>2. HF' = [HF EXCEPT ![id] = [files[id] EXCEPT !.fcb = "freed"]]
      BY <1>2, <3>1 DEF Mirrors
    <3> QED
      BY <1>0, <1>2, <2>2, <3>2 DEF InProcess
  <2> QED
    BY <2>1, <2>2
<1>5. (W!InProcess(id) <=> InProcess(id)) /\ \A j : W!InProcess(j) <=> HF[j] # Nil
  BY SeesBoth DEF W!InProcess, HF
<1> QED
  BY <1>1, <1>2, <1>3, <1>4, <1>5, SameContexts DEF W!Unregister, W!Ids, Ids, HF, HR
-----------------------------------------------------------------------------
(* A call about n leaves the other files alone, or clears the memory.      *)
KeepsOthers(n) ==
  proc' = "up" => \A m \in Names \ {n} : /\ files'[FileId[m]] = files[FileId[m]]
                                         /\ reg'[m] = reg[m]

LEMMA OthersKept ==
  ASSUME TypeOK, NEW n \in Names, NEW d, NEW x,
         files' = files \/ files' = [files EXCEPT ![FileId[n]] = d],
         reg' = reg \/ reg' = [reg EXCEPT ![n] = x]
  PROVE  KeepsOthers(n)
<1>1. \A m \in Names \ {n} : FileId[m] # FileId[n] /\ FileId[m] \in Ids
  BY NamesAssumption, IdsOfNames
<1> QED
  BY <1>1 DEF KeepsOthers, TypeOK

LEMMA FinishKeepsOthers ==
  ASSUME TypeOK, NEW n \in Names, NEW c, NameOf[c.ver] = n, NEW p,
         Finish(FileId[n], c, p) \/ FinishAborts(c, p)
  PROVE  KeepsOthers(n)
<1>1. CASE FinishAborts(c, p)
  BY <1>1 DEF FinishAborts, Aborts, KeepsOthers
<1>2. CASE Finish(FileId[n], c, p)
  <2>1. /\ \/ files' = [files EXCEPT ![FileId[n]] = c]
           \/ files' = [files EXCEPT ![FileId[n]] = Nil]
        /\ reg' = reg \/ reg' = [reg EXCEPT ![n] = Nil]
    BY <1>2 DEF Finish, Received, RenameFails, HashRejects, Completes
  <2> QED
    BY <2>1, OthersKept
<1> QED
  BY <1>1, <1>2

LEMMA BlockKeepsOthers ==
  ASSUME TypeOK, CtxsOk, NEW v \in Versions, NEW i \in 0..(MaxBlocks - 1), Block(v, i)
  PROVE  KeepsOthers(NameOf[v])
<1> DEFINE n == NameOf[v]
           id == FileId[n]
           c == files[id]
<1>0. id \in Ids /\ n \in Names
  BY NamesAssumption, IdsOfNames
<1>1. InProcess(id) => /\ c \in Ctx /\ NameOf[c.ver] = n
  <2>1. InProcess(id) => c \in Ctx /\ CtxOk(id, c)
    BY <1>0 DEF InProcess, TypeOK, CtxsOk
  <2>2. c \in Ctx => NameOf[c.ver] \in Names
    BY NamesAssumption DEF Ctx
  <2> QED
    BY <1>0, <2>1, <2>2, NamesAssumption DEF CtxOk
<1>2. CASE BlockUnknown(v)
  BY <1>0, <1>2, OthersKept DEF BlockUnknown, mem
<1>3. CASE BlockInOrder(v, i)
  <2>1. PICK s \in 1..MaxBlocks :
          LET d == AdvancedTo(c, s)  p == Part(c) \o RunUpTo(c, <<v, i>>, s) IN
          Finish(id, d, p) \/ FinishAborts(d, p)
    BY <1>3 DEF BlockInOrder
  <2>2. NameOf[AdvancedTo(c, s).ver] = n
    BY <1>1, <1>3 DEF BlockInOrder, AdvancedTo, Ctx
  <2> QED
    BY <1>0, <2>1, <2>2, FinishKeepsOthers
<1>4. CASE BlockAppendFails(v, i)
  <2>1. reg' = reg /\ (files' = files \/ \E d : files' = [files EXCEPT ![id] = d])
    BY <1>4 DEF BlockAppendFails
  <2> QED
    BY <1>0, <2>1, OthersKept
<1>5. CASE BlockOutOfOrder(v, i)
  <2> DEFINE d == [c EXCEPT !.entries[i] = <<v, i>>]
  <2>1. InProcess(id) /\ (Finish(id, d, Part(c)) \/ FinishAborts(d, Part(c)))
    BY <1>5 DEF BlockOutOfOrder
  <2>2. NameOf[d.ver] = n
    BY <1>1, <2>1 DEF Ctx
  <2> HIDE DEF d
  <2> QED
    BY <1>0, <2>1, <2>2, FinishKeepsOthers
<1>6. CASE BlockPastEnd(v, i)
  BY <1>6 DEF BlockPastEnd, Aborts, KeepsOthers
<1> QED
  BY <1>2, <1>3, <1>4, <1>5, <1>6 DEF Block

LEMMA HelloKeepsOthers ==
  ASSUME TypeOK, NEW v \in Versions, Hello(v)
  PROVE  KeepsOthers(NameOf[v])
<1> DEFINE n == NameOf[v]
<1>0. n \in Names
  BY NamesAssumption
<1>1. CASE HelloNoName(v)
  BY <1>1 DEF HelloNoName, Aborts, KeepsOthers
<1>2. CASE ~HelloNoName(v)
  <2>1. /\ files' = files \/ \E d : files' = [files EXCEPT ![FileId[n]] = d]
        /\ reg' = reg \/ reg' = [reg EXCEPT ![n] = star]
    BY <1>2 DEF Hello, HelloRefused, HelloAccepted, HelloWriteFails, RegisterByHello, mem
  <2> QED
    BY <1>0, <2>1, OthersKept
<1> QED
  BY <1>1, <1>2

LEMMA CallKeepsOthers ==
  ASSUME TypeOK, CtxsOk, NEW n \in Names, CallsAbout(n)
  PROVE  KeepsOthers(n)
<1>1. CASE RecvStop(n)
  <2>1. /\ files' = files \/ \E d : files' = [files EXCEPT ![FileId[n]] = d]
        /\ reg' = reg \/ reg' = [reg EXCEPT ![n] = Nil]
    BY <1>1 DEF RecvStop
  <2> QED
    BY <2>1, OthersKept
<1>2. CASE Unregister(n)
  <2>1. reg' = [reg EXCEPT ![n] = Nil]
    BY <1>2 DEF Unregister
  <2>2. \A id \in Ids : id # FileId[n] => files'[id] = files[id]
    BY <1>2 DEF Unregister
  <2>3. \A m \in Names \ {n} : FileId[m] # FileId[n] /\ FileId[m] \in Ids
    BY NamesAssumption, IdsOfNames
  <2> QED
    BY <2>1, <2>2, <2>3 DEF KeepsOthers, TypeOK
<1>3. CASE \E cb \in Callbacks : Register(n, cb)
  <2>1. files' = files /\ (reg' = reg \/ \E x : reg' = [reg EXCEPT ![n] = x])
    BY <1>3 DEF Register
  <2> QED
    BY <2>1, OthersKept
<1>4. CASE \E v \in {v \in Versions : NameOf[v] = n} :
             Hello(v) \/ \E i \in 0..(MaxBlocks - 1) : Block(v, i)
  BY <1>4, HelloKeepsOthers, BlockKeepsOthers
<1> QED
  BY <1>1, <1>2, <1>3, <1>4 DEF CallsAbout
-----------------------------------------------------------------------------
(* The inductive invariant.                                                *)

(* While a callback runs, its transfer is in process with the registration *)
(* the handler will free.                                                  *)
InsideOk ==
  Running =>
    /\ proc = "up" /\ inside \in [name : Names, fcb : {"own", "default"}]
    /\ InProcess(FileId[inside.name])
    /\ inside.fcb = "own" => reg[inside.name] # Nil

CbInv == TypeOK /\ CtxsOk /\ FcbsOk /\ InsideOk

LEMMA KilledIsNext ==
  ASSUME NEW V \in SUBSET Versions, KilledAbout(V)
  PROVE  Next
BY DEF KilledAbout, Killed, Next

LEMMA CallIsNext ==
  ASSUME NEW n \in Names, CallsAbout(n)
  PROVE  Next
BY DEF CallsAbout, Next

LEMMA OtherIsNext ==
  ASSUME OtherCalls
  PROVE  Next
BY DEF OtherCalls, Next

(* What the handler leaves for the callback.                               *)
LEMMA EnteredState ==
  ASSUME TypeOK, CtxsOk, NEW v \in Versions, NEW i \in 0..(MaxBlocks - 1), Enters(v, i)
  PROVE  LET id == FileId[NameOf[v]]  c == files[id] IN
         \E d \in Ctx, p \in Data :
           /\ <<d, p>> \in Placed(v, i) /\ Renamed(d, p) /\ p = Content(d.ver)
           /\ CtxOk(id, d) /\ NameOf[d.ver] = NameOf[v] /\ d.fcb = c.fcb /\ d.fcb # "freed"
           /\ CallbackOf(d) # NoCb
           /\ out' = [rv |-> "ok", ack |-> FALSE, saved |-> d.wfname, ran |-> CallbackOf(d)]
           /\ files' = [files EXCEPT ![id] = d]
           /\ inside' = [name |-> NameOf[v], fcb |-> d.fcb]
<1> DEFINE id == FileId[NameOf[v]]
           c == files[id]
<1>0. id \in Ids /\ <<v, i>> \in Payload /\ NameOf[v] \in Names /\ InProcess(id)
  BY NamesAssumption, IdsOfNames DEF Payload, Enters
<1>1. c \in Ctx /\ CtxOk(id, c)
  BY <1>0 DEF InProcess, TypeOK, CtxsOk
<1>2. PICK l \in Placed(v, i) :
        /\ Renamed(l[1], l[2]) /\ l[2] = Content(l[1].ver)
        /\ l[1].fcb # "freed" /\ CallbackOf(l[1]) # NoCb
        /\ out' = [rv |-> "ok", ack |-> FALSE, saved |-> l[1].wfname, ran |-> CallbackOf(l[1])]
        /\ files' = [files EXCEPT ![id] = l[1]]
        /\ inside' = [name |-> NameOf[v], fcb |-> l[1].fcb]
  BY DEF Enters
<1>3. \E d \in Ctx, p \in {l[2]} : l = <<d, p>> /\ CtxOk(id, d) /\ d.fcb = c.fcb
  <2>1. CASE i = c.nextid
    <3>1. PICK s \in 1..MaxBlocks : RunEnds(c, s) /\ Part(c) # Nil
                  /\ l = <<AdvancedTo(c, s), Part(c) \o RunUpTo(c, <<v, i>>, s)>>
      BY <1>2, <2>1 DEF Placed
    <3>2. s \in c.nextid..s
      <4>1. c.nextid \in 0..MaxBlocks
        BY <1>1 DEF Ctx
      <4>2. s \in (c.nextid + 1)..MaxBlocks
        BY <3>1, Zenon DEF RunEnds
      <4> QED
        BY <4>1, <4>2
    <3>3. AdvancedTo(c, s) \in Ctx /\ AdvancedTo(c, s).fcb = c.fcb
      BY <1>1, <3>1, <3>2, AdvancedIsCtx
    <3>4. CtxOk(id, AdvancedTo(c, s))
      BY <1>0, <1>1, <3>1, <3>2, AdvancedCtxOk
    <3> QED
      BY <3>1, <3>3, <3>4
  <2>2. CASE i # c.nextid
    <3>1. l = <<[c EXCEPT !.entries[i] = <<v, i>>], Part(c)>>
      BY <1>2, <2>2 DEF Placed
    <3>2. /\ [c EXCEPT !.entries[i] = <<v, i>>] \in Ctx
          /\ CtxOk(id, [c EXCEPT !.entries[i] = <<v, i>>])
          /\ [c EXCEPT !.entries[i] = <<v, i>>].fcb = c.fcb
      BY <1>1, StoredCtxOk DEF Ctx
    <3> QED
      BY <3>1, <3>2
  <2> QED
    BY <2>1, <2>2
<1>4. PICK d \in Ctx, p \in {l[2]} : l = <<d, p>> /\ CtxOk(id, d) /\ d.fcb = c.fcb
  BY <1>3
<1>5. l[1] = d /\ l[2] = p
  BY <1>4
<1>6. NameOf[d.ver] \in Names
  BY NamesAssumption DEF Ctx
<1>7. NameOf[d.ver] = NameOf[v]
  BY <1>0, <1>4, <1>6, NamesAssumption DEF CtxOk
<1>8. Content(d.ver) \in Data
  <2>1. d.ver \in Versions /\ Blocks[d.ver] \in 1..MaxBlocks
    BY BoundsAssumption DEF Ctx
  <2>2. \A k \in 1..Blocks[d.ver] : <<d.ver, k - 1>> \in Payload
    BY <2>1, BoundsAssumption DEF Payload
  <2> QED
    BY <2>1, <2>2, BoundsAssumption DEF Content, Data
<1> QED
  BY <1>2, <1>4, <1>5, <1>7, <1>8

LEMMA EntersKeeps ==
  ASSUME CbInv, ~Running, NEW v \in Versions, NEW i \in 0..(MaxBlocks - 1), Enters(v, i)
  PROVE  CbInv'
<1> DEFINE n == NameOf[v]
           id == FileId[n]
<1>0. /\ id \in Ids /\ n \in Names /\ proc = "up" /\ InProcess(id)
      /\ UNCHANGED <<proc, star, reg, recvdir>>
  BY NamesAssumption, IdsOfNames DEF Enters
<1>1. PICK d \in Ctx, p \in Data :
        /\ Renamed(d, p) /\ CtxOk(id, d) /\ NameOf[d.ver] = n
        /\ d.fcb = files[id].fcb /\ d.fcb # "freed"
        /\ out' = [rv |-> "ok", ack |-> FALSE, saved |-> d.wfname, ran |-> CallbackOf(d)]
        /\ files' = [files EXCEPT ![id] = d]
        /\ inside' = [name |-> n, fcb |-> d.fcb]
  BY EnteredState DEF CbInv
<1>2. TypeOK'
  <2>1. disk' \in [Dirs \X FileNames -> Data \cup {Nil}]
    BY <1>1, DiskRename DEF CbInv
  <2>2. CallbackOf(d) \in Callbacks \cup {Nil} /\ d.wfname \in SaveNames
    BY <1>0, <1>1 DEF CallbackOf, CbInv, TypeOK, Ctx
  <2>3. out' \in Outcome
    BY <1>1, <2>2 DEF Outcome
  <2> QED
    BY <1>0, <1>1, <2>1, <2>3 DEF CbInv, TypeOK
<1>3. CtxsOk'
  BY <1>0, <1>1 DEF CbInv, CtxsOk, TypeOK, InProcess
<1>4. FcbsOk'
  BY <1>0, <1>1, FcbsAfter DEF CbInv
<1>5. InsideOk'
  <2>1. files'[id] = d /\ d # Nil
    BY <1>0, <1>1, NoCtxAssumption DEF CbInv, TypeOK
  <2>2. d.fcb \in {"own", "default"}
    BY <1>1 DEF Ctx
  <2>3. d.fcb = "own" => reg[n] # Nil
    BY <1>0, <1>1 DEF CbInv, FcbsOk, FcbRegistered
  <2> QED
    BY <1>0, <1>1, <2>1, <2>2, <2>3 DEF InsideOk, InProcess
<1> QED
  BY <1>2, <1>3, <1>4, <1>5 DEF CbInv

LEMMA NestedKeeps ==
  ASSUME OwnFile = FALSE, CbInv, Nested
  PROVE  CbInv'
<1>0. Next
  BY KilledIsNext, CallIsNext, OtherIsNext DEF Nested
<1>1. TypeOK' /\ CtxsOk' /\ FcbsOk'
  BY <1>0, TypeStep, CtxsStep, FcbsStep DEF CbInv
<1>2. InsideOk'
  <2> SUFFICES ASSUME Running' PROVE InsideOk'
    BY DEF InsideOk
  <2>1. proc' = "up"
    BY DEF Nested, Meanwhile, Running
  <2>2. /\ inside \in [name : Names, fcb : {"own", "default"}]
        /\ InProcess(FileId[inside.name])
        /\ inside.fcb = "own" => reg[inside.name] # Nil
    BY DEF CbInv, InsideOk, Nested
  <2>3. /\ files'[FileId[inside.name]] = files[FileId[inside.name]]
        /\ reg'[inside.name] = reg[inside.name]
    <3>1. CASE \E n \in Names : Allowed(n) /\ CallsAbout(n)
      BY <2>1, <2>2, <3>1, CallKeepsOthers DEF Allowed, KeepsOthers, CbInv
    <3>2. CASE OtherCalls
      BY <3>2 DEF OtherCalls, RegisterDefault, SetRecvdir
    <3>3. CASE KilledAbout({v \in Versions : Allowed(NameOf[v])})
      BY <2>1, <3>3 DEF KilledAbout, Crash, CrashInHello, CrashInAppend, CrashInFinish, Dies
    <3> QED
      BY <3>1, <3>2, <3>3 DEF Nested
  <2>4. inside' = inside
    BY <2>1, <2>2, <2>3 DEF Nested, Meanwhile
  <2> QED
    BY <2>1, <2>2, <2>3, <2>4 DEF InsideOk, InProcess
<1> QED
  BY <1>1, <1>2 DEF CbInv

LEMMA ReturnKeeps ==
  ASSUME CbInv, Returns
  PROVE  CbInv'
<1> DEFINE n == inside.name
           id == FileId[n]
<1>0. n \in Names /\ id \in Ids /\ InProcess(id) /\ inside.fcb # "freed"
  BY IdsOfNames DEF CbInv, InsideOk, Returns
<1>1. /\ files' = [files EXCEPT ![id] = Nil]
      /\ reg' = reg \/ reg' = [reg EXCEPT ![n] = Nil]
      /\ UNCHANGED <<proc, star, recvdir, disk, out>>
  BY <1>0 DEF Returns, CleansUp, FreesTwice
<1>2. TypeOK'
  BY <1>0, <1>1 DEF CbInv, TypeOK
<1>3. CtxsOk'
  BY <1>0, <1>1 DEF CbInv, CtxsOk, TypeOK, InProcess
<1>4. FcbsOk'
  BY <1>0, <1>1, FcbsAfter DEF CbInv
<1>5. InsideOk'
  BY DEF Returns, InsideOk, Running
<1> QED
  BY <1>2, <1>3, <1>4, <1>5 DEF CbInv

LEMMA CbInvStep ==
  ASSUME OwnFile = FALSE, CbInv, [CbNext]_cvars
  PROVE  CbInv'
<1>1. CASE UNCHANGED cvars
  BY <1>1 DEF cvars, vars, CbInv, TypeOK, CtxsOk, FcbsOk, FcbRegistered, NoneFreed, InsideOk,
              InProcess, Running
<1>2. CASE /\ ~Running /\ UNCHANGED inside
           /\ Start \/ Fini \/ Killed \/ OtherCalls \/ \E n \in Names : CallsAbout(n)
  <2>1. Next
    BY <1>2, CallIsNext, OtherIsNext DEF Next
  <2>2. TypeOK' /\ CtxsOk' /\ FcbsOk'
    BY <2>1, TypeStep, CtxsStep, FcbsStep DEF CbInv
  <2>3. InsideOk'
    BY <1>2 DEF InsideOk, Running
  <2> QED
    BY <2>2, <2>3 DEF CbInv
<1>3. CASE ~Running /\ \E v \in Versions, i \in 0..(MaxBlocks - 1) : Enters(v, i)
  BY <1>3, EntersKeeps
<1> QED
  BY <1>1, <1>2, <1>3, NestedKeeps, ReturnKeeps DEF CbNext

LEMMA CbInvariant ==
  ASSUME OwnFile = FALSE
  PROVE  CbSpec => []CbInv
<1>1. CbInit => CbInv
  BY InitTypes, IdsOfNames DEF CbInit, CbInv, CtxsOk, FcbsOk, FcbRegistered, NoneFreed, InsideOk, InProcess,
     Running, Init
<1>2. CbInv /\ [CbNext]_cvars => CbInv'
  BY CbInvStep
<1> QED
  BY <1>1, <1>2, PTL DEF CbSpec
-----------------------------------------------------------------------------
(* Every step is a step of the one-step receiver, or none.                 *)

LEMMA SeenTyped ==
  ASSUME CbInv
  PROVE  HF \in [Ids -> Ctx \cup {Nil}] /\ HR \in [Names -> Callbacks \cup {Nil}]
BY DEF HF, HR, CbInv, TypeOK

LEMMA ClearSeen ==
  ASSUME ClearMemory, inside' = Nil
  PROVE  W!ClearMemory
BY SameContexts DEF ClearMemory, W!ClearMemory, W!Ids, Ids, Running

(* With no callback running everything is seen.                            *)
LEMMA IdleSees ==
  ASSUME ~Running, UNCHANGED inside, NEW n \in Names
  PROVE  Sees(n)
<1>1. HF = files /\ HR = reg
  BY DEF HF, HR
<1>2. HF' = files' /\ HR' = reg'
  BY DEF HF, HR, Running
<1> QED
  BY <1>1, <1>2, ClearSeen DEF Sees, Mirrors, Running

LEMMA NestedSees ==
  ASSUME CbInv, Running, Meanwhile, NEW n \in Names, n # inside.name
  PROVE  Sees(n)
<1> DEFINE m == inside.name
<1>0. /\ m \in Names /\ FileId[m] \in Ids /\ FileId[n] \in Ids /\ FileId[m] # FileId[n]
      /\ proc = "up" /\ inside \in Inside /\ inside # Nil
      /\ inside.fcb = "own" => reg[m] # Nil
  BY NamesAssumption, IdsOfNames DEF CbInv, InsideOk, Running, Inside
<1>1. HF[FileId[n]] = files[FileId[n]] /\ HR[n] = reg[n]
  BY <1>0 DEF HF, HR, CbInv, TypeOK
<1>2. ASSUME UNCHANGED proc PROVE Mirrors(n)
  <2>1. inside' = IF inside.fcb = "own" /\ reg'[m] = Nil
                    THEN [inside EXCEPT !.fcb = "freed"] ELSE inside
    BY <1>0, <1>2 DEF Meanwhile
  <2>2. inside'.name = m /\ inside' \in Inside
    BY <1>0, <2>1 DEF Inside
  <2>3. inside' # Nil
    BY <2>2, NoInsideAssumption
  <2>4. HF = [files EXCEPT ![FileId[m]] = Nil] /\ HF' = [files' EXCEPT ![FileId[m]] = Nil]
    BY <2>2, <2>3 DEF HF, Running
  <2>5. ASSUME NEW d, files' = [files EXCEPT ![FileId[n]] = d]
        PROVE  HF' = [HF EXCEPT ![FileId[n]] = d]
    BY <1>0, <2>4, <2>5 DEF CbInv, TypeOK
  <2>6. ASSUME reg'[m] = reg[m]
        PROVE  HR' = IF inside.fcb = "own" THEN [reg' EXCEPT ![m] = Nil] ELSE reg'
    BY <1>0, <2>1, <2>3, <2>6 DEF HR, Running
  <2>7. HR = IF inside.fcb = "own" THEN [reg EXCEPT ![m] = Nil] ELSE reg
    BY DEF HR
  <2>8. UNCHANGED reg => HR' = HR
    BY <2>6, <2>7
  <2>9. ASSUME NEW x, reg' = [reg EXCEPT ![n] = x]
        PROVE  HR' = [HR EXCEPT ![n] = x]
    <3>1. reg'[m] = reg[m]
      BY <1>0, <2>9 DEF CbInv, TypeOK
    <3> QED
      BY <1>0, <2>6, <2>7, <2>9, <3>1 DEF CbInv, TypeOK
  <2> QED
    BY <2>4, <2>5, <2>8, <2>9 DEF Mirrors
<1>3. ASSUME ~UNCHANGED proc, ClearMemory PROVE W!ClearMemory
  BY <1>0, <1>3, ClearSeen DEF Meanwhile
<1> QED
  BY <1>1, <1>2, <1>3 DEF Sees

(* No file with the id 0 is hidden when a HELLO is handled.                *)
LEMMA SameRefusal ==
  ASSUME CbInv, Running => FileId[inside.name] # 0
  PROVE  W!Refused <=> Refused
<1>1. 0 \in Ids
  BY DEF Ids
<1>2. HF[0] = files[0]
  BY <1>1 DEF HF, CbInv, TypeOK
<1>3. W!Refused <=> HF[0] # Nil
  BY DEF W!Refused, W!InProcess, HF
<1> QED
  BY <1>2, <1>3 DEF Refused, InProcess

LEMMA CallSeen ==
  ASSUME RoomForAll, CbInv, NEW n \in Names, Sees(n), CallsAbout(n)
  PROVE  W!Next
<1>1. CASE RecvStop(n)
  <2>1. W!RecvStop(n)
    BY <1>1, RecvStopSeen
  <2> QED
    BY <2>1 DEF W!Next
<1>2. CASE Unregister(n)
  <2>1. W!Unregister(n)
    BY <1>2, UnregisterSeen, SeenTyped DEF CbInv
  <2> QED
    BY <2>1 DEF W!Next
<1>3. ASSUME NEW cb \in Callbacks, Register(n, cb) PROVE W!Next
  <2>1. W!Register(n, cb)
    BY <1>3, RegisterSeen
  <2> QED
    BY <2>1 DEF W!Next
<1>4. ASSUME NEW v \in Versions, NameOf[v] = n, Hello(v), Running => FileId[inside.name] # 0
      PROVE  W!Next
  <2>1. W!Hello(v)
    BY <1>4, HelloSeen, SameRefusal
  <2> QED
    BY <2>1 DEF W!Next
<1>5. ASSUME NEW v \in Versions, NameOf[v] = n, NEW i \in 0..(MaxBlocks - 1), Block(v, i)
      PROVE  W!Next
  <2>1. W!Block(v, i)
    BY <1>5, BlockSeen DEF CbInv
  <2> QED
    BY <2>1 DEF W!Next
<1> QED
  BY <1>1, <1>2, <1>3, <1>4, <1>5 DEF CallsAbout

LEMMA OtherSeen ==
  ASSUME CbInv, OtherCalls, Running => Meanwhile, ~Running => UNCHANGED inside
  PROVE  W!Next
<1>1. UNCHANGED <<proc, files, reg, disk>> /\ proc = "up"
  BY DEF OtherCalls, RegisterDefault, SetRecvdir
<1>2. inside' = inside
  BY <1>1 DEF CbInv, InsideOk, Meanwhile
<1>3. HF' = HF /\ HR' = HR
  BY <1>1, <1>2 DEF HF, HR, Running
<1>4. ASSUME NEW cb \in Callbacks, RegisterDefault(cb) PROVE W!Next
  <2>1. W!RegisterDefault(cb)
    BY <1>3, <1>4, SameContexts DEF RegisterDefault, W!RegisterDefault, HF, HR
  <2> QED
    BY <2>1 DEF W!Next
<1>5. ASSUME NEW d \in Dirs, SetRecvdir(d) PROVE W!Next
  <2>1. Idle => \A id \in Ids : HF[id] = Nil
    BY DEF Idle, InProcess, HF, CbInv, TypeOK
  <2>2. Idle => W!Idle
    BY <2>1 DEF W!Idle, W!InProcess, W!Ids, Ids, HF
  <2>3. W!SetRecvdir(d)
    BY <1>3, <1>5, <2>2, SameContexts DEF SetRecvdir, W!SetRecvdir, HF, HR
  <2> QED
    BY <2>3 DEF W!Next
<1> QED
  BY <1>4, <1>5 DEF OtherCalls

LEMMA KilledSeen ==
  ASSUME CbInv, NEW V \in SUBSET Versions, KilledAbout(V), inside' = Nil,
         \A v \in V : Running => NameOf[v] # inside.name
  PROVE  W!Next
<1>0. proc = "up" /\ "crash" \in Calls
  BY DEF KilledAbout
<1>1. Dies
  BY DEF KilledAbout, Crash, CrashInHello, CrashInAppend, CrashInFinish
<1>2. W!Dies
  BY <1>1, ClearSeen DEF Dies, W!Dies
<1>3. CASE Crash
  BY <1>0, <1>2, <1>3 DEF Crash, W!Next, W!Killed, W!KilledAbout, W!Crash
<1>4. ASSUME NEW v \in V, CrashInHello(v) PROVE W!Next
  <2>1. ~W!Refused
    <3>1. W!Refused <=> HF[0] # Nil
      BY DEF W!Refused, W!InProcess, HF
    <3>2. 0 \in Ids
      BY DEF Ids
    <3> QED
      BY <1>4, <3>1, <3>2 DEF CrashInHello, Refused, InProcess, HF, CbInv, TypeOK
  <2>2. W!CrashInHello(v)
    BY <1>2, <1>4, <2>1, SameContexts, SameDisk DEF CrashInHello, W!CrashInHello
  <2> QED
    BY <1>0, <2>2 DEF W!Next, W!Killed, W!KilledAbout
<1>5. ASSUME NEW v \in V, NEW i \in 0..(Blocks[v] - 1),
             CrashInAppend(v, i) \/ CrashInFinish(v, i)
      PROVE  W!Next
  <2> DEFINE id == FileId[NameOf[v]]
             c == files[id]
  <2>1. HF[id] = c
    <3>1. NameOf[v] \in Names /\ id \in Ids
      BY NamesAssumption, IdsOfNames
    <3>2. Running => inside.name \in Names /\ FileId[inside.name] # id
      BY <3>1, NamesAssumption DEF CbInv, InsideOk
    <3> QED
      BY <3>1, <3>2 DEF HF, CbInv, TypeOK
  <2>2. W!InProcess(id) <=> InProcess(id)
    BY <2>1 DEF W!InProcess, InProcess, HF
  <2>3. /\ W!Part(c) = Part(c) /\ W!At(W!PartFile(c)) = At(PartFile(c))
        /\ \A s : /\ W!RunEnds(c, s) <=> RunEnds(c, s)
                  /\ W!RunUpTo(c, <<v, i>>, s) = RunUpTo(c, <<v, i>>, s)
                  /\ W!AdvancedTo(c, s) = AdvancedTo(c, s)
    BY SameContexts, SameDisk, SameRuns DEF W!At, At, W!PartFile, PartFile
  <2>4. CASE CrashInAppend(v, i)
    <3>1. PICK e \in 1..MaxBlocks, short \in {<<>>, <<Junk>>} :
             /\ RunEnds(c, e)
             /\ \E s \in c.nextid..e :
                  disk' = [disk EXCEPT ![At(PartFile(c))] =
                             Part(c) \o RunUpTo(c, <<v, i>>, s) \o short]
      BY <2>4, Zenon DEF CrashInAppend
    <3>2. InProcess(id) /\ i = c.nextid /\ Part(c) # Nil
      BY <2>4, Zenon DEF CrashInAppend
    <3>3. W!RunEnds(c, e)
      BY <3>1, <2>3, Zenon
    <3>4. PICK s \in c.nextid..e :
             disk' = [disk EXCEPT ![W!At(W!PartFile(c))] =
                        W!Part(c) \o W!RunUpTo(c, <<v, i>>, s) \o short]
      BY <3>1, <2>3
    <3>5. W!InProcess(id) /\ i = HF[id].nextid /\ W!Part(HF[id]) # Nil
      BY <2>1, <2>2, <2>3, <3>2, Zenon
    <3>6. W!CrashInAppend(v, i)
      <4> HIDE DEF c
      <4> QED
        BY <1>2, <2>1, <3>3, <3>4, <3>5 DEF W!CrashInAppend, HF
    <3> QED
      BY <1>0, <3>6 DEF W!Next, W!Killed, W!KilledAbout
  <2>5. CASE CrashInFinish(v, i)
    <3>1. W!CrashInFinish(v, i)
      BY <1>2, <2>1, <2>2, <2>3, <2>5, SameDisk DEF CrashInFinish, W!CrashInFinish, HF
    <3> QED
      BY <1>0, <3>1 DEF W!Next, W!Killed, W!KilledAbout
  <2> QED
    BY <1>5, <2>4, <2>5
<1> QED
  BY <1>3, <1>4, <1>5 DEF KilledAbout
(* The handler that runs a callback ends, for the others, when that begins. *)
LEMMA EntersSeen ==
  ASSUME CbInv, ~Running, NEW v \in Versions, NEW i \in 0..(MaxBlocks - 1), Enters(v, i)
  PROVE  W!Next
<1> DEFINE n == NameOf[v]
           id == FileId[n]
           c == files[id]
<1>0. /\ id \in Ids /\ n \in Names /\ proc = "up" /\ InProcess(id) /\ i \in 0..(Blocks[v] - 1)
      /\ UNCHANGED <<proc, star, reg, recvdir>>
  BY NamesAssumption, IdsOfNames DEF Enters
<1>1. PICK d \in Ctx, p \in Data :
        /\ <<d, p>> \in Placed(v, i) /\ Renamed(d, p) /\ p = Content(d.ver)
        /\ CtxOk(id, d) /\ NameOf[d.ver] = n /\ d.fcb = c.fcb /\ d.fcb # "freed"
        /\ CallbackOf(d) # NoCb
        /\ out' = [rv |-> "ok", ack |-> FALSE, saved |-> d.wfname, ran |-> CallbackOf(d)]
        /\ files' = [files EXCEPT ![id] = d]
        /\ inside' = [name |-> n, fcb |-> d.fcb]
  BY EnteredState DEF CbInv
<1>2. HF = files /\ HR = reg
  BY DEF HF, HR
<1>3. inside' # Nil
  <2>1. inside' \in Inside
    BY <1>0, <1>1 DEF Inside, Ctx
  <2> QED
    BY <2>1, NoInsideAssumption
<1>4. HF' = [HF EXCEPT ![id] = Nil]
  <2>1. HF' = [files' EXCEPT ![id] = Nil]
    BY <1>1, <1>3 DEF HF, Running
  <2> QED
    BY <1>0, <1>1, <1>2, <2>1 DEF CbInv, TypeOK
<1>5. HR' = IF d.fcb = "own" THEN [HR EXCEPT ![n] = Nil] ELSE HR
  BY <1>0, <1>1, <1>2, <1>3 DEF HR, Running
<1>6. W!Completes(id, d, p)
  <2>1. W!Renamed(d, p) /\ W!Content(d.ver) = Content(d.ver)
    BY <1>1, SameContexts, SameDisk
  <2>2. out' = [rv |-> "ok", ack |-> FALSE, saved |-> d.wfname,
                ran |-> LET cb == IF d.fcb = "own" THEN HR[n] ELSE star IN
                        IF cb = NoCb THEN Nil ELSE cb]
    BY <1>1, <1>2 DEF CallbackOf
  <2> QED
    BY <1>0, <1>1, <1>4, <1>5, <2>1, <2>2 DEF W!Completes, HF, HR
<1>7. W!Finish(id, d, p)
  BY <1>0, <1>6 DEF W!Finish
<1>8. W!InProcess(id) /\ HF[id] = c
  BY <1>0, <1>2 DEF W!InProcess, InProcess, HF
<1>9. CASE i = c.nextid
  <2>1. PICK s \in 1..MaxBlocks : /\ RunEnds(c, s) /\ Part(c) # Nil
                                  /\ d = AdvancedTo(c, s)
                                  /\ p = Part(c) \o RunUpTo(c, <<v, i>>, s)
    BY <1>1, <1>9 DEF Placed
  <2>2. /\ W!Part(c) = Part(c) /\ W!RunUpTo(c, <<v, i>>, s) = RunUpTo(c, <<v, i>>, s)
        /\ W!AdvancedTo(c, s) = AdvancedTo(c, s) /\ W!RunEnds(c, s)
    BY <2>1, SameContexts, SameDisk, SameRuns
  <2>3. W!BlockInOrder(v, i)
    BY <1>7, <1>8, <1>9, <2>1, <2>2 DEF W!BlockInOrder, HF
  <2> QED
    BY <1>0, <2>3 DEF W!Block, W!Next
<1>10. CASE i # c.nextid
  <2>1. /\ i < c.cap /\ d = [c EXCEPT !.entries[i] = <<v, i>>] /\ p = Part(c)
    <3>1. /\ {i} \cap 0..(c.cap - 1) # {}
          /\ <<d, p>> = <<[c EXCEPT !.entries[i] = <<v, i>>], Part(c)>>
      BY <1>1, <1>10 DEF Placed
    <3>2. c.cap \in Nat
      BY <1>0, BoundsAssumption DEF CbInv, TypeOK, InProcess, Ctx
    <3> QED
      BY <3>1, <3>2
  <2>2. W!Part(c) = Part(c)
    BY SameDisk
  <2>3. W!BlockOutOfOrder(v, i)
    BY <1>7, <1>8, <1>10, <2>1, <2>2 DEF W!BlockOutOfOrder, HF
  <2> QED
    BY <1>0, <2>3 DEF W!Block, W!Next
<1> QED
  BY <1>9, <1>10

(* What the handler does after the callback has been done, for the others. *)
LEMMA ReturnUnseen ==
  ASSUME CbInv, Returns
  PROVE  UNCHANGED W!vars
<1> DEFINE n == inside.name
           id == FileId[n]
<1>0. InProcess(id) /\ inside.fcb # "freed" /\ Running
  BY DEF CbInv, InsideOk, Returns
<1>1. /\ files' = [files EXCEPT ![id] = Nil]
      /\ reg' = IF inside.fcb = "own" THEN [reg EXCEPT ![n] = Nil] ELSE reg
      /\ UNCHANGED <<proc, star, recvdir, disk, out>>
  BY <1>0 DEF Returns, CleansUp, FreesTwice
<1>2. HF' = HF /\ HR' = HR
  BY <1>0, <1>1 DEF Returns, HF, HR, Running
<1> QED
  BY <1>1, <1>2 DEF W!vars, HF, HR

LEMMA NestedSeen ==
  ASSUME OwnFile = FALSE, RoomForAll, CbInv, Nested
  PROVE  W!Next
<1>0. Running /\ Meanwhile
  BY DEF Nested
<1>1. ASSUME NEW n \in Names, Allowed(n), CallsAbout(n) PROVE W!Next
  <2>1. Sees(n)
    BY <1>0, <1>1, NestedSees DEF Allowed
  <2> QED
    BY <1>1, <2>1, CallSeen
<1>2. CASE OtherCalls
  BY <1>0, <1>2, OtherSeen
<1>3. CASE KilledAbout({v \in Versions : Allowed(NameOf[v])})
  <2>1. inside' = Nil
    BY <1>0, <1>3 DEF KilledAbout, Crash, CrashInHello, CrashInAppend, CrashInFinish, Dies,
                      Meanwhile
  <2>2. \A v \in {v \in Versions : Allowed(NameOf[v])} : NameOf[v] # inside.name
    BY DEF Allowed
  <2> QED
    BY <1>3, <2>1, <2>2, KilledSeen
<1> QED
  BY <1>1, <1>2, <1>3 DEF Nested

LEMMA IdleSeen ==
  ASSUME RoomForAll, CbInv, ~Running, UNCHANGED inside,
         Start \/ Fini \/ Killed \/ OtherCalls \/ \E n \in Names : CallsAbout(n)
  PROVE  W!Next
<1>0. HF = files /\ HR = reg /\ HF' = files' /\ HR' = reg' /\ inside' = Nil
  BY DEF HF, HR, Running
<1>1. CASE Start
  BY <1>0, <1>1 DEF Start, mem, W!Next, W!Start, W!mem, HF, HR
<1>2. CASE Fini
  BY <1>0, <1>2, ClearSeen DEF Fini, W!Next, W!Fini
<1>3. CASE Killed
  BY <1>0, <1>3, KilledSeen DEF Killed
<1>4. CASE OtherCalls
  BY <1>4, OtherSeen
<1>5. CASE \E n \in Names : CallsAbout(n)
  BY <1>5, IdleSees, CallSeen
<1> QED
  BY <1>1, <1>2, <1>3, <1>4, <1>5

(* The handler of the last block may be taken for one step: what a callback *)
(* calls about other files finds the library as it is once the handler has *)
(* ended (handler, 543-598), provided that the registry is large enough to *)
(* hold the entry that is about to go.                                     *)
THEOREM CallbackIsOneStep ==
  ASSUME OwnFile = FALSE, RoomForAll
  PROVE  CbSpec => AsOneStep
<1>1. CbInit => W!Init
  <2>1. W!Ids = Ids
    BY DEF W!Ids, Ids
  <2>2. W!FileNames = FileNames
    <3>1. W!SaveNames = SaveNames
      BY SameContexts DEF W!SaveNames, SaveNames
    <3> QED
      BY <3>1 DEF W!FileNames, FileNames
  <2>3. Init /\ ~Running => W!Init
    BY <2>1, <2>2, SameContexts DEF Init, W!Init
  <2> QED
    BY <2>3 DEF CbInit, Running
<1>2. CbInv /\ [CbNext]_cvars => [W!Next]_(W!vars)
  <2> SUFFICES ASSUME CbInv, [CbNext]_cvars
               PROVE  W!Next \/ UNCHANGED W!vars
    OBVIOUS
  <2>1. CASE UNCHANGED cvars
    BY <2>1 DEF cvars, vars, W!vars, Running
  <2>2. CASE /\ ~Running /\ UNCHANGED inside
             /\ Start \/ Fini \/ Killed \/ OtherCalls \/ \E n \in Names : CallsAbout(n)
    BY <2>2, IdleSeen
  <2>3. CASE ~Running /\ \E v \in Versions, i \in 0..(MaxBlocks - 1) : Enters(v, i)
    BY <2>3, EntersSeen
  <2> QED
    BY <2>1, <2>2, <2>3, NestedSeen, ReturnUnseen DEF CbNext
<1> QED
  BY <1>1, <1>2, CbInvariant, PTL DEF CbSpec, AsOneStep, W!Spec
(* The entry a context points to outlives the callback too: the handler    *)
(* that goes on after it frees what is there (handler, 579-592).           *)
THEOREM EntryOutlivesCallback ==
  ASSUME OwnFile = FALSE
  PROVE  CbSpec => []FcbRegistered
<1>1. CbInv => FcbRegistered
  BY DEF CbInv, FcbsOk
<1> QED
  BY <1>1, CbInvariant, PTL
-----------------------------------------------------------------------------
(* What holds of the files while a callback runs, even one that makes      *)
(* calls about its own file.                                               *)

(* The handler goes on, with whatever the callback has left of its context.*)
LEMMA ReturnLeaves ==
  ASSUME TypeOK, CtxsOk, Returns
  PROVE  /\ TypeOK' /\ CtxsOk' /\ UNCHANGED disk
         /\ \A id \in Ids : files'[id] = files[id] \/ files'[id] = Nil
         /\ recvdir' = recvdir \/ ClearMemory
<1>1. CASE CleansUp
  <2>1. /\ files' = files \/ files' = [files EXCEPT ![FileId[inside.name]] = Nil]
        /\ reg' = reg \/ reg' = [reg EXCEPT ![inside.name] = Nil]
        /\ out' = out \/ out' = Result("ERR_HT")
        /\ UNCHANGED <<proc, star, recvdir, disk>>
    BY <1>1, Zenon DEF CleansUp
  <2>2. /\ files' \in [Ids -> Ctx \cup {Nil}]
        /\ \A id \in Ids : files'[id] = files[id] \/ files'[id] = Nil
    BY <2>1 DEF TypeOK
  <2>3. reg' \in [Names -> Callbacks \cup {Nil}]
    BY <2>1 DEF TypeOK
  <2>4. out' \in Outcome
    <3>1. Result("ERR_HT") \in Outcome
      BY DEF Result, Outcome
    <3> QED BY <2>1, <3>1, Zenon DEF TypeOK
  <2>5. CtxsOk'
    BY <2>2, Zenon DEF CtxsOk, InProcess
  <2> QED BY <2>1, <2>2, <2>3, <2>4, <2>5, Zenon DEF TypeOK
<1>2. CASE FreesTwice
  <2>1. ClearMemory /\ proc' = "abort" /\ UNCHANGED disk
    BY <1>2, Zenon DEF FreesTwice, Aborts
  <2>2. TypeOK'
    BY <2>1, ClearTypes DEF TypeOK
  <2>3. \A id \in Ids : files'[id] = Nil
    BY <2>1, Zenon DEF ClearMemory
  <2>4. CtxsOk'
    BY <2>3, Zenon DEF CtxsOk, InProcess
  <2> QED BY <2>1, <2>2, <2>3, <2>4, Zenon
<1> QED BY <1>1, <1>2, Zenon DEF Returns

LEMMA EntersLeaves ==
  ASSUME TypeOK, CtxsOk, NEW v \in Versions, NEW i \in 0..(MaxBlocks - 1), Enters(v, i)
  PROVE  LET id == FileId[NameOf[v]] IN
         /\ TypeOK' /\ CtxsOk' /\ UNCHANGED recvdir
         /\ id \in Ids /\ InProcess(id)
         /\ \E d \in Ctx, p \in Data :
              /\ <<d, p>> \in Placed(v, i) /\ Renamed(d, p) /\ CtxOk(id, d)
              /\ files' = [files EXCEPT ![id] = d]
<1> DEFINE n == NameOf[v]
           id == FileId[n]
<1>0. /\ id \in Ids /\ n \in Names /\ InProcess(id)
      /\ UNCHANGED <<proc, star, reg, recvdir>>
  BY NamesAssumption, IdsOfNames DEF Enters
<1>1. PICK d \in Ctx, p \in Data :
        /\ <<d, p>> \in Placed(v, i) /\ Renamed(d, p) /\ p = Content(d.ver)
        /\ CtxOk(id, d) /\ NameOf[d.ver] = n /\ d.fcb = files[id].fcb /\ d.fcb # "freed"
        /\ CallbackOf(d) # NoCb
        /\ out' = [rv |-> "ok", ack |-> FALSE, saved |-> d.wfname, ran |-> CallbackOf(d)]
        /\ files' = [files EXCEPT ![id] = d]
        /\ inside' = [name |-> n, fcb |-> d.fcb]
  BY EnteredState
<1>2. TypeOK'
  <2>1. disk' \in [Dirs \X FileNames -> Data \cup {Nil}]
    BY <1>1, DiskRename
  <2>2. CallbackOf(d) \in Callbacks \cup {Nil} /\ d.wfname \in SaveNames
    BY <1>0, <1>1 DEF CallbackOf, TypeOK, Ctx
  <2>3. out' \in Outcome
    BY <1>1, <2>2 DEF Outcome
  <2> QED BY <1>0, <1>1, <2>1, <2>3 DEF TypeOK
<1>3. CtxsOk'
  BY <1>0, <1>1 DEF CtxsOk, TypeOK, InProcess
<1> QED BY <1>0, <1>1, <1>2, <1>3, Zenon

(* Every other step is one of the receiver.                                *)
LEMMA OrdinaryStep ==
  ASSUME [CbNext]_cvars
  PROVE  \/ [Next]_vars \/ Returns
         \/ \E v \in Versions, i \in 0..(MaxBlocks - 1) : Enters(v, i)
<1>1. CASE UNCHANGED cvars
  BY <1>1 DEF cvars
<1>2. CASE CbNext
  BY <1>2, KilledIsNext, CallIsNext, OtherIsNext DEF CbNext, Nested, Next
<1> QED BY <1>1, <1>2

LEMMA CbTypesStep == ASSUME TypeOK, CtxsOk, [CbNext]_cvars PROVE TypeOK' /\ CtxsOk'
<1>1. CASE [Next]_vars
  BY <1>1, TypeStep, CtxsStep
<1>2. CASE Returns
  BY <1>2, ReturnLeaves, Zenon
<1>3. CASE \E v \in Versions, i \in 0..(MaxBlocks - 1) : Enters(v, i)
  BY <1>3, EntersLeaves, Zenon
<1> QED BY <1>1, <1>2, <1>3, OrdinaryStep, Zenon

LEMMA CbTypes == CbSpec => [](TypeOK /\ CtxsOk)
<1>1. CbInit => TypeOK /\ CtxsOk
  BY InitTypes DEF CbInit, CtxsOk, InProcess, Init
<1>2. TypeOK /\ CtxsOk /\ [CbNext]_cvars => TypeOK' /\ CtxsOk'
  BY CbTypesStep
<1> QED BY <1>1, <1>2, PTL DEF CbSpec

LEMMA ReturnSafe ==
  ASSUME TypeOK, CtxsOk, Returns
  PROVE  /\ PartInOrder => PartInOrder'
         /\ TargetFree => TargetFree'
<1>1. /\ UNCHANGED disk /\ \A id \in Ids : files'[id] = files[id] \/ files'[id] = Nil
      /\ recvdir' = recvdir \/ ClearMemory
  BY ReturnLeaves, Zenon
<1>2. CASE ClearMemory
  BY <1>2, ClearStep
<1>3. CASE recvdir' = recvdir
  <2>1. ASSUME NEW id \in Ids, InProcess(id)'
        PROVE  /\ InProcess(id) /\ files'[id] = files[id] /\ Part(files[id])' = Part(files[id])
               /\ Exists(files[id].wfname)' <=> Exists(files[id].wfname)
    <3>1. files'[id] = files[id] /\ InProcess(id)
      BY <1>1, <2>1, Zenon DEF InProcess
    <3> QED BY <1>1, <1>3, <3>1, Zenon DEF Part, PartFile, At, Exists
  <2>2. ASSUME PartInOrder PROVE PartInOrder'
    <3> SUFFICES ASSUME NEW id \in Ids, InProcess(id)'
                 PROVE  PartOk(files[id], Part(files[id]))'
      BY Zenon DEF PartInOrder
    <3>1. PartOk(files[id], Part(files[id]))
      BY <2>1, <2>2, Zenon DEF PartInOrder
    <3> QED BY <2>1, <3>1, Zenon DEF PartOk, BlockOf, Awaiting
  <2>3. ASSUME TargetFree PROVE TargetFree'
    BY <2>1, <2>3, Zenon DEF TargetFree
  <2> QED BY <2>2, <2>3
<1> QED BY <1>1, <1>2, <1>3

LEMMA CbSafeStep ==
  ASSUME CleanNames, "set_recvdir" \notin MidTransfer, TypeOK, CtxsOk, [CbNext]_cvars
  PROVE  /\ "short" \notin IoFaults /\ PartInOrder => PartInOrder'
         /\ TargetFree => TargetFree'
<1>1. CASE [Next]_vars
  BY <1>1, SafeStep
<1>2. CASE Returns
  BY <1>2, ReturnSafe
<1>3. CASE \E v \in Versions, i \in 0..(MaxBlocks - 1) : Enters(v, i)
  <2>1. PICK v \in Versions, i \in 0..(MaxBlocks - 1) : Enters(v, i)
    BY <1>3
  <2>2. PICK id \in Ids, d \in Ctx, p \in Data :
          /\ Renamed(d, p) /\ CtxOk(id, d) /\ files' = [files EXCEPT ![id] = d]
          /\ UNCHANGED recvdir
    BY <2>1, EntersLeaves, Zenon
  <2>3. ~Awaiting(d)
    BY <2>2 DEF Renamed, Awaiting, Ctx
  <2>4. disk' = [disk EXCEPT ![At(PartFile(d))] = Nil, ![At(d.wfname)] = p]
    BY <2>2, Zenon DEF Renamed
  <2>5. PartInOrder => PartInOrder'
    BY <2>2, <2>3, <2>4, PartsAfter
  <2>6. TargetFree => TargetFree'
    BY <2>2, <2>4, TargetsAfter
  <2> QED BY <2>5, <2>6
<1> QED BY <1>1, <1>2, <1>3, OrdinaryStep
(* Every file stays as it is until a callback finds it, and after it.      *)
THEOREM PartOutlivesCallback ==
  ASSUME CleanNames, "set_recvdir" \notin MidTransfer, "short" \notin IoFaults
  PROVE  CbSpec => []PartInOrder
<1>1. CbInit => PartInOrder
  BY InitSafe DEF CbInit
<1>2. TypeOK /\ CtxsOk /\ PartInOrder /\ [CbNext]_cvars => PartInOrder'
  BY CbSafeStep
<1> QED BY <1>1, <1>2, CbTypes, PTL DEF CbSpec

LEMMA TargetOutlivesCallback ==
  ASSUME CleanNames, "set_recvdir" \notin MidTransfer
  PROVE  CbSpec => []TargetFree
<1>1. CbInit => TargetFree
  BY InitSafe DEF CbInit
<1>2. TypeOK /\ CtxsOk /\ TargetFree /\ [CbNext]_cvars => TargetFree'
  BY CbSafeStep
<1> QED BY <1>1, <1>2, CbTypes, PTL DEF CbSpec

(* What the handler makes of its own transfer before the callback.         *)
LEMMA PlacedFollows ==
  ASSUME TypeOK, CtxsOk, NEW v \in Versions, NEW i \in 0..(MaxBlocks - 1), Enters(v, i),
         NEW d, NEW p, <<d, p>> \in Placed(v, i)
  PROVE  LET c == files[FileId[NameOf[v]]] IN
         /\ d.wfname = c.wfname /\ CollectedOf(c) \subseteq CollectedOf(d)
         /\ Part(c) # Nil \/ p = Part(c)
<1> DEFINE id == FileId[NameOf[v]]
           c == files[id]
<1>0. id \in Ids /\ InProcess(id) /\ <<v, i>> \in Payload /\ c \in Ctx
  BY NamesAssumption, IdsOfNames DEF Enters, Payload, InProcess, TypeOK
<1>1. CASE i = c.nextid
  <2>1. PICK s \in 1..MaxBlocks :
          /\ Part(c) # Nil /\ RunEnds(c, s)
          /\ <<d, p>> = <<AdvancedTo(c, s), Part(c) \o RunUpTo(c, <<v, i>>, s)>>
    BY <1>1 DEF Placed
  <2>2. d = AdvancedTo(c, s)
    BY <2>1
  <2>3. s \in c.nextid..s
    <3>1. c.nextid \in 0..MaxBlocks
      BY <1>0 DEF Ctx
    <3>2. s \in (c.nextid + 1)..MaxBlocks
      BY <2>1, Zenon DEF RunEnds
    <3> QED BY <3>1, <3>2
  <2>4. CollectedOf(c) \subseteq CollectedOf(d)
    BY <1>0, <2>1, <2>2, <2>3, AdvancedKeeps
  <2>5. d.wfname = c.wfname
    BY <1>0, <2>2 DEF AdvancedTo, Ctx
  <2> QED BY <2>1, <2>4, <2>5
<1>2. CASE i # c.nextid
  <2>1. /\ <<d, p>> = <<[c EXCEPT !.entries[i] = <<v, i>>], Part(c)>> /\ i < c.cap
    BY <1>0, <1>2 DEF Placed, Ctx
  <2>2. d = [c EXCEPT !.entries[i] = <<v, i>>] /\ p = Part(c)
    BY <2>1
  <2>3. PICK b \in Payload : b = <<v, i>> /\ b[2] = i
    BY <1>0
  <2>4. Caches(c, d)
    BY <1>2, <2>1, <2>2, <2>3 DEF Caches
  <2>5. CollectedOf(c) \subseteq CollectedOf(d)
    BY <1>0, <2>4, StepKeeps DEF CtxStep
  <2>6. d.wfname = c.wfname
    BY <1>0, <2>2 DEF Ctx
  <2> QED BY <2>2, <2>5, <2>6
<1> QED BY <1>1, <1>2

(* Whatever callbacks do in between, no transfer touches a file that has   *)
(* been saved: the callback may keep the name it is called with.           *)
THEOREM SavedOutlivesCallback ==
  ASSUME CleanNames, "set_recvdir" \notin MidTransfer
  PROVE  CbSpec => SavedIsKept
<1>1. TypeOK /\ CtxsOk /\ TargetFree /\ [CbNext]_cvars =>
        [\A d \in Dirs, s \in SaveNames :
           disk[<<d, s>>] # Nil /\ ~IsActivePart(d, s) =>
             disk'[<<d, s>>] = disk[<<d, s>>]]_vars
  <2> SUFFICES ASSUME TypeOK, CtxsOk, TargetFree, [CbNext]_cvars,
                      NEW d \in Dirs, NEW s \in SaveNames, disk[<<d, s>>] # Nil
               PROVE  disk'[<<d, s>>] = disk[<<d, s>>]
    OBVIOUS
  <2>1. CASE [Next]_vars
    BY <2>1, SavedStep
  <2>2. CASE Returns
    BY <2>2, ReturnLeaves
  <2>3. CASE \E v \in Versions, i \in 0..(MaxBlocks - 1) : Enters(v, i)
    <3>1. PICK v \in Versions, i \in 0..(MaxBlocks - 1) : Enters(v, i)
      BY <2>3
    <3>2. PICK id, c : id = FileId[NameOf[v]] /\ c = files[id]
      OBVIOUS
    <3>3. id \in Ids /\ InProcess(id)
      BY <3>1, <3>2, EntersLeaves, Zenon
    <3>4. PICK e \in Ctx, p \in Data : <<e, p>> \in Placed(v, i) /\ Renamed(e, p)
      BY <3>1, EntersLeaves, Zenon
    <3>5. e.wfname = c.wfname /\ (Part(c) # Nil \/ p = Part(c)) /\ p # Nil
      BY <3>1, <3>2, <3>4, PlacedFollows, Zenon DEF Renamed
    <3>6. disk' = [disk EXCEPT ![At(PartFile(c))] = Nil, ![At(c.wfname)] = p]
      BY <3>4, <3>5, Zenon DEF Renamed, PartFile
    <3>7. MayWrite(c, p)
      BY <3>5, <3>6, Zenon DEF MayWrite
    <3> QED BY <3>2, <3>3, <3>7, SavedUntouched
  <2> QED BY <2>1, <2>2, <2>3, OrdinaryStep
<1> QED BY <1>1, CbTypes, TargetOutlivesCallback, PTL DEF CbSpec, SavedIsKept

(* A transfer that goes on after a callback has all it had collected.      *)
THEOREM CollectedOutlivesCallback == CbSpec => KeepsCollected
<1>1. TypeOK /\ CtxsOk /\ [CbNext]_cvars =>
        \A id \in Ids : InProcess(id) /\ files'[id] # Nil =>
          \/ CollectedOf(files[id]) \subseteq CollectedOf(files'[id])
          \/ CollectedOf(files'[id]) = {}
  <2> SUFFICES ASSUME TypeOK, CtxsOk, [CbNext]_cvars,
                      NEW id \in Ids, InProcess(id), files'[id] # Nil
               PROVE  \/ CollectedOf(files[id]) \subseteq CollectedOf(files'[id])
                      \/ CollectedOf(files'[id]) = {}
    OBVIOUS
  <2>1. CASE [Next]_vars
    <3>1. Follows(id) /\ files[id] \in Ctx
      BY <2>1, EachFollows DEF TypeOK, InProcess
    <3> QED BY <3>1, StepKeeps, OpenedEmpty DEF Follows, Goes
  <2>2. CASE Returns
    BY <2>2, ReturnLeaves, Zenon
  <2>3. CASE \E v \in Versions, i \in 0..(MaxBlocks - 1) : Enters(v, i)
    <3>1. PICK v \in Versions, i \in 0..(MaxBlocks - 1) : Enters(v, i)
      BY <2>3
    <3>2. PICK j \in Ids, e \in Ctx, p \in Data :
            /\ j = FileId[NameOf[v]] /\ <<e, p>> \in Placed(v, i)
            /\ files' = [files EXCEPT ![j] = e]
      BY <3>1, EntersLeaves, Zenon
    <3>3. CollectedOf(files[j]) \subseteq CollectedOf(e)
      BY <3>1, <3>2, PlacedFollows, Zenon
    <3> QED BY <3>2, <3>3 DEF TypeOK
  <2> QED BY <2>1, <2>2, <2>3, OrdinaryStep
<1> QED BY <1>1, CbTypes, PTL DEF CbSpec, KeepsCollected
=============================================================================
