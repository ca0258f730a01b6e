# nftp-codec in TLA+

A model of nftp-codec, the library that splits files into NFTP messages and
puts them together again, with the TLC runs that check it and the TLAPS proofs
about it. Paths are relative to the repository; `hashtable.c` is in
`hashtable/`, every other file named here in `src/`.

## The system

nftp-codec is a library: it owns no thread and no socket. An application on
each side passes messages to `nftp_proto_handler` and sends what it returns.

| Part | State | Operations | Works with |
| --- | --- | --- | --- |
| receiver (`proto.c`) | `files`: id -> `struct nctx`; the part files and saved files on disk | handler for HELLO, FILE, END; `recv_status`, `recv_stop`, `init`, `fini` | registry, file operations, hash table, codec |
| registry (`proto.c`) | `fcb_reg`: a vector of (name, callback), "\*" first; `recvdir` | `register`, `unregister`, `set_recvdir` | vector; contexts point into it |
| sender (`proto.c`) | `senderfiles`: id -> path | `maker` for every type of message, handler for ACK and GIVEME | file operations, codec |
| file operations (`file.c`) | the disk | exist, newname, write, append, rename, remove, hash, size, blocks, readblk | called by receiver and sender |
| vector (`vector.c`) | ring buffer `low`, `len`, `vec`, a mutex | push, pop, insert, delete, get, getidx, iterator | registry |
| iovs (`iovs.c`) | fixed array with a start, a mutex; the key of an iterator | push, append, pop, insert, cat, to stream, len, iterator, free | codec |
| codec (`codec.c`) | none | decode, encode | maker, handler |
| checksum (`hash.c`) | tables built at first use | `nftp_crc32c` | ids, file hash |
| hash table (`hashtable.c`) | an array of chains, capacity, count | setup, destroy, insert, lookup, contains, erase, clear, reserve, resize, copy, move, swap, iterate | `files`, `senderfiles` |

Messages and calls: HELLO (name, block count, checksum) opens a transfer and
is answered with an ACK; FILE and END carry blocks, in any order; GIVEME asks
for one block again. What makes it hard:

* order and delivery: blocks arrive in any order, twice, or never; the context
  caches those that are early and appends runs of them;
* state that is read long after it was checked: the name chosen at HELLO, the
  pointer to the callback, `recvdir`, the sender's path and the sender's file;
* failures half way: append in the middle of a run, rename, checksum after the
  rename, a kill between any two of them;
* limits: the registry of 32, the 99 suffixes, the size of `entries`;
* threads: the vector and iovs check before they lock, joining two iovs takes
  two mutexes, and the tables of the checksum are built by whoever comes first;
* calls from within: the callback runs before the context is erased, and may
  call the library;
* memory: the hash table ignores some failures of the allocations it makes.

What makes each part correct: the *receiver* saves each announced file once,
complete and under a name nobody uses, whatever the order, and loses nothing
it has collected; the *registry* entry a context points to lives as long as
the context; the *sender* answers for every open transfer with blocks of the
file it announced; the *vector* is a double-ended queue for any set of
threads; *iovs* are sequences whose stream is their elements, and every call on
them returns; *codec*: decoding undoes encoding; a *checksum* is the remainder
of a division, whoever built the tables; the *hash table* is a finite map.
The hazards are listed, each at its line, in `PROJECT.json`.

## Modules

| Module | What it is |
| --- | --- |
| `Delivery` | abstract: a receiver collects the blocks of an announced file and the step that completes the set leaves one more intact copy |
| `NftpReceiver` | receiver, registry and the file operations under them |
| `NftpDelivery` | the refinement mapping from `NftpReceiver` to `Delivery` |
| `NftpCallback` | the receiver with callbacks that call the library; contains the mapping to `NftpReceiver` |
| `NftpTransfer` | `NftpReceiver` with the sender, the network and both applications |
| `Deque` | abstract: what a vector promises any number of callers |
| `Vector` | `vector.c` and the threads that call it; contains the mapping to `Deque` |
| `Segments` | abstract: what the iovs promise any number of callers |
| `Iovs` | `iovs.c` and the threads that call it; contains the mapping to `Segments` |
| `Wire` | a file cut into blocks, each message encoded and decoded: the numbers at their limits |
| `Checksum` | `nftp_crc32c` of `hash.c` and the threads that call it |
| `FiniteMap` | abstract: what a hash table promises, with and without memory |
| `HashTable` | `hashtable.c`; contains the mapping to `FiniteMap` |
| `MCReceiver`, `MCCallback`, `MCTransfer`, `MCVector`, `MCIovs`, `MCWire`, `MCChecksum`, `MCHashTable` | small instances of these for TLC |
| `NftpReceiverProofs` | theorems about `NftpReceiver` |
| `RefinementProofs` | that `NftpReceiver` implements `Delivery`, and theorems about `NftpTransfer` and `NftpCallback` |
| `VectorProofs`, `IovsProofs`, `HashTableProofs`, `WireProofs`, `ChecksumProofs` | theorems about the module of that name |
| `Lemmas` | induction and recursion over natural numbers, products and quotients, and what becomes of a sequence that gets or loses an entry, for the proofs about vector, iovs, messages and checksum |

How they are composed: `NftpTransfer` and `NftpCallback` extend `NftpReceiver`,
whose steps are parts of theirs. `Wire`, `Iovs`, `Vector`, `Checksum` and
`HashTable` stand on their own and justify what `NftpReceiver` takes for
granted of them: messages are records, the registry and `files` are functions,
and an id is a function of the name.

Definitions whose comment begins with "Mutant:" are deliberate mistakes. Each
stands before the definition it may replace; a run's property must then fail.

### NftpReceiver

State: `files` (a record per context, of `struct nctx`: `cap`, `nextid`,
`entries`, `wfname`, the callback pointer `fcb`, and `ver` for the name, id and
checksum it was opened with), `star` and `reg` (the registry), `recvdir`,
`disk`, `out` (what the last call gave back) and `proc`, which is `"abort"`
after an access outside allocated memory.

| Action | Code |
| --- | --- |
| `Start`, `Fini` | `nftp_proto_init`, `nftp_proto_fini` |
| `Register`, `RegisterDefault`, `Unregister`, `SetRecvdir` | the calls of those names; `RegisterDefault` is `register` of "\*" |
| `Hello` | case HELLO: refused, accepted (also over an open transfer), part file cannot be made, no free name |
| `Block` | cases FILE and END: unknown file, in order (`RunEnds`, `RunUpTo`, `AdvancedTo` are the loop of lines 506-522), a failing append, out of order, past `entries`; then `Finish`, lines 535-600 |
| `RecvStop` | `nftp_proto_recv_stop` |
| `Killed` | the process ends between calls, after HELLO made the part file, within an append, or after the rename (`KilledAbout` names the versions whose blocks and HELLOs it may be within) |

`proto.c` is not thread safe, so a call is one step. Data is abstract: a
*version* is one content of a named file, a block is `<<version, seq>>`, a file
on disk is a sequence of blocks, and a checksum matches exactly the content it
was computed from (collisions of CRC-32C are left out, for names as well).
`NamesAssumption` therefore has different ids for different names. There is no
network in this module: `Next` handles any message that any sender could have
made, at any time and any number of times.

`Calls` are the calls the application makes, `IoFaults` the operations that
may fail, and `MidTransfer` the calls it makes even while the file concerned is
in process; an application that waits has none.

Left out: failures of malloc; `len` and `status` of a context, which are
written and never read; a callback that calls the library, which is the matter
of `NftpCallback`.

### NftpCallback

The handler of a last block runs the callback (`proto.c:577`) between the
rename and the removal of the registration and of the context. Here it is three
steps: `Enters`, the handler up to the callback; any number of `Nested` calls;
and `Returns`, the rest of the handler, with whatever the registration and the
table have become meanwhile (`CleansUp`), up to freeing an entry that a nested
call has freed already (`FreesTwice`). `inside` is the transfer whose callback
runs. A handler called from the callback may complete another file; the
callback of that one makes no calls. The process may be killed while the
callback runs, also within a call it makes. `fini` from a callback is left out.

The refinement mapping takes a transfer for over when its callback begins:
`AsOneStep` says that then every step is a step of `NftpReceiver` or none at
all, which is what allows the other modules to take the handler for one step.
It needs that a callback makes calls about other files only (`OwnFile` is
FALSE), that HELLO is not nested in the callback of a file whose id is 0 (the
context, still there, would have it refused), and a registry with a place more
than there are names (the entry not yet freed is still counted). With
`OwnFile`, `OwnFileCallback.cfg` finds `AsOneStep` violated by a nested call
about the file itself. A callback that unregisters its own file has the entry
freed again when it returns (`FreesTwice`, `proto.c:590`); one that calls
`nftp_proto_recv_stop` for its own file has the handler return an error for a
file it has saved.

### NftpTransfer

Adds `source` (the sender's files now), `senderfiles`, `acked`, and `net`, a
set of messages under way. `Handle` takes any of them, `Remains` says whether
the network keeps a copy, `Lose` drops one. The applications are those of
README.md and `test/proto.c`: `SendHello`, blocks after the ACK (`SendBlock`),
and on the other side `Ask`: `recv_status`, then GIVEME for what it reports.
`Edit` is somebody writing to the sender's file.

Fairness, in `FairSpec`: the receiver is started again (weak fairness of
`Start`); it keeps asking while it lacks a block (weak fairness of `Ask`, a
polling loop); a GIVEME or block that is under way again and again is handled
in the end (strong fairness, the usual meaning of a lossy link that is not
dead). The sender's own sending and the ACK get none: `OpenedIsSaved` holds
without them. The library itself has no timers. HELLO is not duplicated there:
a network that keeps delivering old HELLOs restarts the transfer for ever.

### Vector

One step is the check each call makes of `len` before it locks (`Enter`), one
is taking the mutex, and one is the locked code, which no other holder of the
mutex can see half done. `get` and `getidx` never lock: when they overlap
locked code they may return any stored entry (`Quiet`). Where a stale check
leads outside the array, the behaviour ends (`Defined`).

`Exclusive` are the calls an application makes only while no other is under
way. For `get` and `getidx`, which read without the lock, and `insert`, which
checks for a full vector before it, that is what they need.

### Iovs

As in `Vector`, the checks before the lock (`Enter`), the lock, and the locked
code are steps of their own; `nftp_iovs_cat` also takes the mutex of its source
(`LockSource`), gives it back before it has read how much it copied
(`CatCopy`, `CatCount`), and `nftp_iovs2stream` allocates before it locks and
reads the length after (`Enter`, `StreamCopy`, `StreamEnd`). Iterators and
`nftp_iovs_len` never lock. A call that leaves the array answers "wild", which
`Segments` never does. What an entry points to is a model value with a length.

`Care` says whether the applications keep to `Careful`, which has two parts.
`Fits`: nothing is pushed at the tail where no place is left
(`iovs.c:109` compares with the wrong bound), nor inserted when places in front
are free (`iovs.c:84` forgets to add `low`), and an iterator is not moved past
its ends: at the end its key is the largest int, which `next` would increment
(`iovs.c:246`). `Apart`: a call that looks at a buffer without its mutex
(`Watches`) does not overlap one that changes it, two calls do not use up the
same places or entries, and two threads do not move one iterator at a time
(`Rivals`). Under `Apart` two threads may still join one
buffer to different ones at once, push and pop at once, and wait for each
other's mutexes; they never join two buffers in opposite directions, which with
`Care` FALSE TLC finds to deadlock (`IovsBothWays.cfg`).

Fairness (`Fairness`): every thread that can run does (weak fairness of
`Works`), and one that waits for a mutex that is free again and again gets it
(strong fairness of `Locks`, which pthread mutexes on Linux give in practice
and POSIX does not promise). `Returns` says that every call returns.

### Wire

State: the file (`size`, `name`), the one message under way as bytes (`wire`)
and what its maker was asked to say (`meant`), and at the receiver the blocks
announced and those it has. The `Make` actions are the cases of
`nftp_proto_maker`, `Body` and `Encode` are `nftp_encode_iovs` and
`nftp_iovs2stream`, `Decode` is `nftp_decode`; every field has the width it has
there, in bytes of `Byte` values. With 3 in place of 256, 16 bits become 9 and
32 bits become 81, so that files, names and messages reach the limits. The
application sets the block size (`SetBlocksz`) to any of `Blocksizes`, between
transfers; with `MidTransfer` at any time, and then HELLO announces blocks of
one size and the maker cuts blocks of another. A HELLO over an open transfer
starts it again and gets no ACK, as in `proto.c:473`. Order, loss, failures and names
are the matter of the other modules: this one shows that their messages may be
records, and that a version has the blocks `NftpTransfer` says it has.

### Checksum

The tables of `crc32c_init_sw`, entry by entry, in any order of the entries
within a loop (they are independent of each other), and `crc32c_sw` byte by
byte and chunk by chunk, by any number of threads. The flag `crc32c_init` is
read once and set once by each thread that found it unset. A word is the set of
its bits that are 1, so that XOR is symmetric difference, and shifts move
elements. `CRC` is the definition by long division, bit by bit; nothing else
refers to it than the property. `W`, `L` and `N` are 8, 4 and 8 in the code.

One abstraction is stronger than C: stores of one thread are seen by others in
the order they were made. The code has no barrier between the tables and the
flag, which C leaves undefined.

### HashTable

Every operation of `hashtable.c`, with a failure of each allocation. A chain is
a set of nodes; keys and values are model values, and `Hash` is any function.
Several tables are there at once for copy, move and swap. `FiniteMap` is what
callers rely on: bindings are lost only when an allocation fails, only in the
table of that call, and never made up. The answers of calls are the numbers of
`hashtable.h`, so that `ht_erase` says the same, 0, of a key it erased and of one
that was not there. Met on the way:

* `ht_swap` forgets capacity and threshold (`hashtable.c:89`): two tables of
  different capacity cannot be used after it. `AnySwap` is FALSE in the run, and
  a hypothesis of the theorems;
* a node that cannot be allocated still becomes the head of its chain, as NULL:
  the rest of the chain is lost, and the count too high (`hashtable.c:368`);
* `ht_insert` ignores that growing failed and uses the array that is not there
  (`hashtable.c:129`); `ht_clear` reports success (`hashtable.c:256`);
* the shrink threshold is the integer 1/4: only an empty table shrinks.

## Runs

Bounds: three blocks are the least for which a run of cached blocks can be
longer than one and still leave a gap; two names and two versions are the
least for which transfers meet; two suffixes let a name be taken, freed by no
one, and run out. `MaxHello` is 2, so that a retried HELLO is there, `MaxEdits`
1. The capacity of the vector and of the iovs is 3, the least with which moving
entries (across the wrap) differs from moving one; with it an iov has one place
in front. `MaxPart` bounds how long a part file may get by short writes. The
hash table starts at one slot and grows to four, so that the two keys collide
before the table grows and not after; `Reserves` asks for more than the
threshold of the smallest. Bytes of the checksum have two bits, words two bytes
and chunks three, more than a word, so that a chunk shifts out all of the
checksum as eight bytes do; data of up to four bytes, at every alignment, take
each loop alone and after another.

Deadlock is not checked for the protocol: when calls and HELLOs are used up,
nothing has to happen. Nor for `Wire`, which ends when the file is there, and
the hash table, which ends when the process does. It is checked for the vector,
the iovs and the checksum.

Passing:

| Run | States | Shows |
| --- | --- | --- |
| `ReceiverCore` | 154 438 | all calls, kills, every order of the blocks of one file: type, order of the part file, target free, no cached block asked for again, entries live as long as contexts, checksum, saved files untouched, refinement of `Delivery` |
| `ReceiverFaults` | 239 699 | two files at once, one of them with id 0, the id a HELLO is looked up by; every file operation may fail, the process may be killed, and callbacks call the library: a retry continues without loss, transfers do not disturb each other, and the handler may be taken for one step |
| `ReceiverVersions` | 468 156 | two contents of one name mixed, short writes, `unregister` at any time: saved files are still safe |
| `TransferLive` | 13 154 | an opened transfer is saved in the end |
| `TransferTwoFiles` | 526 742 | two files, one edited (and shortened) while it is sent: no more copies than HELLOs, part files in order; the sender knows every open file; until a file is edited, no block of another content is in its transfer or can still reach it, nor one past its `entries` |
| `VectorOnePopper` | 2 346 123 | the vector is a double-ended queue for two threads that push and one that takes out, and that inserts and looks up while nobody else is calling |
| `IovsCareful` | 360 527 | one thread makes messages of three buffers, another flattens, walks over, empties and copies them: the buffers are sequences, the length of a stream is that of its entries, and every call returns |
| `WireEdges` | 34 904 | every message is decoded to what it was made to say; the blocks of a file, in any order, are the file, for sizes around every multiple of the block size and up to the limit of the count, with a block size that changes between transfers |
| `HashTableMap` | 67 243 | two tables and any failing allocation: a finite map, with its nodes filed where they are looked for and a count that is right |
| `ChecksumThreads` | 164 082 | two threads whose first checksum is computed at once: both are right, and tables never change once they are in use |

Each of these properties is also checked to fail under a mutant of the code.

Disagreements with what the repository says of itself (runs that end in a
counterexample; quotes are in `PROJECT.json` under `findings`):

| Run | What happens |
| --- | --- |
| `HelloAgain` | a second HELLO for an open transfer restarts it and gets no ACK: the duplicate check looks up id 0 (`proto.c:429`) |
| `RegistryLeak` | names nobody registered fill the registry for good |

Ten more configurations are kept for inspection and end in a counterexample
too; each lifts a restriction under which the passing runs hold:

| Configuration, module | What happens |
| --- | --- |
| `SameBaseName.cfg`, `MCTransfer` | `x/a` and `y/a` at once: GIVEME for one is answered from the other, and the part file has blocks of both |
| `ClashingNames.cfg`, `MCReceiver` | `a` is saved as `a_01` while a file called `a_01` is received: both write one part file, and a checksum fails though nobody edited anything |
| `RecvdirMidway.cfg`, `MCReceiver` | `set_recvdir` during a transfer: its last blocks go to an old part file in the new directory, which is renamed over a file saved there (`proto.c:453`, `proto.c:546`) |
| `LargeFile.cfg`, `MCWire` | with a block size and a count whose product passes 32 bits, a late block is read from the beginning of the file (`file.c:192`) |
| `BlocksizeMidway.cfg`, `MCWire` | the block size is set during a transfer: the file is complete and not the one that was sent |
| `IovsCareless.cfg`, `MCIovs` | calls `Careful` forbids: the shortest is an insertion at the wrong place |
| `IovsBothWays.cfg`, `MCIovs` | two threads join two buffers in opposite directions and wait for each other |
| `IovsPushMeanwhile.cfg`, `MCIovs` | the source of `nftp_iovs_cat` gets an entry between the copy and the count: the target counts an entry it was not given |
| `VectorTwoPoppers.cfg`, `MCVector` | two threads pop the last entry; one gets NULL as an entry, `len` is -1 |
| `OwnFileCallback.cfg`, `MCCallback` | a callback calls the library about the file it is called for: the handler is then not one step any more |

More of what the code does that its users may not expect, met while modelling
and left out of the properties by a bound or a hypothesis that says so (those
of the iovs and of the hash table are in their sections above):

* names that clash: a file saved as `a_01` and a file called `a_01` share a
  part file, and receiving `a` uses up a saved file called `a.part`
  (`proto.c:454-465`; excluded by `CleanNames`, shown by `ClashingNames.cfg`);
* `set_recvdir` during a transfer: the part file and the target are looked for
  in the new directory (excluded by `MidTransfer`, shown by `RecvdirMidway.cfg`);
* a bad access, which ends the behaviours of the model, is reached in three ways.
  No property says that it is not, because each is what the code does:
  when no suffixed name is left, HELLO goes on with a null name (`HelloNoName`,
  `proto.c:455`, reached in `ReceiverCore`); a block of a longer, earlier version
  of a file is stored past `entries`, as no sequence number is compared with the
  count (`BlockPastEnd`, `proto.c:525`, reached in `ReceiverVersions`; for a file
  nobody edits `NothingMixed` says that no such block is under way); and after
  `unregister` during a transfer the end of it uses a freed entry
  (`FinishAborts`, `proto.c:576` and `proto.c:590`, reached there too; without
  `unregister` `NoneFreed` is an invariant);
* a file that is edited while it is sent, or any other mismatch of the checksum,
  ends under its final name, its name is handed out, and the transfer stays in
  `files` (`proto.c:562`; `HashRejects`);
* the entry HELLO registers for a name is a copy of the default callback and
  is kept: later transfers of the name run that one (`proto.c:450`).

## Proofs

The theorems hold for any names, versions, block counts, directories, callbacks,
threads, keys, capacities, sizes, widths, faults and calls, under the
assumptions stated with the constants and the hypotheses named here. In each case an invariant that is
inductive is proved first; the property follows from it.

### The receiver (`NftpReceiverProofs`)

* `TypeCorrect`: `Spec => []TypeOK`. `TypeOK` is inductive.
* `ContextsWellFormed`: `Spec => []CtxsOk`: every context is filed under the id
  of its name, has the cap of its version, saves under a name of its file and
  caches block k, of its file, in place k.
* `PartStaysInOrder`, `TargetStaysFree`: `Spec => []PartInOrder` and
  `Spec => []TargetFree`.
* `SavedNeverOverwritten`: `Spec => SavedIsKept`, an action property.
* `HashAlwaysPasses`: `Spec => []HashCheckPasses`.

The inductive invariant is `TypeOK /\ CtxsOk /\ PartInOrder`, and
`TypeOK /\ CtxsOk /\ TargetFree` for the disk. `CtxsOk` is needed because the
two properties are about what a context refers to: that two contexts write
different files follows from their names (`FilesApart`), and that a run of
cached blocks continues the part file from where block k sits (`RunInOrder`).
Every step of a block has one shape, `TransferStep`: the context and its part
file change, and perhaps the part file becomes the target. `PartsAfter` and
`TargetsAfter` are about that shape alone; `BlockShape` shows that all ways a
block is handled have it. `SavedNeverOverwritten` needs that the target is
free when the rename happens, `HashAlwaysPasses` that a part file in order
with `cap` blocks is the content that was announced (`OrderedIsContent`).

What any step makes of one context is said once, by `EachFollows`: it is closed,
opened by a HELLO, left alone, or goes on by one block (`CtxStep`).

* `CollectedIsKept`: `Spec => KeepsCollected`, with no hypothesis at all: it is
  what `CtxStep` does to the collected blocks.
* `AwaitedStaysMissing`: `Spec => []AwaitedIsMissing`, if no append fails.
* `FcbStaysRegistered`: `Spec => []FcbRegistered`, with no hypothesis either: a
  context whose registration the application removes knows that its pointer is
  dangling, and no longer counts. The invariant is `FcbsOk`, which adds that no
  context holds a freed pointer if `unregister` waits for transfers: the
  registration that is freed at the end of a transfer is its own, and no other
  context has it.

### Delivery (`RefinementProofs`)

`ReceiverDelivers`: `Spec => DeliversOnce`, that the receiver implements
`Delivery`, if it is `Undisturbed`: no file operation but opening the part file
fails, calls wait for transfers, names are clean and have one version. The
invariant is `Safe`, the invariants above with `AllWithin` (contexts collect
blocks they announced) and `AllAwaiting` (a context that has all its blocks is
gone). One lemma per action shows which action of `Delivery` it is: a block
is `Collect` or `Deliver` because a run of cached blocks ends at `cap` exactly
when nothing is missing (`AllCollected`), and it makes one copy because the
target was free and part files are no copies (`PartIsNoCopy`,
`RenamedIsCopy`); counting copies needs that directories are finitely many.

### Transfers (`RefinementProofs`)

* `TransferImplementsReceiver`: `TSpec => Spec`: the sender and the network hand
  the receiver nothing it does not handle in `NftpReceiver`, so every theorem
  above holds of `NftpTransfer`.
* `SenderStaysInformed`: `TSpec => []SenderKnowsOpenFiles`. The invariant adds
  `HellosKnown`: the sender also knows the files of HELLOs still under way.
* `OneCopyAtMost`: `TSpec => []OneCopyPerHello`, if `Undisturbed` and HELLOs are
  not duplicated. The invariant `WithinHellos` counts, for each version, copies,
  the open transfer and the HELLO under way together: a step turns one into the
  next, and a new one needs a HELLO to be sent. The run also has edits of the
  file, which `OneVersion` excludes from the theorem.
* `UneditedNeverMixes`: `TSpec => []NothingMixed`, if no two paths have one base
  name (`OnePath`), names are clean, the directory stays during transfers and
  appends write all or nothing. Names may have any number of versions. The
  invariant `OnlySent` says where the contents are: until the first edit, the
  disk, the contexts and the messages under way hold only versions the sender
  has now, and blocks within their count. That a part file and its context are
  of the same *name* is `PartInOrder` and `CtxsOk`; with `OnePath` the sender has
  one version of it, so they are of the same version.

### Callbacks (`RefinementProofs`)

* `CallbackIsOneStep`: `CbSpec => AsOneStep`, that the receiver with callbacks
  implements the receiver whose handlers are one step. Hypotheses: a callback
  makes calls about other files only (`OwnFile = FALSE`), and the registry has a
  place for every name (`RoomForAll`), as it does in the run.
* `EntryOutlivesCallback`: `CbSpec => []FcbRegistered`, if `OwnFile = FALSE`.

* `PartOutlivesCallback`, `SavedOutlivesCallback`, `CollectedOutlivesCallback`:
  `CbSpec => []PartInOrder`, `SavedIsKept` and `KeepsCollected`, in the states in
  which a callback runs too, and also for callbacks about their own file
  (`OwnFile` TRUE), with the hypotheses the receiver alone needs. Every step is
  one of `NftpReceiver` (`OrdinaryStep`), except the two halves of the handler:
  the first renames a complete part, which is then awaited no more
  (`EntersLeaves`), the second takes contexts away (`ReturnLeaves`).

The invariant of the first two is `CbInv`, which is `TypeOK`, `CtxsOk` and `FcbsOk` with
`InsideOk`: while a callback runs its transfer is in process, with the
registration the handler is about to free. It keeps the second half of the
handler on its normal path: `FreesTwice` is never reached. `HF` and `HR` are the
table and the registry without what the handler still has to remove.
`Sees` says of a step about another file that it does to them what it
does to `files` and `reg` (`NestedSees`), and one lemma per action that such a
step is the same action of `NftpReceiver`; the step that starts the callback is
`Completes`, the one that ends it changes nothing (`ReturnUnseen`).

### Messages (`WireProofs`)

* `EveryMessageIsUnderstood`: `WSpec => []Understood`. The invariant `SaysInv`:
  what is under way is the encoding of what its maker was asked to say, and that
  is `Sayable`: each value fits into its field. The lemmas follow `Encode` and
  `Decode` field by field, down to the four bytes of a number, for any `Byte`.
* `FilesArrive`: `WSpec => []FileArrives`, if `MidTransfer = FALSE`. The invariant
  `CutInv` adds that the count announced is that of the file, that a block under
  way is cut from it with the block size the HELLO was made with, and that so is
  every block received. `CutsInARow` puts the blocks together: the first j of
  them are the first j blocks' worth of bytes of the file, by induction over j.

Both need `FilesFit`: a message with a whole block has a length that fits 32
bits, and no file that can be announced (its count fits 16 bits) has a block
that starts at 4 GB or later. `LargeFile.cfg` shows what happens otherwise.

### Containers and checksum

* `RingIsDeque` (`VectorProofs`): `VSpec => IsDeque`: the vector implements
  `Deque`, all calls included, if `OneTaker` (below) and `OneAtATime`: `insert`,
  `get` and `getidx` are called while no other call is under way. The invariant
  `DInv` is `VInv` (below) with: such a call is alone, and what a thread is about
  to do is what it was asked to do, at a position that is in range. The sequence
  is what the ring holds from `low` on (`Window`); the lemmas `PushHeadAt` to
  `DeleteAt` say what each shift of entries across the wrap makes of it, for
  every position.
* `BuffersAreSegments` (`IovsProofs`): `ISpec => IsSegments`: the buffers implement
  `Segments`, all calls included, for any buffers, threads, entries and calls,
  if `Care`; and `BuffersStaySound`: `ISpec => []IInv`. The sequence of a buffer
  is what stands between `low` and its end (`Shows`); a push, insertion or
  removal makes of it what `AddedTo` and `DroppedFrom` say, and of `iolen` the sum
  that `Bytes` is (`BytesWith`, `BytesWithout`, `BytesJoined`, by induction). What
  is hard is that calls check first and lock later. `IInv` says of each thread
  what it has found out and relies on (`StillFits`, `Unlocked`, `CopiedBehind`, in
  `ThreadOk`), that there is a place for every push at a tail under way
  (`RoomKept`: they are counted, so two at once cannot take the last one), and
  that calls under way are `Apart` (`AllApart`). `Effect` bounds what a step of one
  thread does to the buffers, and `EffectKeeps` shows from it and `Apart` that what
  any other thread relies on stays: so each call is proved on its own.
  `Rivals` names two threads that move one iterator because without it `IInv` is
  not inductive: each has seen an entry the other has moved past.
* `RingStaysInRange` (`VectorProofs`): `VSpec => []VTypeOK`: `low` and `len`
  never leave the ring, for any capacity and number of threads, if one of them
  at most takes entries out (`OneTaker`, which the two poppers above violate).
  The invariant adds what each thread has seen before it locked (`ChecksHold`)
  and that who has the mutex is in a call that locks (`CallsKnown`).
* `TableIsMap`, `NodesStayFiled`, `CountStaysRight`, `TableTypesHold`
  (`HashTableProofs`):
  `HSpec => IsMap`, `[]Filed`, `[]SizeCounts` and `[]HTypeOK`, if `~AnySwap`.
  The invariant `HInv` is all of these for each table. `OneTableChanges` and
  `TwoTablesChange` reduce each call to what it does to one table.
* `TablesNeverChange`, `TablesComplete` (`ChecksumProofs`): `CSpec => TablesStay`,
  and that every thread past the check finds complete tables. The invariant
  `CInv` says which entries are right already: those in a loop that a thread has
  passed. It is what makes building them twice harmless: a late thread stores
  the same values.
* `ChecksumsAreRight` (`ChecksumProofs`): `CSpec => []CrcIsRight`: every call
  returns the remainder of the division, bit by bit, of its data. The invariant
  `SInv` adds that the value a thread has so far is the remainder of the data it
  has done (`After`). That eight table lookups are eight bytes of division rests
  on the division being linear in its operand, by induction over its steps.

`Lemmas` makes this possible: the induction theorems of the library are about
every operator `P(_)`, which no prover instantiates; here induction is a
statement about every *set* of numbers (`SetInduction`, from the theorem that `<`
is well-founded), and a recursive function is any function that satisfies its
equations (`Recursion`). A recursive definition of the model is expanded into
such a function once, and induction is then over the set of arguments for which
a fact holds.

The hypotheses, each needed:

* `CleanNames`: no name is a suffixed name or part file of another
  (or two transfers write one file, as in `ClashingNames.cfg`);
* `"set_recvdir" \notin MidTransfer`: the directory is not changed under a
  transfer (`RecvdirMidway.cfg`);
* `"unregister" \notin MidTransfer`, for `NoneFreed` and `ReceiverDelivers`:
  or the context is left with a freed pointer;
* `OnePath`, for `NothingMixed`: the sender's table has a place for one path of
  each name (`SameBaseName.cfg`);
* `"short" \notin IoFaults`, for the order of the part file: an append that
  fails has written nothing; `"append"` too for `AwaitedIsMissing`, as a block
  whose append failed is cached and awaited;
* `OneVersion`, for the checksum: nobody edits a file while it is sent
  (`Edit` in `NftpTransfer` does);
* `OneTaker`, `OneAtATime`, `~AnySwap`, `FilesFit`, `RoomForAll`, `OwnFile` and
  `Care`, as above. Of the constants of `Iovs` the proof needs that there are
  finitely many threads and that a buffer has no more places than the largest
  int (`IovsAssumption`), so that a key that counts never equals `TAIL`.

Only model-checked: `OpenedIsSaved` and `Returns`, liveness, which is out of
TLAPS's reach here. What the runs of `NftpTransfer` check of the receiver follows
from `TransferImplementsReceiver`.

## Not modelled

* The iterator over a vector (`vector.c:212-267`), used by tests only: a `get`
  at a position it counts itself.
* The hash functions of `hash.c` other than `nftp_crc32c`, used by tests only.
* What `nftp_decode` makes of bytes no encoder made.
* Failing allocations outside the hash table: the code returns before it
  changes anything, or leaks.
* `file_read`, `file_clear` and the directory functions of `file.c`, which the
  protocol does not call.
* Logging.

## What is left

* `OpenedIsSaved` without the restriction that HELLOs are not duplicated, for a
  receiver that answers a second HELLO with an ACK, once the code has one.
