-------------------------------- MODULE Wire --------------------------------
(***************************************************************************)
(* A file cut into blocks, each message encoded and decoded again: the     *)
(* maker of src/src/proto.c, file_blocks and file_readblk of file.c, and   *)
(* codec.c with what it uses of iovs.c.  Order, loss and failures are in   *)
(* NftpTransfer; here it is the numbers that matter: widths of fields, the *)
(* length of a message, block counts and offsets at their limits.          *)
(*                                                                         *)
(* A byte takes Byte values, 256 in the code.  A byte of a file is its     *)
(* position there, so that no two look alike.                              *)
(***************************************************************************)
EXTENDS Integers, Sequences, SequencesExt

CONSTANTS Byte,        \* values of a byte
          Blocksizes,  \* what the application may set the block size to
          MidTransfer, \* whether it does so while a file is under way
          Cap,         \* NFTP_SIZE, entries of an iovs
          Sizes,       \* sizes a file may have
          Names,       \* base names, as sequences of bytes
          FileId,      \* [Names -> id], the checksum of the name
          HashOf,      \* [Sizes -> checksum of the file]
          Keys         \* packet ids the application passes

U16 == Byte * Byte
U32 == U16 * U16

ASSUME WireAssumption ==
  /\ Byte \in Nat \ {0, 1, 2} /\ Blocksizes \subseteq Nat \ {0} /\ Cap \in Nat
  /\ MidTransfer \in BOOLEAN
  /\ Sizes \subseteq Nat /\ Keys \subseteq Nat
  /\ Names \subseteq Seq(0..(Byte - 1))
  /\ \A n \in Names : Len(n) < U16 /\ FileId[n] \in 0..(U32 - 1)
  /\ \A s \in Sizes : HashOf[s] \in 0..(U32 - 1)

VARIABLES blocksz,     \* the block size of the sender
          size, name,  \* of the file being sent
          wire,        \* the message under way, as bytes, or <<>>
          meant,       \* what its maker was asked to say
          cap, parts   \* the receiver: blocks announced, blocks it has

wvars == <<blocksz, size, name, wire, meant, cap, parts>>

HELLO == 1
ACK == 2
FILE == 3
END == 4
GIVEME == 5

(* struct nftp as nftp_alloc leaves it.                                    *)
Blank == [type |-> 0, id |-> 0, blocks |-> 0, seq |-> 0, name |-> <<>>,
          fileid |-> 0, hash |-> 0, content |-> <<>>]

-----------------------------------------------------------------------------
(* Numbers in a stream, the highest byte first; what does not fit is lost. *)
PutU16(u) == <<(u \div Byte) % Byte, u % Byte>>
PutU32(u) == PutU16(u \div U16) \o PutU16(u)
GetU16(v, pos) == v[pos + 1] * Byte + v[pos + 2]
GetU32(v, pos) == GetU16(v, pos) * U16 + GetU16(v, pos + 2)

(* The length each message is given by nftp_proto_maker.                   *)
Length(m) ==
  CASE m.type = HELLO -> 14 + Len(m.name)
    [] m.type = ACK -> 10
    [] m.type \in {FILE, END} -> 15 + Len(m.content)
    [] m.type = GIVEME -> 11

(* Mutant: the number of a block is put into one byte, after its id.       *)
ShortSeq(m) ==
  CASE m.type = HELLO ->
         <<<<m.id>>, PutU16(m.blocks), PutU16(Len(m.name)), m.name, PutU32(m.hash)>>
    [] m.type = ACK -> <<<<m.id>>, PutU32(m.fileid)>>
    [] m.type \in {FILE, END} ->
         <<PutU32(m.fileid), <<0, m.seq % Byte>>, PutU32(Len(m.content)), m.content>>
    [] m.type = GIVEME -> <<PutU32(m.fileid), PutU16(m.seq)>>

(* The entries nftp_encode_iovs appends.                                   *)
Body(m) ==
  CASE m.type = HELLO ->
         <<<<m.id>>, PutU16(m.blocks), PutU16(Len(m.name)), m.name, PutU32(m.hash)>>
    [] m.type = ACK -> <<<<m.id>>, PutU32(m.fileid)>>
    [] m.type \in {FILE, END} ->
         <<PutU32(m.fileid), PutU16(m.seq), PutU32(Len(m.content)), m.content>>
    [] m.type = GIVEME -> <<PutU32(m.fileid), PutU16(m.seq)>>

(* An iovs starts at a third of its array; length and type go in front.    *)
HasRoom(body) == LET low == Cap \div 3 IN low >= 2 /\ low + Len(body) <= Cap + 1

Encode(m) == IF HasRoom(Body(m))
               THEN FlattenSeq(<<<<m.type>>, PutU32(Length(m))>> \o Body(m))
               ELSE <<>>

(* nftp_decode; the error of a length that does not match is a Blank.      *)
Decode(v) ==
  LET type == v[1]
      q == [Blank EXCEPT !.type = type] IN
  CASE Len(v) < 6 \/ GetU32(v, 1) # Len(v) -> Blank
    [] type = HELLO ->
         LET n == GetU16(v, 8) IN
         [q EXCEPT !.id = v[6], !.blocks = GetU16(v, 6),
                   !.name = SubSeq(v, 11, 10 + n), !.hash = GetU32(v, 10 + n)]
    [] type = ACK -> [q EXCEPT !.id = v[6], !.fileid = GetU32(v, 6)]
    [] type \in {FILE, END} ->
         LET n == GetU32(v, 11) IN
         [q EXCEPT !.fileid = GetU32(v, 5), !.seq = GetU16(v, 9),
                   !.content = SubSeq(v, 16, 15 + n)]
    [] type = GIVEME -> [q EXCEPT !.fileid = GetU32(v, 5), !.seq = GetU16(v, 9)]

-----------------------------------------------------------------------------
(* The file.                                                               *)

(* Mutant: what is left after the last whole block is no block.            *)
WholeBlocks(s) == IF s < blocksz THEN 1 ELSE s \div blocksz

Blocks(s) == s \div blocksz + 1

(* An int times a uint32_t.                                                *)
Offset(n) == (n * blocksz) % U32

ReadBlk(s, n) ==
  LET len == IF n = s \div blocksz THEN s - Offset(n) ELSE blocksz
  IN [i \in 1..len |-> Offset(n) + i]

-----------------------------------------------------------------------------
WInit == /\ blocksz \in Blocksizes /\ size \in Sizes /\ name \in Names
         /\ wire = <<>> /\ meant = Blank
         /\ cap = 0 /\ parts = <<>>

Say(m) == meant' = m /\ wire' = Encode(m)
Silence == meant' = Blank /\ wire' = <<>>

(* Too many blocks for the field: "File is too large".                     *)
MakeHello(key) ==
  /\ Blocks(size) <= U16 - 1
  /\ Say([Blank EXCEPT !.type = HELLO, !.id = key % Byte, !.blocks = Blocks(size),
                       !.name = name, !.hash = HashOf[size]])

MakeAck(n, key) ==
  Say([Blank EXCEPT !.type = ACK, !.id = key, !.fileid = FileId[n]])

(* Past the end of the file: NFTP_ERR_BLOCKS.                              *)
MakeBlock(type, n) ==
  /\ n <= size \div blocksz
  /\ Say([Blank EXCEPT !.type = type, !.fileid = FileId[name], !.seq = n,
                       !.content = ReadBlk(size, n)])

MakeGiveme(n) == Say([Blank EXCEPT !.type = GIVEME, !.fileid = FileId[name], !.seq = n])

(* Whether the receiver has the file, and has closed its context.          *)
Complete == cap > 0 /\ DOMAIN parts = 0..(cap - 1)

(* The applications; the sender makes an END of the last block.  HELLO     *)
(* counts blocks of the size there is then, and each block is cut with the *)
(* size there is when it is made.                                          *)
SetBlocksz(b) == /\ MidTransfer \/ (wire = <<>> /\ (cap = 0 \/ Complete))
                 /\ blocksz' = b
                 /\ UNCHANGED <<size, name, wire, meant, cap, parts>>

BlockType(n) == IF n = Blocks(size) - 1 THEN END ELSE FILE

SendHello(key) == wire = <<>> /\ MakeHello(key) /\ UNCHANGED <<blocksz, size, name, cap, parts>>
SendBlock(n) == /\ wire = <<>> /\ cap > 0
                /\ MakeBlock(BlockType(n), n)
                /\ UNCHANGED <<blocksz, size, name, cap, parts>>
Ask(n) == /\ wire = <<>> /\ n < cap /\ n \notin DOMAIN parts
          /\ MakeGiveme(n) /\ UNCHANGED <<blocksz, size, name, cap, parts>>

-----------------------------------------------------------------------------
(* nftp_proto_handler on either side.                                      *)
(* A HELLO starts a transfer over, and over an open one gets no answer.    *)
HandleHello(q) == /\ q.type = HELLO
                  /\ cap' = q.blocks /\ parts' = <<>>
                  /\ IF cap > 0 /\ ~Complete THEN Silence ELSE MakeAck(q.name, q.id)
HandleAck(q) == q.type = ACK /\ Silence /\ UNCHANGED <<cap, parts>>
HandleBlock(q) == /\ q.type \in {FILE, END} /\ ~Complete
                  /\ parts' = [n \in DOMAIN parts \cup {q.seq} |->
                                 IF n = q.seq THEN q.content ELSE parts[n]]
                  /\ Silence /\ UNCHANGED cap
RefuseBlock(q) == q.type \in {FILE, END} /\ Complete /\ Silence /\ UNCHANGED <<cap, parts>>
HandleGiveme(q) == /\ q.type = GIVEME
                   /\ MakeBlock(BlockType(q.seq), q.seq)
                   /\ UNCHANGED <<cap, parts>>

Handle ==
  LET q == Decode(wire) IN
  /\ wire # <<>>
  /\ HandleHello(q) \/ HandleAck(q)
     \/ HandleBlock(q) \/ RefuseBlock(q) \/ HandleGiveme(q)
  /\ UNCHANGED <<blocksz, size, name>>

WNext == \/ \E key \in Keys : SendHello(key)
         \/ \E b \in Blocksizes : SetBlocksz(b)
         \/ \E n \in 0..(U16 - 1) : SendBlock(n) \/ Ask(n)
         \/ Handle

WSpec == WInit /\ [][WNext]_wvars

-----------------------------------------------------------------------------
(* Every message says to the side that decodes it what its maker was asked *)
(* to say: no field is cut short by its width, and nftp_decode takes the   *)
(* length nftp_proto_maker gave for the one of the stream.                 *)
Understood == wire # <<>> => Decode(wire) = meant

(* A file for which a HELLO could be made arrives byte by byte: whatever   *)
(* the order of the blocks, those without a gap before them are the        *)
(* beginning of the file, and all of them the file, if the application     *)
(* sets the block size between transfers only.                             *)
FileArrives ==
  \A k \in 1..cap : 0..(k - 1) \subseteq DOMAIN parts =>
    LET bytes == FlattenSeq([i \in 1..k |-> parts[i - 1]]) IN
    /\ bytes = [i \in 1..Len(bytes) |-> i]
    /\ k = cap => Len(bytes) = size
=============================================================================
