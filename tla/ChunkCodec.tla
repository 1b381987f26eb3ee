----------------------------- MODULE ChunkCodec -----------------------------
(***************************************************************************)
(* What src/core does to the bytes of a file on their way: Chunker,        *)
(* smartCompressor, Crypto, Hasher, the manifest's bitfield and the        *)
(* progress of transferMetrics, as operators.                              *)
(*                                                                         *)
(* A byte of a file is a number.  What LZ4 and AES-GCM make of bytes is a  *)
(* record of what went in and of the size that comes out.                  *)
(***************************************************************************)
EXTENDS Integers, Sequences, FiniteSets, FiniteSetsExt

CONSTANTS
    ChunkSize,      \* kDefaultChunkSize
    LzSlack,        \* LZ4_compressBound(n) - n
    TagSize,        \* 16, the authentication tag
    BitsPerByte     \* 8

ASSUME CodecAssumption ==
    /\ {ChunkSize, BitsPerByte} \subseteq Nat \ {0}
    /\ {LzSlack, TagSize} \subseteq Nat

CeilDiv(n, k) == (n + k - 1) \div k

------------------------------------------------------------------------------
(* Chunker *)

\* MUTANT: a last chunk that is not full is forgotten.
TotalChunksFull(size) == size \div ChunkSize

\* Computed by slice, and by sendFile for the handshake.
TotalChunks(size) == CeilDiv(size, ChunkSize)

ChunkIds(size) == 0 .. TotalChunks(size) - 1

Checksum(data) == [crc32 |-> data]

\* Chunk id of slice(file_view).
Slice(file_view, id) ==
    LET offset == id * ChunkSize
        size   == Min({ChunkSize, Len(file_view) - offset})
        data   == SubSeq(file_view, offset + 1, offset + size)
    IN  [id |-> id, payloadSize |-> size, data |-> data, crc32 |-> Checksum(data)]

------------------------------------------------------------------------------
(* smartCompressor *)

\* What detect may answer, by the file's name and its first bytes.
Strategies == {"NONE", "LZ4"}

\* The sizes compress may return, into a buffer of get_compress_bound bytes.
CompressedSizes(n, strategy) ==
    IF strategy = "NONE" THEN {n} ELSE 1 .. n + LzSlack

Compress(data, strategy, size) ==
    [data |-> data, strategy |-> strategy, size |-> size]

\* A buffer that is too small, or data of another strategy, throws.
Decompresses(c, room, strategy) == c.strategy = strategy /\ Len(c.data) <= room

------------------------------------------------------------------------------
(* Crypto: the chunk's id is the IV. *)

Encrypt(plain, key, id) ==
    [plain |-> plain, key |-> key, iv |-> id, size |-> plain.size + TagSize]

\* The tag is found right, else decrypt throws.
Decrypts(c, key, id) == c.size >= TagSize /\ c.key = key /\ c.iv = id

------------------------------------------------------------------------------
(* What a task of sendFile makes of a chunk, and a task of the receiver of the *)
(* message: the header and the payload.                                       *)

ChunkMessage(chunk, strategy, size, key) ==
    LET payload == Encrypt(Compress(chunk.data, strategy, size), key, chunk.id)
    IN  [chunk_id |-> chunk.id, original_size |-> chunk.payloadSize,
         crc32 |-> chunk.crc32, compress_stra |-> strategy,
         compressed_size |-> payload.size, payload |-> payload]

\* MUTANT: the offset is computed from the size of this chunk.
OffsetOwnSize(m) == m.chunk_id * m.original_size

Offset(m) == m.chunk_id * ChunkSize

\* Does processChunk get as far as writing m's bytes?
Writes(m, viewSize, key) ==
    /\ Offset(m) + m.original_size <= viewSize
    /\ Decrypts(m.payload, key, m.chunk_id)
    /\ Decompresses(m.payload.plain, m.original_size, m.compress_stra)

Written(m, write_view) ==
    [i \in DOMAIN write_view |->
       IF i - Offset(m) \in 1 .. Len(m.payload.plain.data)
       THEN m.payload.plain.data[i - Offset(m)]
       ELSE write_view[i]]

\* The checksum is taken over the file's own bytes.
Verifies(m, write_view) ==
    Checksum(SubSeq(write_view, Offset(m) + 1, Offset(m) + m.original_size)) = m.crc32

------------------------------------------------------------------------------
(* The bitfield: completedChunks is a function on 0 .. n - 1. *)

\* MUTANT: the number of bytes is rounded down.
PackedBytesDown(n) == n \div BitsPerByte

PackedBytes(n) == CeilDiv(n, BitsPerByte)

\* Byte b is the set of its bits that are set.
pack_bitfield(completed) ==
    LET n == Cardinality(DOMAIN completed) IN
    [b \in 0 .. PackedBytes(n) - 1 |->
       {i % BitsPerByte : i \in {j \in DOMAIN completed :
                                   j \div BitsPerByte = b /\ completed[j]}}]

\* processHandshakeACk, and unpack_bitfield.  Neither looks at how many bytes
\* there are.
unpack_bitfield(packed, n) ==
    [i \in 0 .. n - 1 |-> i % BitsPerByte \in packed[i \div BitsPerByte]]

------------------------------------------------------------------------------
(* transferMetrics *)

get_progress_per(transferred, total) ==
    IF total = 0 THEN 100 ELSE (transferred * 100) \div total
=============================================================================
