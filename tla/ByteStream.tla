----------------------------- MODULE ByteStream -----------------------------
(***************************************************************************)
(* Byte streams over immutable blobs (byte_stream.rs): the writer that     *)
(* cuts its input into chunks and finishes with one root, and the reader   *)
(* with its two cached chunks.  Writes and reads await storage requests,   *)
(* which may fail, and may be dropped while they wait.  The bytes of a     *)
(* stream are numbered in the order they are written.                      *)
(***************************************************************************)
EXTENDS Integers, Sequences, FiniteSets, SequencesExt

CONSTANTS
  None,        \* the absent Option
  ChunkBytes,  \* chunk_bytes
  MaxRefs,     \* references that fit one node
  MaxWrite,    \* bound: bytes given to one write
  MaxRead,     \* bound: max_len of one read
  MaxFaults    \* bound: failed requests and dropped calls

VARIABLES
  writer,    \* the ByteWriter
  accepted,  \* number of bytes that successful writes have taken (observer)
  root,      \* None, or what finish returned
  reader,    \* the ByteReader, or None
  answers,   \* None, or the last answer of read_at: [offset, max, bytes]
             \* (observer)
  faults     \* faults so far

vars == <<writer, accepted, root, reader, answers, faults>>

Capacity == MaxRefs * ChunkBytes

(* data: what a write that is under way has still to take; total: the      *)
(* length of the stream after it.                                          *)
Init ==
  /\ writer = [pc |-> "idle", len |-> 0, buffer |-> <<>>, children |-> <<>>,
               failed |-> FALSE, data |-> <<>>, total |-> 0]
  /\ accepted = 0
  /\ root = None
  /\ reader = None
  /\ answers = None
  /\ faults = 0

-----------------------------------------------------------------------------
Fault == faults < MaxFaults /\ faults' = faults + 1

KeepReader == UNCHANGED <<reader, answers>>

(* Bytes are numbered in the order in which successful writes take them.   *)
Numbered(a, b) == [i \in 1 .. b - a |-> a + i]

(* Mutation: `failed` is set by an error only.                             *)
BeginWriteTrusting(n) ==
  /\ writer.pc = "idle" /\ ~writer.failed
  /\ writer' = IF writer.len + n <= Capacity
               THEN [writer EXCEPT !.pc = "write", !.total = writer.len + n,
                                   !.data = Numbered(accepted, accepted + n)]
               ELSE [writer EXCEPT !.failed = TRUE]
  /\ KeepReader
  /\ UNCHANGED <<accepted, root, faults>>

(* ByteWriter::write: `failed` is set before the first await.              *)
BeginWrite(n) ==
  /\ writer.pc = "idle" /\ ~writer.failed
  /\ writer' = IF writer.len + n <= Capacity
               THEN [writer EXCEPT !.pc = "write", !.failed = TRUE, !.total = writer.len + n,
                                   !.data = Numbered(accepted, accepted + n)]
               ELSE [writer EXCEPT !.failed = TRUE]
  /\ KeepReader
  /\ UNCHANGED <<accepted, root, faults>>

(* The buffer takes what fits; a full one is stored as a blob.             *)
FillBuffer ==
  LET room == ChunkBytes - Len(writer.buffer)
      n == IF Len(writer.data) < room THEN Len(writer.data) ELSE room
      filled == [writer EXCEPT !.buffer = @ \o SubSeq(writer.data, 1, n),
                               !.data = SubSeq(@, n + 1, Len(@))]
  IN
  /\ writer.pc = "write" /\ writer.data # <<>>
  /\ writer' = IF Len(filled.buffer) = ChunkBytes THEN [filled EXCEPT !.pc = "put"] ELSE filled
  /\ KeepReader
  /\ UNCHANGED <<accepted, root, faults>>

PutChunk ==
  /\ writer.pc = "put"
  /\ writer' = [writer EXCEPT !.pc = "write", !.children = Append(@, writer.buffer),
                              !.buffer = <<>>]
  /\ KeepReader
  /\ UNCHANGED <<accepted, root, faults>>

EndWrite ==
  /\ writer.pc = "write" /\ writer.data = <<>>
  /\ writer' = [writer EXCEPT !.pc = "idle", !.failed = FALSE, !.len = writer.total]
  /\ accepted' = writer.total
  /\ KeepReader
  /\ UNCHANGED <<root, faults>>

(* put_object fails, or the write is dropped while it waits for it; the    *)
(* chunk had left the buffer (mem::take).                                  *)
WriteFails ==
  /\ writer.pc = "put"
  /\ Fault
  /\ writer' = [writer EXCEPT !.pc = "idle", !.buffer = <<>>, !.data = <<>>]
  /\ KeepReader
  /\ UNCHANGED <<accepted, root>>

(* ByteWriter::finish: the rest becomes a last, shorter chunk; one chunk   *)
(* is the root itself, otherwise a node describes the geometry.  A failed  *)
(* finish consumes the writer.                                             *)
Finish ==
  LET children == IF writer.buffer = <<>> THEN writer.children
                  ELSE Append(writer.children, writer.buffer)
  IN
  /\ writer.pc = "idle" /\ ~writer.failed
  /\ \/ /\ root' = IF Len(children) = 1
                   THEN [kind |-> "blob", len |-> Len(children[1]), chunks |-> children]
                   ELSE [kind |-> "node", len |-> writer.len, chunks |-> children]
        /\ UNCHANGED faults
     \/ Fault /\ UNCHANGED root
  /\ writer' = [writer EXCEPT !.pc = "finished"]
  /\ KeepReader
  /\ UNCHANGED accepted

-----------------------------------------------------------------------------
DivCeil(a, b) == (a + b - 1) \div b

(* What open_bytes demands of a descriptor and its children.               *)
Geometry(r) ==
  IF r.kind = "blob" THEN r.len <= ChunkBytes ELSE
    /\ DivCeil(r.len, ChunkBytes) = Len(r.chunks)
    /\ \A i \in 1 .. Len(r.chunks) :
         LET left == r.len - (i - 1) * ChunkBytes
         IN Len(r.chunks[i]) = IF left < ChunkBytes THEN left ELSE ChunkBytes

(* Log::open_bytes: a blob is read at once, a node leaves its chunks lazy. *)
(* cached: the two most recent chunks, [index, bytes] or None.             *)
OpenBytes ==
  /\ root # None
  /\ reader = None
  /\ Geometry(root)
  /\ reader' = [pc |-> "idle", len |-> root.len, offset |-> 0, max |-> 0,
                cached |-> IF root.kind = "blob"
                           THEN <<[index |-> 1, bytes |-> root.chunks[1]], None>>
                           ELSE <<None, None>>]
  /\ UNCHANGED <<writer, accepted, root, answers, faults>>

IndexOf(offset) == offset \div ChunkBytes + 1

Holds(slot, offset) ==
  reader.cached[slot] # None /\ reader.cached[slot].index = IndexOf(offset)

(* The slice of a chunk that read_at returns.                              *)
Slice(chunk, offset, max) ==
  LET start == offset % ChunkBytes
      n == IF max < Len(chunk) - start THEN max ELSE Len(chunk) - start
  IN SubSeq(chunk, start + 1, start + n)

Answer(offset, max, chunk) ==
  answers' = [offset |-> offset, max |-> max, bytes |-> Slice(chunk, offset, max)]

(* read_at from the cache; an older chunk moves to the front.              *)
ReadCached(offset, max) ==
  /\ reader # None /\ reader.pc = "idle"
  /\ max > 0 /\ offset < reader.len
  /\ Holds(1, offset) \/ Holds(2, offset)
  /\ LET slot == IF Holds(1, offset) THEN 1 ELSE 2 IN
     /\ Answer(offset, max, reader.cached[slot].bytes)
     /\ reader' = [reader EXCEPT !.cached = IF slot = 1 THEN @ ELSE <<@[2], @[1]>>]
  /\ UNCHANGED <<writer, accepted, root, faults>>

(* Past the end there is nothing to read.                                  *)
ReadPastEnd(offset, max) ==
  /\ reader # None /\ reader.pc = "idle"
  /\ max = 0 \/ offset >= reader.len
  /\ answers' = [offset |-> offset, max |-> max, bytes |-> <<>>]
  /\ UNCHANGED <<writer, accepted, root, reader, faults>>

(* A miss lets go of the older chunk before it reads.                      *)
BeginRead(offset, max) ==
  /\ reader # None /\ reader.pc = "idle"
  /\ max > 0 /\ offset < reader.len
  /\ ~Holds(1, offset) /\ ~Holds(2, offset)
  /\ reader' = [reader EXCEPT !.pc = "read", !.offset = offset, !.max = max,
                              !.cached[2] = None]
  /\ UNCHANGED <<writer, accepted, root, answers, faults>>

EndRead ==
  LET chunk == root.chunks[IndexOf(reader.offset)] IN
  /\ reader # None /\ reader.pc = "read"
  /\ Answer(reader.offset, reader.max, chunk)
  /\ reader' = [reader EXCEPT !.pc = "idle", !.offset = 0, !.max = 0,
       !.cached = <<[index |-> IndexOf(reader.offset), bytes |-> chunk], @[1]>>]
  /\ UNCHANGED <<writer, accepted, root, faults>>

ReadFails ==
  /\ reader # None /\ reader.pc = "read"
  /\ Fault
  /\ reader' = [reader EXCEPT !.pc = "idle", !.offset = 0, !.max = 0]
  /\ UNCHANGED <<writer, accepted, root, answers>>

Next ==
  \/ \E n \in 0 .. MaxWrite : BeginWrite(n)
  \/ FillBuffer
  \/ PutChunk
  \/ EndWrite
  \/ WriteFails
  \/ Finish
  \/ OpenBytes
  \/ \E offset \in 0 .. Capacity, max \in 0 .. MaxRead :
       \/ ReadCached(offset, max)
       \/ ReadPastEnd(offset, max)
       \/ BeginRead(offset, max)
  \/ EndRead
  \/ ReadFails

Spec == Init /\ [][Next]_vars

-----------------------------------------------------------------------------
(* A finished stream is all that its successful writes took, in order, in  *)
(* chunks that the reader's geometry check accepts; a write that failed or *)
(* was dropped half way can never become a truncated stream.               *)
FinishedIsComplete ==
  root # None => FlattenSeq(root.chunks) = Numbered(0, accepted) /\ root.len = accepted
                   /\ Geometry(root) /\ Len(root.chunks) <= MaxRefs

(* read_at answers with the bytes at its offset: at most max_len of them,  *)
(* some whenever there are any, whichever chunks are cached.               *)
ReadsAreExact ==
  answers # None =>
    LET n == Len(answers.bytes) IN
    /\ answers.bytes = Numbered(answers.offset, answers.offset + n)
    /\ n <= answers.max
    /\ answers.max > 0 /\ answers.offset < accepted => n > 0

(* The reader holds at most two chunks, the one it is waiting for          *)
(* included, and never the same one twice.                                 *)
TwoChunksAtMost ==
  reader # None =>
    LET held == {slot \in 1 .. 2 : reader.cached[slot] # None} IN
    /\ Cardinality(held) + (IF reader.pc = "read" THEN 1 ELSE 0) <= 2
    /\ Cardinality({reader.cached[slot].index : slot \in held}) = Cardinality(held)

=============================================================================
