------------------------ MODULE ReverseBufferReader ------------------------
(***************************************************************************)
(* The non-draining reader of src/buf.rs over a buffer that ReverseBuffer  *)
(* built, and the loop of copy_buf by which the bytes of one buffer are    *)
(* prepended to another or collected.  A reader borrows the buffer, so the *)
(* buffer rests while it lives.  The reader covers a shrinking prefix of   *)
(* the chunks; its advance drops a chunk per step of its loop, and copying *)
(* takes a slice per step of its own.                                      *)
(***************************************************************************)
EXTENDS ReverseBuffer, SequencesExt

VARIABLES
  reading,     (* a reader borrows the buffer                              *)
  covered,     (* the reader's chunks are the first that many              *)
  r_front,     (* its index of the first byte of the last of them          *)
  r_capacity,  (* the total size of its chunks                             *)
  r_popping,   (* its advance is running its loop                          *)
  wanted,      (* bytes of copy_buf's destination that are not filled yet  *)
  copied,      (* what the running or last copy_buf has filled in          *)
  passed       (* history: how many bytes the reader has advanced past     *)

reader == <<covered, r_front, r_capacity, r_popping>>
copy == <<wanted, copied>>
r_vars == <<reading, reader, copy, passed>>
all_vars == <<vars, r_vars>>

ReaderIdle ==
  /\ reading = FALSE
  /\ covered = 0 /\ r_front = 0 /\ r_capacity = 0 /\ r_popping = FALSE
  /\ wanted = 0 /\ copied = <<>> /\ passed = 0

ReaderInit == Init /\ ReaderIdle

-----------------------------------------------------------------------------
BufReader ==
  /\ ~reading /\ ~popping
  /\ reading' = TRUE
  /\ covered' = Count /\ r_front' = front /\ r_capacity' = capacity
  /\ UNCHANGED <<vars, r_popping, copy, passed>>

Remaining == r_capacity - r_front

(* The bytes of a chunk of that buffer from an index (from zero) on.       *)
From(chunk, at) == SubSeq(chunk, at + 1, Len(chunk))

(* Mutant of Chunk: the whole chunk, from its unwritten start.             *)
ChunkFromStart == IF covered = 0 THEN <<>> ELSE chunks[covered]

Chunk == IF covered = 0 THEN <<>> ELSE From(chunks[covered], r_front)

(* Mutant of Slices: the chunks behind the front one in stored order.      *)
SlicesStoredOrder ==
  IF covered = 0 THEN <<>> ELSE <<Chunk>> \o SubSeq(chunks, 1, covered - 1)

(* The slices of data, in the order of the content.                        *)
Slices ==
  IF covered = 0 THEN <<>>
  ELSE <<Chunk>> \o Reverse(SubSeq(chunks, 1, covered - 1))

Contiguous == covered <= 1

AdvanceBy(cnt) ==
  /\ r_front' = r_front + cnt
  /\ r_popping' = TRUE
  /\ passed' = passed + cnt
  /\ UNCHANGED <<covered, r_capacity>>

ReaderAdvance(cnt) ==
  /\ reading /\ ~r_popping /\ wanted = 0
  /\ cnt \in 1 .. Remaining
  /\ AdvanceBy(cnt)
  /\ copied' = <<>>
  /\ UNCHANGED <<vars, reading, wanted>>

(* Mutant of ReaderSpent: a chunk read to its very end is not yet dropped. *)
ReaderSpentLate == covered > 0 /\ r_front > Size(covered)

(* The last chunk covered lies wholly before r_front.                      *)
ReaderSpent == covered > 0 /\ r_front >= Size(covered)

SnipChunk ==
  /\ r_popping
  /\ ReaderSpent
  /\ covered' = covered - 1
  /\ r_front' = r_front - Size(covered)
  /\ r_capacity' = r_capacity - Size(covered)
  /\ UNCHANGED <<vars, reading, r_popping, copy, passed>>

ReaderAdvanceDone ==
  /\ r_popping
  /\ ~ReaderSpent
  /\ r_popping' = FALSE
  /\ UNCHANGED <<vars, reading, covered, r_front, r_capacity, copy, passed>>

(* A copy_buf to a destination of that many bytes begins.                  *)
CopyBuf(len) ==
  /\ reading /\ ~r_popping /\ wanted = 0
  /\ len \in 1 .. Remaining
  /\ wanted' = len
  /\ copied' = <<>>
  /\ UNCHANGED <<vars, reading, reader, passed>>

(* One turn of its loop.  An empty slice would have it turn for ever.      *)
CopySlice ==
  LET size == Min({Len(Chunk), wanted})
  IN /\ wanted > 0 /\ ~r_popping
     /\ size > 0
     /\ copied' = copied \o SubSeq(Chunk, 1, size)
     /\ wanted' = wanted - size
     /\ AdvanceBy(size)
     /\ UNCHANGED <<vars, reading>>

DropReader ==
  /\ reading /\ ~r_popping /\ wanted = 0
  /\ reading' = FALSE
  /\ covered' = 0 /\ r_front' = 0 /\ r_capacity' = 0
  /\ copied' = <<>> /\ passed' = 0
  /\ UNCHANGED <<vars, r_popping, wanted>>

ReaderNext ==
  \/ ~reading /\ Next /\ UNCHANGED r_vars
  \/ BufReader
  \/ \E cnt \in 1 .. Remaining : ReaderAdvance(cnt)
  \/ SnipChunk
  \/ ReaderAdvanceDone
  \/ \E len \in 1 .. Remaining : CopyBuf(len)
  \/ CopySlice
  \/ DropReader

ReaderSpec == ReaderInit /\ [][ReaderNext]_all_vars

(* A thread inside copy_buf or a reader's advance keeps running.           *)
FairReaderSpec ==
  ReaderSpec /\ WF_all_vars(CopySlice \/ SnipChunk \/ ReaderAdvanceDone)

-----------------------------------------------------------------------------
(* Properties.                                                             *)

Rest == SubSeq(Content, passed + 1, Length)

(* What copy_buf fills its destination with is, byte for byte, what the    *)
(* buffer holds where the reader stands, whichever chunks it lies in.      *)
CopiesContent ==
  copied # <<>> => copied = SubSeq(Content, passed - Len(copied) + 1, passed)

(* The slices for vectored writing spell what is left to read, as does the *)
(* single chunk that contiguous() returns.                                 *)
SlicesSpellContent ==
  reading /\ ~r_popping =>
    FlattenSeq(Slices) = Rest /\ (Contiguous => Chunk = Rest)

(* copy_buf fills its destination: its loop never meets an empty slice.    *)
CopyEnds == wanted > 0 ~> wanted = 0
=============================================================================
