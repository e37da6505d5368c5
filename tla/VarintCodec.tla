---------------------------- MODULE VarintCodec ----------------------------
(***************************************************************************)
(* The writers and readers of varints in src/encoding/mod.rs, as loops     *)
(* over bytes.  Wire says what they compute; here are the ways the code    *)
(* computes it: a looping and an unrolled writer, and a reader with a path *)
(* for one byte, one for a varint that lies in one chunk of the Buf, and   *)
(* one that takes byte after byte over the ends of chunks.                 *)
(***************************************************************************)
EXTENDS Wire, FiniteSets

CONSTANTS
  Values,      (* the values that are written and read back                *)
  RawBytes,    (* the byte strings that are read as they are               *)
  TrailingBytes (* what may follow a written varint in a buffer            *)

ASSUME VarintCodecAssumption ==
  /\ Values \subseteq 0 .. VarintRange - 1
  /\ RawBytes \subseteq Seq(Byte) /\ TrailingBytes \subseteq Seq(Byte)

NoValue == -1

VARIABLES
  stage,    (* "loop" or "unrolled" while writing, "read", "slow", "done"  *)
  given,    (* history: the value that is written, or NoValue              *)
  left,     (* value, shifted as it is written                             *)
  out,      (* the bytes written                                           *)
  bytes,    (* all the bytes of the Buf that is read                       *)
  cuts,     (* where its chunks end, before the last                       *)
  consumed, (* how far it has been consumed                                *)
  turns,    (* the turns the slow reader's loop makes at most              *)
  result    (* [error, value]                                              *)

codecVars == <<stage, given, left, out, bytes, cuts, consumed, turns, result>>

CodecInit ==
  /\ \/ stage \in {"loop", "unrolled"} /\ given \in Values /\ left = given
        /\ bytes = <<>> /\ cuts = {}
     \/ stage = "read" /\ given = NoValue /\ left = 0
        /\ bytes \in RawBytes /\ cuts \in SUBSET (1 .. Len(bytes) - 1)
  /\ out = <<>>
  /\ consumed = 0
  /\ turns = 0
  /\ result = [error |-> "none", value |-> 0]

-----------------------------------------------------------------------------
(* Writing.                                                                *)

Reading == <<bytes, cuts, consumed, turns, result>>

(* Mutant: plain LEB128, the rest as it is.                                *)
PutUnbijective ==
  /\ out' = Append(out, ContinueBit + (left % ContinueBit))
  /\ left' = left \div ContinueBit
  /\ UNCHANGED <<stage, given, Reading>>

(* A byte that another one follows takes the low bits; the next has one    *)
(* less than the rest.                                                     *)
PutContinued ==
  /\ out' = Append(out, ContinueBit + (left % ContinueBit))
  /\ left' = (left \div ContinueBit) - 1
  /\ UNCHANGED <<stage, given, Reading>>

(* The buffer that is read holds the varint and more, in any chunks.       *)
Written(varint) ==
  /\ stage' = "read"
  /\ out' = varint
  /\ \E suffix \in TrailingBytes :
       /\ bytes' = varint \o suffix
       /\ cuts' \in SUBSET (1 .. Len(bytes') - 1)
  /\ UNCHANGED <<given, left, consumed, turns, result>>

LoopTurn ==
  /\ stage = "loop" /\ Len(out) < MaxVarint
  /\ left >= ContinueBit
  /\ PutContinued

LoopBreak ==
  /\ stage = "loop" /\ Len(out) < MaxVarint
  /\ left < ContinueBit
  /\ Written(Append(out, left))

(* The longest varint ends because the turns are used up.                  *)
LoopExhausted ==
  /\ stage = "loop" /\ Len(out) = MaxVarint
  /\ Written(out)

(* The number of bytes is looked up first; the last holds all that is left.*)
UnrolledTurn ==
  /\ stage = "unrolled" /\ Len(out) < EncodedLenVarint(given) - 1
  /\ PutContinued

UnrolledLast ==
  /\ stage = "unrolled" /\ Len(out) = EncodedLenVarint(given) - 1
  /\ Written(Append(out, left % (2 * ContinueBit)))

-----------------------------------------------------------------------------
(* Reading.                                                                *)

ChunkEnd ==
  CHOOSE e \in cuts \cup {Len(bytes)} :
    e > consumed /\ \A f \in cuts : f > consumed => e <= f
Chunk == SubSeq(bytes, consumed + 1, ChunkEnd)
Remaining == Len(bytes) - consumed

Return(error, value, advance) ==
  /\ stage' = "done"
  /\ result' = [error |-> error, value |-> value]
  /\ consumed' = consumed + advance
  /\ UNCHANGED <<given, left, out, bytes, cuts, turns>>

ReadNothing ==
  /\ stage = "read" /\ Remaining = 0
  /\ Return("Truncated", 0, 0)

ReadOneByte ==
  /\ stage = "read" /\ Remaining > 0
  /\ Chunk[1] < ContinueBit
  /\ Return("none", Chunk[1], 1)

(* A varint that begins with this chunk ends in it.                        *)
EndsInChunk ==
  \/ Len(Chunk) >= MaxVarint
  \/ Chunk[Len(Chunk)] < ContinueBit

ValueOf(slice) == Sums(slice)[Len(slice)]

(* The unrolled reader stops at the first byte without the bit; before it  *)
(* adds the last of the longest it compares that byte's place with what    *)
(* the sum of the others has there already.                                *)
ReadSlice ==
  /\ stage = "read" /\ Remaining > 0
  /\ Chunk[1] >= ContinueBit /\ EndsInChunk
  /\ LET ends == {i \in 1 .. Len(Chunk) : i < MaxVarint /\ Chunk[i] < ContinueBit}
         end == CHOOSE i \in ends : \A j \in ends : i <= j
         high == MaxVarint - 1
         low == ValueOf(SubSeq(Chunk, 1, high))
     IN IF ends # {} THEN Return("none", ValueOf(SubSeq(Chunk, 1, end)), end)
        ELSE IF Chunk[MaxVarint] + (low \div Weight[high])
                  > 2 * ContinueBit - 1
        THEN Return("InvalidVarint", 0, MaxVarint)
        ELSE Return("none", low + Chunk[MaxVarint] * Weight[high], MaxVarint)

(* Mutant: the last byte of the longest varint is a turn like any other.   *)
ReadSlowToEnd ==
  /\ stage = "read" /\ Remaining > 0
  /\ Chunk[1] >= ContinueBit /\ ~ EndsInChunk
  /\ stage' = "slow"
  /\ turns' = IF Remaining < MaxVarint THEN Remaining ELSE MaxVarint
  /\ UNCHANGED <<given, left, out, bytes, cuts, consumed, result>>

ReadSlow ==
  /\ stage = "read" /\ Remaining > 0
  /\ Chunk[1] >= ContinueBit /\ ~ EndsInChunk
  /\ stage' = "slow"
  /\ turns' = IF Remaining < MaxVarint - 1 THEN Remaining ELSE MaxVarint - 1
  /\ UNCHANGED <<given, left, out, bytes, cuts, consumed, result>>

(* value += byte << (count * 7); the count is how far the Buf has consumed.*)
SlowTurn ==
  /\ stage = "slow" /\ consumed < turns
  /\ LET byte == Chunk[1]
         value == result.value + byte * Weight[consumed]
     IN IF byte < ContinueBit THEN Return("none", value, 1)
        ELSE /\ result' = [result EXCEPT !.value = value]
             /\ consumed' = consumed + 1
             /\ UNCHANGED <<stage, given, left, out, bytes, cuts, turns>>

SlowTruncated ==
  /\ stage = "slow" /\ consumed = turns
  /\ Remaining = 0
  /\ Return("Truncated", 0, 0)

SlowLast ==
  /\ stage = "slow" /\ consumed = turns
  /\ Remaining > 0
  /\ LET value == result.value + Chunk[1] * Weight[MaxVarint - 1]
     IN IF value < VarintRange THEN Return("none", value, 1)
        ELSE Return("InvalidVarint", 0, 1)

CodecNext ==
  \/ LoopTurn \/ LoopBreak \/ LoopExhausted
  \/ UnrolledTurn \/ UnrolledLast
  \/ ReadNothing \/ ReadOneByte \/ ReadSlice
  \/ ReadSlow \/ SlowTurn \/ SlowTruncated \/ SlowLast

CodecSpec == CodecInit /\ [][CodecNext]_codecVars

-----------------------------------------------------------------------------
(* Properties.                                                             *)

(* However the bytes are cut into chunks, decode_varint gives the value or *)
(* the error of the whole string, and advances as far: to the end of the   *)
(* varint, valid or not, or of the Buf.                                    *)
ReadsAsWhole ==
  stage = "done" =>
    LET whole == DecodeVarint(bytes)
    IN /\ result.error = whole.error
       /\ whole.error = "none" => result.value = whole.value
       /\ consumed = whole.used

(* Bijective: both writers write the same bytes, as many as are measured, *)
(* so that they may be mixed in one program; what was written is read back *)
(* and nothing after it is touched, and no other bytes are read as it.     *)
Bijective ==
  /\ given # NoValue /\ stage \in {"read", "slow", "done"} =>
       /\ out = EncodeVarint(given)
       /\ Len(out) = EncodedLenVarint(given)
  /\ stage = "done" =>
       /\ given # NoValue => /\ result = [error |-> "none", value |-> given]
                             /\ consumed = Len(out)
       /\ result.error = "none" => SubSeq(bytes, 1, consumed) = EncodeVarint(result.value)
=============================================================================
