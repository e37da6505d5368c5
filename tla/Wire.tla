-------------------------------- MODULE Wire --------------------------------
(***************************************************************************)
(* The wire format of src/encoding/mod.rs: bijective little-endian varints *)
(* and the wire types.  The widths are parameters, so that small bytes     *)
(* meet every boundary that bytes of eight bits do.                        *)
(***************************************************************************)
EXTENDS Integers, Sequences

CONSTANTS
  ContinueBit,   (* 0x80, the bit of a byte that says another one follows  *)
  MaxVarint,     (* 9, the bytes of the longest varint                     *)
  FixedWidth     (* [ThirtyTwoBit |-> 4, SixtyFourBit |-> 8]               *)

ASSUME WireAssumption ==
  /\ ContinueBit \in Nat /\ ContinueBit >= 8
  /\ MaxVarint \in Nat \ {0}
  /\ FixedWidth \in [{2, 3} -> Nat \ {0}]

Byte == 0 .. 2 * ContinueBit - 1

Varint == 0
LengthDelimited == 1
ThirtyTwoBit == 2
SixtyFourBit == 3
WireType == 0 .. 3

(* What a varint's byte counts for when n bytes come before it.            *)
Weight[n \in Nat] == IF n = 0 THEN 1 ELSE Weight[n - 1] * ContinueBit

(* The number of values of a varint, 2^64.                                 *)
VarintRange == Weight[MaxVarint - 1] * (2 * ContinueBit)

-----------------------------------------------------------------------------
(* The smallest value whose varint takes n + 1 bytes.                      *)
VarintLimit[n \in Nat] ==
  IF n = 0 THEN 0 ELSE (VarintLimit[n - 1] + 1) * ContinueBit

EncodedLenVarint(value) ==
  CHOOSE n \in 1 .. MaxVarint :
    /\ value >= VarintLimit[n - 1]
    /\ n = MaxVarint \/ value < VarintLimit[n]

(* What is left of a value before each byte of its varint.  After a byte   *)
(* that another one follows it is one less than in plain LEB128.           *)
Rests(value) ==
  LET left[i \in 1 .. EncodedLenVarint(value)] ==
        IF i = 1 THEN value ELSE (left[i - 1] \div ContinueBit) - 1
  IN left

(* Every byte but the last carries the continuation bit.                   *)
EncodeVarint(value) ==
  LET len == EncodedLenVarint(value)
      left == Rests(value)
  IN [i \in 1 .. len |->
        IF i = len THEN left[i] ELSE ContinueBit + (left[i] % ContinueBit)]

(* What the first bytes, so many of them, add up to.                       *)
Sums(bytes) ==
  LET partial[i \in 0 .. Len(bytes)] ==
        IF i = 0 THEN 0 ELSE partial[i - 1] + bytes[i] * Weight[i - 1]
  IN partial

(* Where a varint ends: at the first byte below the continuation bit, or   *)
(* as the longest.                                                         *)
VarintEnds(bytes) ==
  {i \in 1 .. Len(bytes) :
     /\ i <= MaxVarint
     /\ bytes[i] < ContinueBit \/ i = MaxVarint
     /\ \A j \in 1 .. i - 1 : bytes[j] >= ContinueBit}

(* The result of decoding has the value and the number of bytes read.      *)
DecodeVarint(bytes) ==
  LET Decoded(n, value) ==
        [error |-> IF value < VarintRange THEN "none" ELSE "InvalidVarint",
         value |-> value,
         used |-> n]
      At(n) == Decoded(n, Sums(bytes)[n])
      Read(ends) ==
        IF ends = {} THEN [error |-> "Truncated", value |-> 0, used |-> Len(bytes)]
        ELSE At(CHOOSE i \in ends : TRUE)
  IN Read(VarintEnds(bytes))
=============================================================================
