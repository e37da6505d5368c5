---------------------------- MODULE ValuesProofs ----------------------------
(***************************************************************************)
(* The writers and readers of VarintCodec do what Wire says of varints,    *)
(* for bytes of every size, varints of every length, every value and every *)
(* way to cut a buffer into chunks.  Then, of Values, that no string ever  *)
(* holds bytes that are not text where the program can see it, for all     *)
(* types, samples and bytes, however a Buf cuts what it gives into chunks  *)
(* and wherever it panics, and that values are exact: what is encoded is   *)
(* what is decoded, and nothing else is called canonical.                  *)
(***************************************************************************)
EXTENDS Values, VarintCodec, WireProofs

-----------------------------------------------------------------------------
(* The inductive invariant.                                                *)

Results == [error : {"none", "Truncated", "InvalidVarint"}, value : Nat]

TypeOK ==
  /\ stage \in {"loop", "unrolled", "read", "slow", "done"}
  /\ given \in Values \cup {NoValue}
  /\ left \in Int
  /\ out \in Seq(Byte) /\ bytes \in Seq(Byte)
  /\ cuts \in SUBSET (1 .. Len(bytes) - 1)
  /\ consumed \in 0 .. Len(bytes)
  /\ turns \in Nat
  /\ result \in Results

(* As many bytes of the varint are there, and what is left is the rest of  *)
(* the value before the next.                                              *)
Halfway ==
  /\ Len(out) < EncodedLenVarint(given)
  /\ left = Rests(given)[Len(out) + 1]
  /\ \A i \in 1 .. Len(out) : out[i] = EncodeVarint(given)[i]

(* Until it is read a buffer has not been consumed; the loop may have      *)
(* written the longest varint without having stopped.                      *)
WritingInv ==
  /\ stage \in {"loop", "unrolled", "read"} =>
       consumed = 0 /\ result = [error |-> "none", value |-> 0]
  /\ stage \in {"loop", "unrolled"} =>
       /\ given \in Values
       /\ \/ Halfway
          \/ stage = "loop" /\ out = EncodeVarint(given) /\ Len(out) = MaxVarint

WrittenInv ==
  given # NoValue /\ stage \in {"read", "slow", "done"} =>
    /\ out = EncodeVarint(given)
    /\ Len(out) <= Len(bytes)
    /\ \A i \in 1 .. Len(out) : bytes[i] = out[i]

(* The slow reader has gone over bytes that promise another, and has their *)
(* sum.                                                                    *)
SlowInv ==
  stage = "slow" =>
    /\ turns = IF Len(bytes) < MaxVarint - 1 THEN Len(bytes) ELSE MaxVarint - 1
    /\ consumed <= turns
    /\ result = [error |-> "none", value |-> Sums(bytes)[consumed]]
    /\ \A i \in 1 .. consumed : bytes[i] >= ContinueBit

IInv == TypeOK /\ WritingInv /\ WrittenInv /\ SlowInv /\ ReadsAsWhole

-----------------------------------------------------------------------------
(* The chunk at the position is the part of the bytes up to the next cut.  *)
LEMMA ChunkProperties ==
  ASSUME TypeOK, consumed < Len(bytes)
  PROVE  /\ Chunk \in Seq(Byte)
         /\ Len(Chunk) \in 1 .. Len(bytes) - consumed
         /\ \A i \in 1 .. Len(Chunk) : Chunk[i] = bytes[consumed + i]
         /\ Chunk[1] = bytes[consumed + 1]
<1> DEFINE T == {e \in cuts \cup {Len(bytes)} : e > consumed}
           c == ChunkEnd
<1>1. /\ Len(bytes) \in Nat /\ consumed \in Nat
      /\ cuts \in SUBSET (1 .. Len(bytes) - 1)
      /\ bytes \in Seq(Byte)
  BY LenProperties DEF TypeOK
<1>2. T \in SUBSET Nat /\ T # {} /\ \A e \in T : e <= Len(bytes)
  <2>1. Len(bytes) \in T
    BY <1>1
  <2>2. \A e \in T : e \in Nat /\ e <= Len(bytes)
    BY <1>1
  <2>3. QED
    BY <2>1, <2>2
<1>3. PICK m \in T : \A e \in T : m <= e
  <2> HIDE DEF T
  <2>1. QED
    BY <1>2, LeastNatural
<1>4. /\ c \in cuts \cup {Len(bytes)}
      /\ c > consumed
  BY <1>3 DEF ChunkEnd
<1>5. c \in Nat /\ c <= Len(bytes) /\ c > consumed
  BY <1>2, <1>4
<1> HIDE DEF c
<1>6. \A i \in consumed + 1 .. c : bytes[i] \in Byte
  <2>1. \A i \in consumed + 1 .. c : i \in 1 .. Len(bytes)
    BY <1>1, <1>5
  <2>2. QED
    BY <1>1, <2>1, ElementOfSeq
<1> DEFINE t == SubSeq(bytes, consumed + 1, c)
<1>7. /\ t \in Seq(Byte)
      /\ Len(t) = IF consumed + 1 <= c THEN c - (consumed + 1) + 1 ELSE 0
      /\ \A i \in 1 .. c - (consumed + 1) + 1 : t[i] = bytes[(consumed + 1) + i - 1]
  <2>1. consumed + 1 \in Int /\ c \in Int
    BY <1>1, <1>5
  <2>2. QED
    BY <1>6, <2>1, SubSeqProperties
<1> HIDE DEF t
<1>8. Len(t) = c - consumed /\ \A i \in 1 .. c - consumed : t[i] = bytes[consumed + i]
  <2>1. c - (consumed + 1) + 1 = c - consumed /\ consumed + 1 <= c
    BY <1>1, <1>5
  <2>2. \A i \in 1 .. c - consumed : (consumed + 1) + i - 1 = consumed + i
    BY <1>1, <1>5
  <2>3. QED
    BY <1>7, <2>1, <2>2
<1>9. Len(t) \in 1 .. Len(bytes) - consumed /\ t[1] = bytes[consumed + 1]
  BY <1>1, <1>5, <1>8
<1>10. Chunk = t
  BY DEF Chunk, t, c
<1>11. QED
  BY <1>7, <1>8, <1>9, <1>10

(* The beginning of a byte string adds up to what the whole has there.     *)
LEMMA ValueOfPrefix ==
  ASSUME NEW chunk \in Seq(Byte), NEW whole \in Seq(Byte),
         NEW n \in Nat, n <= Len(chunk), n <= Len(whole),
         \A i \in 1 .. n : chunk[i] = whole[i]
  PROVE  ValueOf(SubSeq(chunk, 1, n)) = Sums(whole)[n]
<1> DEFINE p == SubSeq(chunk, 1, n)
<1>1. Len(chunk) \in Nat /\ \A i \in 1 .. n : chunk[i] \in Byte
  BY LenProperties, ElementOfSeq
<1>2. /\ p \in Seq(Byte)
      /\ Len(p) = IF 1 <= n THEN n - 1 + 1 ELSE 0
      /\ \A i \in 1 .. n - 1 + 1 : p[i] = chunk[1 + i - 1]
  BY <1>1, SubSeqProperties
<1> HIDE DEF p
<1>3. Len(p) = n /\ \A i \in 1 .. n : p[i] = whole[i]
  BY <1>2
<1>4. n \in 0 .. n /\ n <= Len(p)
  BY <1>3
<1>5. Sums(p)[n] = Sums(whole)[n]
  BY <1>2, <1>3, <1>4, SumsAgree
<1>6. QED
  BY <1>3, <1>5 DEF ValueOf, p

(* Where a byte without the continuation bit, or the last of the longest   *)
(* varint, comes after bytes with it, the varint ends; before the longest  *)
(* its value is in the range.                                              *)
LEMMA EndsHere ==
  ASSUME NEW whole \in Seq(Byte), NEW n \in 1 .. Len(whole), n <= MaxVarint,
         whole[n] < ContinueBit \/ n = MaxVarint,
         \A i \in 1 .. n - 1 : whole[i] >= ContinueBit
  PROVE  /\ n \in VarintEnds(whole)
         /\ DecodeVarint(whole) =
              [error |-> IF Sums(whole)[n] < VarintRange THEN "none" ELSE "InvalidVarint",
               value |-> Sums(whole)[n], used |-> n]
         /\ n < MaxVarint => Sums(whole)[n] < VarintRange
<1>1. n \in VarintEnds(whole)
  BY DEF VarintEnds
<1>2. n \in 0 .. Len(whole)
  BY LenProperties
<1>3. n < MaxVarint => Sums(whole)[n] < VarintRange
  BY <1>2, SumsBound
<1>4. QED
  BY <1>1, <1>3, DecodedAt

-----------------------------------------------------------------------------
(* Writing.                                                                *)

(* What is chosen first satisfies the invariant.                           *)
LEMMA InitKeeps == CodecInit => IInv
<1> SUFFICES ASSUME CodecInit PROVE IInv
  OBVIOUS
<1>1. /\ out = <<>> /\ Len(out) = 0 /\ out \in Seq(Byte)
      /\ consumed = 0 /\ turns = 0 /\ result = [error |-> "none", value |-> 0]
  BY EmptySeq DEF CodecInit
<1>2. /\ stage \in {"loop", "unrolled", "read"}
      /\ stage \in {"loop", "unrolled"} => given \in Values /\ left = given
      /\ stage = "read" => given = NoValue
      /\ given \in Values \cup {NoValue}
      /\ cuts \in SUBSET (1 .. Len(bytes) - 1)
  BY EmptySeq DEF CodecInit
<1>3. bytes \in Seq(Byte)
  BY EmptySeq, VarintCodecAssumption DEF CodecInit
<1>4. left \in Int
  <2>1. \A v \in Values : v \in Int
    BY VarintCodecAssumption, RangeFacts
  <2>2. left = 0 \/ left \in Values
    BY DEF CodecInit
  <2>3. QED
    BY <2>1, <2>2
<1>5. TypeOK
  BY <1>1, <1>2, <1>3, <1>4, LenProperties DEF TypeOK, Results
<1>6. WritingInv
  <2>1. SUFFICES ASSUME stage \in {"loop", "unrolled"} PROVE Halfway
    BY <1>1, <1>2 DEF WritingInv
  <2>2. given \in Nat /\ left = given
    BY <1>2, <2>1, VarintCodecAssumption, RangeFacts
  <2>3. EncodedLenVarint(given) \in 1 .. MaxVarint
    BY <2>2, LengthIs
  <2> DEFINE len == EncodedLenVarint(given)
  <2>4. len \in Nat /\ len >= 1
    BY <2>3, BFacts
  <2>5. Rests(given)[1] = given
    BY <2>2, <2>4, RestsDef
  <2>6. QED
    BY <1>1, <2>2, <2>4, <2>5 DEF Halfway
<1>7. WrittenInv
  BY <1>2 DEF WrittenInv
<1>8. SlowInv /\ ReadsAsWhole
  BY <1>2 DEF SlowInv, ReadsAsWhole
<1>9. QED
  BY <1>5, <1>6, <1>7, <1>8 DEF IInv

(* The rest is below the continuation bit before the last byte only, where *)
(* the longest varint may have any byte.                                   *)
LEMMA RestsCompare ==
  ASSUME NEW v \in Nat, NEW len \in Nat, len = EncodedLenVarint(v), NEW i \in 1 .. len
  PROVE  /\ i < len => Rests(v)[i] >= B
         /\ i = len /\ len < MaxVarint => Rests(v)[i] < B
<1>1. VarintLimit[1] = B
  <2>1. VarintLimit[1] = (VarintLimit[0] + 1) * B
    BY LimitDef
  <2>2. (0 + 1) * B = B
    BY BFacts
  <2>3. QED
    BY <2>1, <2>2, LimitDef
<1>2. Rests(v)[i] \in Nat /\ Rests(v)[i] >= VarintLimit[len - i]
  BY RestsBounds
<1>3. len < MaxVarint => Rests(v)[i] < VarintLimit[len - i + 1]
  BY RestsBounds
<1>4. ASSUME i < len PROVE Rests(v)[i] >= B
  <2>1. len - i \in Nat /\ 1 <= len - i
    BY <1>4
  <2>2. VarintLimit[1] <= VarintLimit[len - i] /\ VarintLimit[len - i] \in Nat
    BY <2>1, LimitGrows
  <2>3. QED
    BY <1>1, <1>2, <2>2, BFacts
<1>5. ASSUME i = len, len < MaxVarint PROVE Rests(v)[i] < B
  <2>1. len - i + 1 = 1
    BY <1>5
  <2>2. QED
    BY <1>1, <1>3, <1>5, <2>1
<1>6. QED
  BY <1>4, <1>5

(* What is known of a value while it is written.                           *)
LEMMA WritingFacts ==
  ASSUME IInv, stage \in {"loop", "unrolled"}, NEW len, len = EncodedLenVarint(given)
  PROVE  /\ given \in Values /\ given \in 0 .. VarintRange - 1 /\ given \in Nat
         /\ len \in Nat /\ len \in 1 .. MaxVarint
         /\ Len(out) \in Nat /\ out \in Seq(Byte)
         /\ EncodeVarint(given) \in Seq(Byte) /\ Len(EncodeVarint(given)) = len
         /\ \A i \in 1 .. len : Rests(given)[i] \in Nat
<1>1. given \in Values
  BY DEF IInv, WritingInv
<1>2. given \in 0 .. VarintRange - 1 /\ given \in Nat
  BY <1>1, VarintCodecAssumption, RangeFacts
<1>3. len \in 1 .. MaxVarint /\ len \in Nat
  BY <1>2, LengthIs, BFacts
<1>4. /\ EncodeVarint(given) \in Seq(Byte) /\ Len(EncodeVarint(given)) = len
      /\ \A i \in 1 .. len : Rests(given)[i] \in Nat
  BY <1>2, <1>3, EncodedBytes
<1>5. Len(out) \in Nat /\ out \in Seq(Byte)
  BY LenProperties DEF IInv, TypeOK
<1>6. QED
  BY <1>1, <1>2, <1>3, <1>4, <1>5

(* The last byte makes the varint.                                         *)
LEMMA Completed ==
  ASSUME IInv, stage \in {"loop", "unrolled"}, Halfway,
         Len(out) = EncodedLenVarint(given) - 1
  PROVE  /\ left \in Byte
         /\ left = EncodeVarint(given)[EncodedLenVarint(given)]
         /\ Append(out, left) = EncodeVarint(given)
<1> DEFINE len == EncodedLenVarint(given)
           e == EncodeVarint(given)
<1>1. /\ given \in 0 .. VarintRange - 1 /\ len \in Nat /\ len \in 1 .. MaxVarint
      /\ Len(out) \in Nat /\ out \in Seq(Byte) /\ e \in Seq(Byte) /\ Len(e) = len
  BY WritingFacts
<1>2. left = e[len]
  <2>1. e[len] = Rests(given)[len]
    BY <1>1, EncodedBytes
  <2>2. Len(out) + 1 = len
    BY <1>1
  <2>3. QED
    BY <2>1, <2>2 DEF Halfway
<1>3. left \in Byte
  <2>1. len \in 1 .. Len(e)
    BY <1>1
  <2>2. QED
    BY <1>1, <1>2, <2>1, ElementOfSeq
<1>4. \A i \in 1 .. Len(out) : out[i] = e[i]
  BY DEF Halfway
<1>5. Len(out) = len - 1
  OBVIOUS
<1> HIDE DEF len, e
<1>6. Append(out, left) = e
  <2> DEFINE a == Append(out, left)
  <2>1. /\ a \in Seq(Byte) /\ Len(a) = Len(out) + 1
        /\ \A i \in 1 .. Len(out) : a[i] = out[i]
        /\ a[Len(out) + 1] = left
    BY <1>1, <1>3, AppendProperties
  <2> HIDE DEF a
  <2>2. Len(a) = Len(e)
    BY <1>1, <1>5, <2>1
  <2>3. \A i \in 1 .. Len(a) : a[i] = e[i]
    BY <1>1, <1>2, <1>4, <1>5, <2>1
  <2>4. a = e
    BY <1>1, <2>1, <2>2, <2>3, SeqEqual
  <2>5. QED
    BY <2>4 DEF a
<1>7. QED
  BY <1>2, <1>3, <1>6 DEF len, e

(* The varint is in front of the buffer that is read.                      *)
LEMMA WrittenKeeps ==
  ASSUME IInv, stage \in {"loop", "unrolled"},
         NEW varint, varint = EncodeVarint(given), Written(varint)
  PROVE  IInv'
<1> DEFINE len == EncodedLenVarint(given)
<1>1. varint \in Seq(Byte) /\ given \in Values /\ Len(varint) \in Nat
  BY WritingFacts, LenProperties
<1>2. PICK suffix \in TrailingBytes : bytes' = varint \o suffix
  BY DEF Written
<1>3. /\ stage' = "read" /\ out' = varint /\ cuts' \in SUBSET (1 .. Len(bytes') - 1)
      /\ UNCHANGED <<given, left, consumed, turns, result>>
  BY DEF Written
<1>4. suffix \in Seq(Byte)
  BY VarintCodecAssumption
<1>5. /\ bytes' \in Seq(Byte) /\ Len(bytes') = Len(varint) + Len(suffix)
      /\ \A i \in 1 .. Len(varint) + Len(suffix) :
           bytes'[i] = IF i <= Len(varint) THEN varint[i] ELSE suffix[i - Len(varint)]
  BY <1>1, <1>2, <1>4, ConcatProperties
<1>6. Len(suffix) \in Nat
  BY <1>4, LenProperties
<1>7. consumed = 0 /\ result = [error |-> "none", value |-> 0]
  BY DEF IInv, WritingInv
<1>8. TypeOK'
  <2>1. consumed' \in 0 .. Len(bytes')
    BY <1>1, <1>3, <1>5, <1>6, <1>7
  <2>2. QED
    BY <1>1, <1>3, <1>5, <2>1 DEF IInv, TypeOK
<1>9. WrittenInv'
  BY <1>1, <1>3, <1>5, <1>6 DEF WrittenInv
<1>10. WritingInv'
  BY <1>3, <1>7 DEF WritingInv
<1>11. (SlowInv /\ ReadsAsWhole)'
  BY <1>3 DEF SlowInv, ReadsAsWhole
<1>12. QED
  BY <1>8, <1>9, <1>10, <1>11 DEF IInv

(* A byte that another one follows.                                        *)
LEMMA ContinuedKeeps ==
  ASSUME IInv, stage \in {"loop", "unrolled"}, Halfway, PutContinued,
         Len(out) < EncodedLenVarint(given) - 1
  PROVE  IInv'
<1> DEFINE len == EncodedLenVarint(given)
           e == EncodeVarint(given)
           r == Rests(given)
           k == Len(out) + 1
           byte == B + (left % B)
<1>1. /\ given \in Values /\ given \in 0 .. VarintRange - 1 /\ given \in Nat
      /\ len \in Nat /\ len \in 1 .. MaxVarint
      /\ Len(out) \in Nat /\ out \in Seq(Byte) /\ e \in Seq(Byte)
      /\ \A i \in 1 .. len : r[i] \in Nat
  BY WritingFacts
<1>2. /\ left = r[k]
      /\ \A i \in 1 .. Len(out) : out[i] = e[i]
  BY DEF Halfway
<1>3. Len(out) < len - 1
  OBVIOUS
<1>4. k \in 1 .. len - 1 /\ k \in 1 .. len /\ k + 1 \in 2 .. len
  BY <1>1, <1>3
<1>5. e[k] = byte
  BY <1>1, <1>2, <1>4, EncodedBytes
<1>6. r[k + 1] = (left \div B) - 1
  <2>1. \A i \in 2 .. len : r[i] = (r[i - 1] \div B) - 1
    BY <1>1, RestsDef
  <2>2. (k + 1) - 1 = k
    BY <1>1
  <2>3. QED
    BY <1>2, <1>4, <2>1, <2>2
<1>7. byte \in Byte /\ left \in Nat
  <2>1. left \in Nat
    BY <1>1, <1>2, <1>4
  <2>2. left % B \in 0 .. B - 1
    BY <2>1, BFacts, Divide
  <2>3. Byte = 0 .. 2 * B - 1
    BY DEF Byte, B
  <2>4. QED
    BY <2>1, <2>2, <2>3, BFacts
<1>8. /\ out' = Append(out, byte) /\ left' = (left \div B) - 1
      /\ UNCHANGED <<stage, given, bytes, cuts, consumed, turns, result>>
  BY DEF PutContinued, Reading, B
<1> HIDE DEF len, e, r, byte
<1>9. /\ out' \in Seq(Byte) /\ Len(out') = Len(out) + 1
      /\ \A i \in 1 .. Len(out) : out'[i] = out[i]
      /\ out'[Len(out) + 1] = byte
  BY <1>1, <1>7, <1>8, AppendProperties
<1>10. left' \in Int
  <2>1. left \div B \in Nat
    BY <1>7, BFacts, Divide
  <2>2. QED
    BY <1>8, <2>1
<1>11. TypeOK'
  BY <1>8, <1>9, <1>10 DEF IInv, TypeOK
<1>12. Halfway'
  <2>1. Len(out') < len
    BY <1>1, <1>3, <1>9
  <2>2. left' = r[Len(out') + 1]
    BY <1>6, <1>8, <1>9
  <2>3. \A i \in 1 .. Len(out') : out'[i] = e[i]
    BY <1>1, <1>2, <1>5, <1>9
  <2>4. QED
    BY <1>8, <2>1, <2>2, <2>3 DEF Halfway, len, e, r
<1>13. WritingInv'
  BY <1>1, <1>8, <1>12 DEF IInv, WritingInv
<1>14. (WrittenInv /\ SlowInv /\ ReadsAsWhole)'
  BY <1>8 DEF WrittenInv, SlowInv, ReadsAsWhole
<1>15. QED
  BY <1>11, <1>13, <1>14 DEF IInv

(* The loop's turn for the last byte of the longest varint: the byte has   *)
(* the continuation bit anyway.                                            *)
LEMMA LoopLast ==
  ASSUME IInv, stage = "loop", Halfway, PutContinued, left >= ContinueBit,
         Len(out) = EncodedLenVarint(given) - 1
  PROVE  IInv'
<1> DEFINE len == EncodedLenVarint(given)
           e == EncodeVarint(given)
<1>1. /\ given \in Values /\ given \in Nat
      /\ len \in Nat /\ len \in 1 .. MaxVarint
      /\ Len(out) \in Nat /\ out \in Seq(Byte) /\ e \in Seq(Byte) /\ Len(e) = len
  BY WritingFacts
<1>2. left \in Byte /\ Append(out, left) = e
  BY Completed
<1>3. Byte = 0 .. 2 * B - 1
  BY DEF Byte, B
<1>4. B + (left % B) = left
  <2> DEFINE q == left \div B
             m == left % B
  <2>1. left \in Nat /\ B <= left /\ left < 2 * B
    BY <1>2, <1>3, BFacts DEF B
  <2>2. q \in Nat /\ m \in 0 .. B - 1 /\ left = q * B + m
    BY <2>1, BFacts, Divide
  <2> HIDE DEF q, m
  <2>3. q < 1 => FALSE
    <3>1. SUFFICES ASSUME q = 0 PROVE FALSE
      BY <2>2
    <3>2. 0 * B = 0
      BY BFacts
    <3>3. QED
      BY <2>1, <2>2, <3>1, <3>2, BFacts
  <2>4. q > 1 => FALSE
    <3>1. SUFFICES ASSUME 2 <= q PROVE FALSE
      BY <2>2
    <3>2. 2 * B <= q * B /\ q * B \in Int
      BY <2>2, <3>1, BFacts, Monotone
    <3>3. QED
      BY <2>1, <2>2, <3>2, BFacts
  <2>5. q = 1
    BY <2>2, <2>3, <2>4
  <2>6. 1 * B = B
    BY BFacts
  <2>7. QED
    BY <2>2, <2>5, <2>6 DEF m
<1>5. left \div B \in Nat
  <2>1. left \in Nat
    BY <1>2, ByteIsNat
  <2>2. QED
    BY <2>1, BFacts, Divide
<1>6. /\ out' = e /\ left' = (left \div B) - 1
      /\ UNCHANGED <<stage, given, bytes, cuts, consumed, turns, result>>
  BY <1>2, <1>4 DEF PutContinued, Reading, B
<1>7. len = MaxVarint
  <2>1. len \in 1 .. len /\ Len(out) + 1 = len
    BY <1>1
  <2>2. left = Rests(given)[len]
    BY <2>1 DEF Halfway
  <2>3. len < MaxVarint => left < B
    BY <1>1, <2>1, <2>2, RestsCompare
  <2>4. left \in Nat
    BY <1>2, ByteIsNat
  <2>5. QED
    BY <1>1, <2>3, <2>4, BFacts DEF B
<1>8. TypeOK'
  BY <1>1, <1>5, <1>6 DEF IInv, TypeOK
<1>9. WritingInv'
  <2>1. out' = EncodeVarint(given') /\ Len(out') = MaxVarint
    BY <1>1, <1>6, <1>7
  <2>2. QED
    BY <1>1, <1>6, <2>1 DEF IInv, WritingInv
<1>10. (WrittenInv /\ SlowInv /\ ReadsAsWhole)'
  BY <1>6 DEF WrittenInv, SlowInv, ReadsAsWhole
<1>11. QED
  BY <1>8, <1>9, <1>10 DEF IInv

(* Both writers keep to the varint, byte by byte.                          *)
LEMMA WritersKeep ==
  ASSUME IInv,
         LoopTurn \/ LoopBreak \/ LoopExhausted \/ UnrolledTurn \/ UnrolledLast
  PROVE  IInv'
<1> DEFINE len == EncodedLenVarint(given)
<1>1. stage \in {"loop", "unrolled"}
  BY DEF LoopTurn, LoopBreak, LoopExhausted, UnrolledTurn, UnrolledLast
<1>2. /\ given \in Nat /\ len \in Nat /\ len \in 1 .. MaxVarint
      /\ Len(out) \in Nat /\ Len(EncodeVarint(given)) = len
  BY <1>1, WritingFacts
<1>3. \/ Halfway
      \/ stage = "loop" /\ out = EncodeVarint(given) /\ Len(out) = MaxVarint
  BY <1>1 DEF IInv, WritingInv
<1>4. Halfway => Len(out) < len
  BY DEF Halfway
<1> HIDE DEF len
<1>5. CASE LoopTurn
  <2>1. Halfway /\ stage = "loop" /\ PutContinued /\ left >= ContinueBit
    BY <1>2, <1>3, <1>5, BFacts DEF LoopTurn
  <2>2. CASE Len(out) < len - 1
    BY <1>1, <2>1, <2>2, ContinuedKeeps DEF len
  <2>3. CASE Len(out) = len - 1
    BY <2>1, <2>3, LoopLast DEF len
  <2>4. QED
    BY <1>2, <1>4, <2>1, <2>2, <2>3
<1>6. CASE LoopBreak
  <2>1. Halfway /\ left < ContinueBit /\ Written(Append(out, left))
    BY <1>2, <1>3, <1>6, BFacts DEF LoopBreak
  <2>2. left = Rests(given)[Len(out) + 1] /\ Len(out) + 1 \in 1 .. len
    BY <1>2, <1>4, <2>1 DEF Halfway
  <2>3. Len(out) + 1 < len => left >= B
    BY <1>2, <2>2, RestsCompare DEF len
  <2>4. left \in Int
    BY DEF IInv, TypeOK
  <2>5. Len(out) = len - 1
    BY <1>2, <2>1, <2>2, <2>3, <2>4, BFacts DEF B
  <2>6. Append(out, left) = EncodeVarint(given)
    BY <1>1, <2>1, <2>5, Completed DEF len
  <2>7. QED
    BY <1>1, <2>1, <2>6, WrittenKeeps
<1>7. CASE LoopExhausted
  <2>1. out = EncodeVarint(given) /\ Written(out)
    BY <1>2, <1>3, <1>4, <1>7, BFacts DEF LoopExhausted
  <2>2. QED
    BY <1>1, <2>1, WrittenKeeps
<1>8. CASE UnrolledTurn
  <2>1. Halfway /\ PutContinued /\ Len(out) < len - 1
    BY <1>3, <1>8 DEF UnrolledTurn, len
  <2>2. QED
    BY <1>1, <2>1, ContinuedKeeps DEF len
<1>9. CASE UnrolledLast
  <2>1. Halfway /\ Len(out) = len - 1 /\ Written(Append(out, left % (2 * ContinueBit)))
    BY <1>3, <1>9 DEF UnrolledLast, len
  <2>2. left \in Byte /\ Append(out, left) = EncodeVarint(given)
    BY <1>1, <2>1, Completed DEF len
  <2>3. left % (2 * ContinueBit) = left
    <3> DEFINE d == 2 * B
    <3>1. d \in Nat \ {0} /\ left \in 0 .. d - 1
      BY <2>2, BFacts DEF Byte, B
    <3> HIDE DEF d
    <3>2. left % d = left
      <4>1. 0 * d + left = left
        BY <3>1
      <4>2. 0 \in Int /\ 0 * d + left \in Nat
        BY <3>1, <4>1
      <4>3. (0 * d + left) % d = left
        BY <3>1, <4>2, DivideUnique
      <4>4. QED
        BY <4>1, <4>3
    <3>3. QED
      BY <3>2 DEF d, B
  <2>4. QED
    BY <1>1, <2>1, <2>2, <2>3, WrittenKeeps
<1>10. QED
  BY <1>5, <1>6, <1>7, <1>8, <1>9

-----------------------------------------------------------------------------
(* Reading.                                                                *)

(* Whatever decode_varint returns, only its result has to be looked at.    *)
LEMMA ReturnKeeps ==
  ASSUME IInv, stage \in {"read", "slow"},
         NEW err \in {"none", "Truncated", "InvalidVarint"}, NEW val \in Nat,
         NEW advance \in Nat, Return(err, val, advance),
         err = DecodeVarint(bytes).error,
         err = "none" => val = DecodeVarint(bytes).value,
         consumed + advance = DecodeVarint(bytes).used
  PROVE  IInv'
<1>1. /\ stage' = "done" /\ result' = [error |-> err, value |-> val]
      /\ consumed' = consumed + advance
      /\ UNCHANGED <<given, left, out, bytes, cuts, turns>>
  BY DEF Return
<1>2. bytes \in Seq(Byte)
  BY DEF IInv, TypeOK
<1>3. consumed' \in 0 .. Len(bytes)
  BY <1>1, <1>2, DecodeTypes
<1>4. TypeOK'
  <2>1. result' \in Results
    BY <1>1 DEF Results
  <2>2. QED
    BY <1>1, <1>3, <2>1 DEF IInv, TypeOK
<1>5. WritingInv' /\ SlowInv'
  BY <1>1 DEF WritingInv, SlowInv
<1>6. WrittenInv'
  BY <1>1 DEF IInv, WrittenInv
<1>7. ReadsAsWhole'
  BY <1>1 DEF ReadsAsWhole
<1>8. QED
  BY <1>4, <1>5, <1>6, <1>7 DEF IInv

(* What is known of a buffer that has not been consumed.                   *)
LEMMA ReadFacts ==
  ASSUME IInv, stage = "read"
  PROVE  /\ bytes \in Seq(Byte) /\ Len(bytes) \in Nat /\ consumed = 0
         /\ Remaining = Len(bytes)
         /\ \A i \in 1 .. Len(bytes) : bytes[i] \in Nat
         /\ result = [error |-> "none", value |-> 0]
<1>1. bytes \in Seq(Byte) /\ Len(bytes) \in Nat
  BY LenProperties DEF IInv, TypeOK
<1>2. consumed = 0 /\ result = [error |-> "none", value |-> 0]
  BY DEF IInv, WritingInv
<1>3. \A i \in 1 .. Len(bytes) : bytes[i] \in Nat
  BY <1>1, ElementOfSeq, ByteIsNat
<1>4. QED
  BY <1>1, <1>2, <1>3 DEF Remaining

(* decode_varint of no bytes is truncated.                                 *)
LEMMA ReadNothingKeeps ==
  ASSUME IInv, ReadNothing
  PROVE  IInv'
<1>1. stage = "read" /\ Remaining = 0 /\ Return("Truncated", 0, 0)
  BY DEF ReadNothing
<1>2. bytes \in Seq(Byte) /\ Len(bytes) = 0 /\ consumed = 0
  BY <1>1, ReadFacts
<1>3. VarintEnds(bytes) = {}
  BY <1>2 DEF VarintEnds
<1>4. DecodeVarint(bytes) = [error |-> "Truncated", value |-> 0, used |-> 0]
  BY <1>2, <1>3, NoEnd
<1>5. 0 \in Nat /\ consumed + 0 = 0
  BY <1>2
<1>6. QED
  BY <1>1, <1>4, <1>5, ReturnKeeps

(* The fast path for one byte.                                             *)
LEMMA ReadOneByteKeeps ==
  ASSUME IInv, ReadOneByte
  PROVE  IInv'
<1>1. /\ stage = "read" /\ Remaining > 0 /\ Chunk[1] < ContinueBit
      /\ Return("none", Chunk[1], 1)
  BY DEF ReadOneByte
<1>2. /\ bytes \in Seq(Byte) /\ Len(bytes) \in Nat /\ consumed = 0 /\ Len(bytes) > 0
      /\ bytes[1] \in Nat
  BY <1>1, ReadFacts
<1>3. Chunk[1] = bytes[1]
  BY <1>2, ChunkProperties DEF IInv
<1>4. 1 \in 1 .. Len(bytes) /\ 1 <= MaxVarint
  BY <1>2, BFacts
<1>5. Sums(bytes)[1] = bytes[1]
  <2>1. Sums(bytes)[1] = Sums(bytes)[1 - 1] + bytes[1] * Weight[1 - 1] /\ Sums(bytes)[0] = 0
    BY <1>2, <1>4, SumsDef
  <2>2. Weight[1 - 1] = 1 /\ 1 - 1 = 0 /\ bytes[1] * 1 = bytes[1]
    BY <1>2, WeightDef
  <2>3. QED
    BY <1>2, <2>1, <2>2
<1>6. bytes[1] < VarintRange
  <2> DEFINE w == Weight[MaxVarint - 1]
  <2>1. w \in Nat /\ 1 <= w /\ VarintRange = w * (2 * B) /\ VarintRange \in Nat
    BY BFacts, WeightGrows, RangeFacts
  <2> HIDE DEF w
  <2>2. 1 * (2 * B) <= w * (2 * B)
    BY <2>1, BFacts, Monotone
  <2>3. 1 * (2 * B) = 2 * B
    BY BFacts
  <2>4. bytes[1] < B
    BY <1>1, <1>3 DEF B
  <2>5. QED
    BY <1>2, <2>1, <2>2, <2>3, <2>4, BFacts
<1>7. DecodeVarint(bytes) = [error |-> "none", value |-> bytes[1], used |-> 1]
  <2>1. \A i \in 1 .. 1 - 1 : bytes[i] >= ContinueBit
    OBVIOUS
  <2>2. bytes[1] < ContinueBit
    BY <1>1, <1>3
  <2>3. QED
    BY <1>2, <1>4, <1>5, <1>6, <2>1, <2>2, EndsHere
<1>8. 1 \in Nat /\ consumed + 1 = 1 /\ Chunk[1] \in Nat
  BY <1>2, <1>3
<1>9. QED
  BY <1>1, <1>3, <1>7, <1>8, ReturnKeeps

(* The comparison before the last byte of the longest varint is added is   *)
(* the one of the sum with the range.                                      *)
LEMMA LastByteCheck ==
  ASSUME NEW low \in Nat, NEW byte \in Nat
  PROVE  byte + (low \div Weight[MaxVarint - 1]) > 2 * B - 1
           <=> ~ (low + byte * Weight[MaxVarint - 1] < VarintRange)
<1> DEFINE w == Weight[MaxVarint - 1]
           q == low \div w
           m == low % w
<1>1. w \in Nat \ {0} /\ VarintRange = (2 * B) * w /\ VarintRange \in Nat
  BY BFacts, WeightGrows, RangeFacts
<1>2. q \in Nat /\ m \in 0 .. w - 1 /\ low = q * w + m
  BY <1>1, Divide
<1> HIDE DEF w, q, m
<1>3. low + byte * w = (byte + q) * w + m /\ byte * w \in Nat /\ (byte + q) * w \in Nat
  BY <1>1, <1>2
<1>4. ASSUME byte + q > 2 * B - 1
      PROVE  ~ (low + byte * w < VarintRange)
  <2>1. 2 * B <= byte + q
    BY <1>2, <1>4, BFacts
  <2>2. (2 * B) * w <= (byte + q) * w
    BY <1>1, <1>2, <2>1, BFacts, Monotone
  <2>3. QED
    BY <1>1, <1>2, <1>3, <2>2
<1>5. ASSUME ~ (byte + q > 2 * B - 1)
      PROVE  low + byte * w < VarintRange
  <2>1. byte + q + 1 <= 2 * B
    BY <1>2, <1>5, BFacts
  <2>2. (byte + q + 1) * w <= (2 * B) * w
    BY <1>1, <1>2, <2>1, BFacts, Monotone
  <2>3. (byte + q + 1) * w = (byte + q) * w + w
    BY <1>1, <1>2
  <2>4. QED
    BY <1>1, <1>2, <1>3, <2>2, <2>3
<1>6. QED
  BY <1>4, <1>5 DEF w, q

(* The fast path for a chunk that holds the whole varint.                  *)
LEMMA ReadSliceKeeps ==
  ASSUME IInv, ReadSlice
  PROVE  IInv'
<1> DEFINE ends == {i \in 1 .. Len(Chunk) : i < MaxVarint /\ Chunk[i] < ContinueBit}
           stop == CHOOSE i \in ends : \A j \in ends : i <= j
           high == MaxVarint - 1
           low == ValueOf(SubSeq(Chunk, 1, high))
<1>1. stage = "read" /\ Remaining > 0 /\ EndsInChunk
  BY DEF ReadSlice
<1>2. /\ bytes \in Seq(Byte) /\ Len(bytes) \in Nat /\ consumed = 0 /\ Len(bytes) > 0
      /\ \A i \in 1 .. Len(bytes) : bytes[i] \in Nat
  BY <1>1, ReadFacts
<1>3. /\ Chunk \in Seq(Byte)
      /\ Len(Chunk) \in 1 .. Len(bytes)
      /\ \A i \in 1 .. Len(Chunk) : Chunk[i] = bytes[i]
  <2>1. /\ Chunk \in Seq(Byte) /\ Len(Chunk) \in 1 .. Len(bytes) - consumed
        /\ \A i \in 1 .. Len(Chunk) : Chunk[i] = bytes[consumed + i]
    BY <1>2, ChunkProperties DEF IInv
  <2>2. Len(bytes) - consumed = Len(bytes) /\ \A i \in 1 .. Len(Chunk) : consumed + i = i
    BY <1>2, <2>1
  <2>3. QED
    BY <2>1, <2>2
<1>4. Len(Chunk) \in Nat /\ high \in Nat /\ \A i \in 1 .. Len(Chunk) : i \in 1 .. Len(bytes)
  BY <1>2, <1>3, BFacts
<1>5. CASE ends # {}
  <2>1. PICK m \in ends : \A j \in ends : m <= j
    <3>1. ends \in SUBSET Nat
      BY <1>4
    <3> HIDE DEF ends
    <3>2. QED
      BY <1>5, <3>1, LeastNatural
  <2>2. stop \in ends /\ \A j \in ends : stop <= j
    BY <2>1
  <2> HIDE DEF stop
  <2>3. /\ stop \in 1 .. Len(Chunk) /\ stop \in 1 .. Len(bytes) /\ stop \in Nat
        /\ stop < MaxVarint /\ bytes[stop] < ContinueBit
    BY <1>3, <1>4, <2>2
  <2>4. ASSUME NEW j \in 1 .. stop - 1
        PROVE  bytes[j] >= ContinueBit
    <3>1. j \in 1 .. Len(Chunk) /\ j < MaxVarint /\ j \notin ends
      BY <1>4, <2>2, <2>3, BFacts
    <3>2. ~ (bytes[j] < ContinueBit) /\ bytes[j] \in Nat
      BY <1>2, <1>3, <1>4, <3>1
    <3>3. QED
      BY <3>2, BFacts DEF B
  <2>5. /\ DecodeVarint(bytes) =
             [error |-> IF Sums(bytes)[stop] < VarintRange THEN "none" ELSE "InvalidVarint",
              value |-> Sums(bytes)[stop], used |-> stop]
        /\ Sums(bytes)[stop] < VarintRange
    <3>1. stop <= MaxVarint
      BY <2>3, BFacts
    <3>2. QED
      BY <1>2, <2>3, <2>4, <3>1, EndsHere
  <2>6. ValueOf(SubSeq(Chunk, 1, stop)) = Sums(bytes)[stop]
    <3>1. stop <= Len(Chunk) /\ stop <= Len(bytes) /\ \A i \in 1 .. stop : Chunk[i] = bytes[i]
      BY <1>2, <1>3, <1>4, <2>3
    <3>2. QED
      BY <1>2, <1>3, <2>3, <3>1, ValueOfPrefix
  <2>7. Sums(bytes)[stop] \in Nat
    BY <1>2, <2>3, SumsDef
  <2>8. Return("none", ValueOf(SubSeq(Chunk, 1, stop)), stop)
    BY <1>5 DEF ReadSlice, stop
  <2>9. consumed + stop = stop
    BY <1>2, <2>3
  <2>10. QED
    BY <1>1, <2>3, <2>5, <2>6, <2>7, <2>8, <2>9, ReturnKeeps
<1>6. CASE ends = {}
  <2>1. Len(Chunk) >= MaxVarint
    <3>1. SUFFICES ASSUME Len(Chunk) < MaxVarint PROVE FALSE
      BY <1>4, BFacts
    <3>2. Len(Chunk) \in 1 .. Len(Chunk) /\ Chunk[Len(Chunk)] < ContinueBit
      BY <1>1, <1>3, <1>4, <3>1, BFacts DEF EndsInChunk
    <3>3. Len(Chunk) \in ends
      BY <3>1, <3>2
    <3>4. QED
      BY <1>6, <3>3
  <2>2. /\ MaxVarint \in 1 .. Len(Chunk) /\ MaxVarint \in 1 .. Len(bytes)
        /\ high <= Len(Chunk) /\ high <= Len(bytes) /\ high \in 0 .. Len(bytes)
        /\ \A i \in 1 .. high : i \in 1 .. Len(Chunk) /\ i < MaxVarint
    BY <1>2, <1>3, <1>4, <2>1, BFacts
  <2>3. ASSUME NEW j \in 1 .. MaxVarint - 1
        PROVE  bytes[j] >= ContinueBit
    <3>1. j \in 1 .. Len(Chunk) /\ j < MaxVarint /\ j \notin ends
      BY <1>6, <2>2
    <3>2. ~ (bytes[j] < ContinueBit) /\ bytes[j] \in Nat
      BY <1>2, <1>3, <1>4, <3>1
    <3>3. QED
      BY <3>2, BFacts DEF B
  <2> DEFINE byte == bytes[MaxVarint]
             val == Sums(bytes)[MaxVarint]
  <2>4. DecodeVarint(bytes) =
          [error |-> IF val < VarintRange THEN "none" ELSE "InvalidVarint",
           value |-> val, used |-> MaxVarint]
    <3>1. MaxVarint <= MaxVarint
      BY BFacts
    <3>2. QED
      BY <1>2, <2>2, <2>3, <3>1, EndsHere
  <2>5. low = Sums(bytes)[high]
    <3>1. \A i \in 1 .. high : Chunk[i] = bytes[i]
      BY <1>3, <2>2
    <3>2. QED
      BY <1>2, <1>3, <1>4, <2>2, <3>1, ValueOfPrefix
  <2>6. low \in Nat /\ val = low + byte * Weight[high] /\ val \in Nat
    BY <1>2, <2>2, <2>5, SumsDef
  <2>7. Chunk[MaxVarint] = byte /\ byte \in Nat
    BY <1>2, <1>3, <2>2
  <2>8. byte + (low \div Weight[high]) > 2 * ContinueBit - 1 <=> ~ (val < VarintRange)
    <3> HIDE DEF low, val, byte
    <3>1. QED
      BY <2>6, <2>7, LastByteCheck DEF B
  <2>9. consumed + MaxVarint = MaxVarint /\ MaxVarint \in Nat /\ 0 \in Nat
    BY <1>2, BFacts
  <2>10. IF byte + (low \div Weight[high]) > 2 * ContinueBit - 1
         THEN Return("InvalidVarint", 0, MaxVarint)
         ELSE Return("none", low + byte * Weight[high], MaxVarint)
    BY <1>6, <2>7 DEF ReadSlice
  <2> HIDE DEF low, high, val, byte, ends
  <2>11. CASE byte + (low \div Weight[high]) > 2 * ContinueBit - 1
    <3>1. Return("InvalidVarint", 0, MaxVarint) /\ ~ (val < VarintRange)
      BY <2>8, <2>10, <2>11
    <3>2. QED
      BY <1>1, <2>4, <2>9, <3>1, ReturnKeeps
  <2>12. CASE ~ (byte + (low \div Weight[high]) > 2 * ContinueBit - 1)
    <3>1. Return("none", val, MaxVarint) /\ val < VarintRange
      BY <2>6, <2>8, <2>10, <2>12
    <3>2. QED
      BY <1>1, <2>4, <2>6, <2>9, <3>1, ReturnKeeps
  <2>13. QED
    BY <2>11, <2>12
<1>7. QED
  BY <1>5, <1>6

(* The slow path is chosen: so many turns as there are bytes, but for the  *)
(* last byte of the longest varint.                                        *)
LEMMA ReadSlowKeeps ==
  ASSUME IInv, ReadSlow
  PROVE  IInv'
<1>1. /\ stage = "read" /\ stage' = "slow"
      /\ turns' = IF Remaining < MaxVarint - 1 THEN Remaining ELSE MaxVarint - 1
      /\ UNCHANGED <<given, left, out, bytes, cuts, consumed, result>>
  BY DEF ReadSlow
<1>2. /\ bytes \in Seq(Byte) /\ Len(bytes) \in Nat /\ consumed = 0
      /\ Remaining = Len(bytes) /\ result = [error |-> "none", value |-> 0]
  BY <1>1, ReadFacts
<1>3. TypeOK'
  <2>1. turns' \in Nat
    BY <1>1, <1>2, BFacts
  <2>2. QED
    BY <1>1, <2>1 DEF IInv, TypeOK
<1>4. SlowInv'
  <2>1. Sums(bytes)[0] = 0
    BY <1>2, SumsDef
  <2>2. consumed' <= turns'
    BY <1>1, <1>2, BFacts
  <2>3. result' = [error |-> "none", value |-> Sums(bytes')[consumed']]
    BY <1>1, <1>2, <2>1
  <2>4. \A i \in 1 .. consumed' : bytes'[i] >= ContinueBit
    BY <1>1, <1>2
  <2>5. turns' = IF Len(bytes') < MaxVarint - 1 THEN Len(bytes') ELSE MaxVarint - 1
    BY <1>1, <1>2
  <2>6. QED
    BY <2>2, <2>3, <2>4, <2>5 DEF SlowInv
<1>5. (WritingInv /\ ReadsAsWhole)'
  BY <1>1 DEF WritingInv, ReadsAsWhole
<1>6. WrittenInv'
  BY <1>1 DEF IInv, WrittenInv
<1>7. QED
  BY <1>3, <1>4, <1>5, <1>6 DEF IInv

(* What is known of the slow reader.                                       *)
LEMMA SlowFacts ==
  ASSUME IInv, stage = "slow"
  PROVE  /\ bytes \in Seq(Byte) /\ Len(bytes) \in Nat /\ consumed \in 0 .. Len(bytes)
         /\ \A i \in 1 .. Len(bytes) : bytes[i] \in Nat
         /\ turns = IF Len(bytes) < MaxVarint - 1 THEN Len(bytes) ELSE MaxVarint - 1
         /\ consumed <= turns /\ turns \in Nat
         /\ result = [error |-> "none", value |-> Sums(bytes)[consumed]]
         /\ \A i \in 1 .. consumed : bytes[i] >= ContinueBit
         /\ Remaining = Len(bytes) - consumed
<1>1. bytes \in Seq(Byte) /\ Len(bytes) \in Nat /\ consumed \in 0 .. Len(bytes) /\ turns \in Nat
  BY LenProperties DEF IInv, TypeOK
<1>2. \A i \in 1 .. Len(bytes) : bytes[i] \in Nat
  BY <1>1, ElementOfSeq, ByteIsNat
<1>3. QED
  BY <1>1, <1>2 DEF IInv, SlowInv, Remaining

(* A turn of the slow loop adds a byte, or ends at one without the         *)
(* continuation bit.                                                       *)
LEMMA SlowTurnKeeps ==
  ASSUME IInv, SlowTurn
  PROVE  IInv'
<1> DEFINE byte == Chunk[1]
           val == result.value + byte * Weight[consumed]
           k == consumed + 1
<1>1. stage = "slow" /\ consumed < turns
  BY DEF SlowTurn
<1>2. /\ bytes \in Seq(Byte) /\ Len(bytes) \in Nat /\ consumed \in 0 .. Len(bytes)
      /\ \A i \in 1 .. Len(bytes) : bytes[i] \in Nat
      /\ turns = IF Len(bytes) < MaxVarint - 1 THEN Len(bytes) ELSE MaxVarint - 1
      /\ turns \in Nat
      /\ result = [error |-> "none", value |-> Sums(bytes)[consumed]]
      /\ \A i \in 1 .. consumed : bytes[i] >= ContinueBit
  BY <1>1, SlowFacts
<1>3. /\ k \in 1 .. Len(bytes) /\ k < MaxVarint /\ k - 1 = consumed /\ k \in Nat
      /\ consumed < Len(bytes) /\ k <= turns
  BY <1>1, <1>2, BFacts
<1>4. byte = bytes[k] /\ byte \in Nat
  BY <1>2, <1>3, ChunkProperties DEF IInv
<1>5. val = Sums(bytes)[k] /\ val \in Nat
  <2>1. Sums(bytes)[k] = Sums(bytes)[k - 1] + bytes[k] * Weight[k - 1]
    BY <1>2, <1>3, SumsDef
  <2>2. k \in 0 .. Len(bytes)
    BY <1>3
  <2>3. Sums(bytes)[k] \in Nat
    BY <1>2, <2>2, SumsDef
  <2>4. QED
    BY <1>2, <1>3, <1>4, <2>1, <2>3
<1>6. IF byte < ContinueBit THEN Return("none", val, 1)
      ELSE /\ result' = [result EXCEPT !.value = val]
           /\ consumed' = consumed + 1
           /\ UNCHANGED <<stage, given, left, out, bytes, cuts, turns>>
  BY DEF SlowTurn
<1> HIDE DEF byte, val
<1>7. CASE byte < ContinueBit
  <2>1. k <= MaxVarint /\ bytes[k] < ContinueBit
    BY <1>3, <1>4, <1>7, BFacts
  <2>2. \A i \in 1 .. k - 1 : bytes[i] >= ContinueBit
    BY <1>2, <1>3
  <2>3. DecodeVarint(bytes) = [error |-> "none", value |-> val, used |-> k]
    <3>1. /\ DecodeVarint(bytes) =
               [error |-> IF Sums(bytes)[k] < VarintRange THEN "none" ELSE "InvalidVarint",
                value |-> Sums(bytes)[k], used |-> k]
          /\ k < MaxVarint => Sums(bytes)[k] < VarintRange
      BY <1>2, <1>3, <2>1, <2>2, EndsHere
    <3>2. QED
      BY <1>3, <1>5, <3>1
  <2>4. Return("none", val, 1)
    BY <1>6, <1>7
  <2>5. 1 \in Nat /\ consumed + 1 = k
    OBVIOUS
  <2>6. QED
    BY <1>1, <1>5, <2>3, <2>4, <2>5, ReturnKeeps
<1>8. CASE ~ (byte < ContinueBit)
  <2>1. /\ result' = [result EXCEPT !.value = val]
        /\ consumed' = k
        /\ UNCHANGED <<stage, given, left, out, bytes, cuts, turns>>
    BY <1>6, <1>8
  <2>2. result' = [error |-> "none", value |-> Sums(bytes)[k]]
    BY <1>2, <1>5, <2>1
  <2> HIDE DEF k
  <2>3. TypeOK'
    <3>1. result' \in Results
      BY <1>5, <2>2 DEF Results
    <3>2. consumed' \in 0 .. Len(bytes')
      BY <1>3, <2>1
    <3>3. QED
      BY <2>1, <3>1, <3>2 DEF IInv, TypeOK
  <2>4. SlowInv'
    <3>1. \A i \in 1 .. k : bytes[i] >= ContinueBit
      <4>1. bytes[k] >= ContinueBit
        BY <1>4, <1>8, BFacts DEF B
      <4>2. \A i \in 1 .. k : i \in 1 .. consumed \/ i = k
        BY <1>2, <1>3
      <4>3. QED
        BY <1>2, <4>1, <4>2
    <3>2. QED
      BY <1>2, <1>3, <2>1, <2>2, <3>1 DEF SlowInv
  <2>5. (WritingInv /\ ReadsAsWhole)'
    BY <1>1, <2>1 DEF WritingInv, ReadsAsWhole
  <2>6. WrittenInv'
    BY <1>1, <2>1 DEF IInv, WrittenInv
  <2>7. QED
    BY <2>3, <2>4, <2>5, <2>6 DEF IInv
<1>9. QED
  BY <1>7, <1>8

(* The bytes end before the varint does.                                   *)
LEMMA SlowTruncatedKeeps ==
  ASSUME IInv, SlowTruncated
  PROVE  IInv'
<1>1. stage = "slow" /\ consumed = turns /\ Remaining = 0 /\ Return("Truncated", 0, 0)
  BY DEF SlowTruncated
<1>2. /\ bytes \in Seq(Byte) /\ Len(bytes) \in Nat /\ consumed = Len(bytes)
      /\ \A i \in 1 .. Len(bytes) : bytes[i] \in Nat /\ bytes[i] >= ContinueBit
  BY <1>1, SlowFacts
<1>3. Len(bytes) < MaxVarint
  BY <1>1, <1>2, SlowFacts, BFacts
<1>4. VarintEnds(bytes) = {}
  <2>1. SUFFICES ASSUME NEW i \in VarintEnds(bytes) PROVE FALSE
    OBVIOUS
  <2>2. i \in 1 .. Len(bytes) /\ (bytes[i] < ContinueBit \/ i = MaxVarint)
    BY <2>1 DEF VarintEnds
  <2>3. QED
    BY <1>2, <1>3, <2>2, BFacts DEF B
<1>5. DecodeVarint(bytes) = [error |-> "Truncated", value |-> 0, used |-> consumed]
  BY <1>2, <1>4, NoEnd
<1>6. 0 \in Nat /\ consumed + 0 = consumed
  BY <1>2
<1>7. QED
  BY <1>1, <1>5, <1>6, ReturnKeeps

(* The last byte of the longest varint, where the value may not fit.       *)
LEMMA SlowLastKeeps ==
  ASSUME IInv, SlowLast
  PROVE  IInv'
<1> DEFINE val == result.value + Chunk[1] * Weight[MaxVarint - 1]
<1>1. stage = "slow" /\ consumed = turns /\ Remaining > 0
  BY DEF SlowLast
<1>2. /\ bytes \in Seq(Byte) /\ Len(bytes) \in Nat
      /\ result = [error |-> "none", value |-> Sums(bytes)[consumed]]
      /\ \A i \in 1 .. consumed : bytes[i] >= ContinueBit
  BY <1>1, SlowFacts
<1>3. consumed = MaxVarint - 1 /\ consumed < Len(bytes) /\ MaxVarint \in 1 .. Len(bytes)
  BY <1>1, SlowFacts, BFacts
<1>4. consumed + 1 = MaxVarint /\ 1 \in Nat /\ MaxVarint <= MaxVarint /\ MaxVarint \in 0 .. Len(bytes)
  BY <1>2, <1>3, BFacts
<1>5. Chunk[1] = bytes[MaxVarint]
  BY <1>3, <1>4, ChunkProperties DEF IInv
<1>6. val = Sums(bytes)[MaxVarint] /\ val \in Nat
  <2>1. Sums(bytes)[MaxVarint] =
          Sums(bytes)[MaxVarint - 1] + bytes[MaxVarint] * Weight[MaxVarint - 1]
    BY <1>2, <1>3, SumsDef
  <2>2. Sums(bytes)[MaxVarint] \in Nat
    BY <1>2, <1>4, SumsDef
  <2>3. QED
    BY <1>2, <1>3, <1>5, <2>1, <2>2
<1>7. IF val < VarintRange THEN Return("none", val, 1) ELSE Return("InvalidVarint", 0, 1)
  BY DEF SlowLast
<1> HIDE DEF val
<1>8. DecodeVarint(bytes) =
        [error |-> IF val < VarintRange THEN "none" ELSE "InvalidVarint",
         value |-> val, used |-> MaxVarint]
  <2>1. \A i \in 1 .. MaxVarint - 1 : bytes[i] >= ContinueBit
    BY <1>2, <1>3
  <2>2. QED
    BY <1>2, <1>3, <1>4, <1>6, <2>1, EndsHere
<1>9. CASE val < VarintRange
  BY <1>1, <1>4, <1>6, <1>7, <1>8, <1>9, ReturnKeeps
<1>10. CASE ~ (val < VarintRange)
  <2>1. 0 \in Nat
    OBVIOUS
  <2>2. QED
    BY <1>1, <1>4, <1>7, <1>8, <1>10, <2>1, ReturnKeeps
<1>11. QED
  BY <1>9, <1>10

-----------------------------------------------------------------------------

(* Every turn of a writer or a reader keeps the invariant.                 *)
LEMMA NextKeeps == IInv /\ [CodecNext]_codecVars => IInv'
<1> SUFFICES ASSUME IInv, [CodecNext]_codecVars PROVE IInv'
  OBVIOUS
<1>1. CASE LoopTurn \/ LoopBreak \/ LoopExhausted \/ UnrolledTurn \/ UnrolledLast
  BY <1>1, WritersKeep
<1>2. CASE ReadNothing
  BY <1>2, ReadNothingKeeps
<1>3. CASE ReadOneByte
  BY <1>3, ReadOneByteKeeps
<1>4. CASE ReadSlice
  BY <1>4, ReadSliceKeeps
<1>5. CASE ReadSlow
  BY <1>5, ReadSlowKeeps
<1>6. CASE SlowTurn
  BY <1>6, SlowTurnKeeps
<1>7. CASE SlowTruncated
  BY <1>7, SlowTruncatedKeeps
<1>8. CASE SlowLast
  BY <1>8, SlowLastKeeps
<1>9. CASE UNCHANGED codecVars
  BY <1>9 DEF codecVars, IInv, TypeOK, WritingInv, Halfway, WrittenInv, SlowInv, ReadsAsWhole
<1>10. QED
  BY <1>1, <1>2, <1>3, <1>4, <1>5, <1>6, <1>7, <1>8, <1>9 DEF CodecNext

(* The inductive invariant of the writers and readers.                     *)
THEOREM VarintInvariant == CodecSpec => []IInv
<1>1. CodecInit => IInv
  BY InitKeeps
<1>2. IInv /\ [CodecNext]_codecVars => IInv'
  BY NextKeeps
<1>3. QED
  BY <1>1, <1>2, PTL DEF CodecSpec

(* decode_varint gives the value or the error of the whole string and      *)
(* advances as far, whichever of its three paths it takes and however the  *)
(* bytes are cut into chunks.                                              *)
THEOREM VarintReadsAsWhole == CodecSpec => []ReadsAsWhole
<1>1. IInv => ReadsAsWhole
  BY DEF IInv
<1>2. QED
  BY <1>1, VarintInvariant, PTL

(* What the invariant says of a writer that is done, or a reader that      *)
(* succeeded, is that varints are bijective.                               *)
LEMMA InvBijective == IInv => Bijective
<1> SUFFICES ASSUME IInv PROVE Bijective
  OBVIOUS
<1> DEFINE len == EncodedLenVarint(given)
<1>1. bytes \in Seq(Byte)
  BY DEF IInv, TypeOK
<1>2. ASSUME given # NoValue, stage \in {"read", "slow", "done"}
      PROVE  /\ out = EncodeVarint(given) /\ Len(out) = len /\ len \in Nat
             /\ given \in 0 .. VarintRange - 1
             /\ DecodeVarint(bytes) = [error |-> "none", value |-> given, used |-> len]
  <2>1. given \in Values
    BY <1>2 DEF IInv, TypeOK
  <2>2. given \in 0 .. VarintRange - 1 /\ given \in Nat
    BY <2>1, VarintCodecAssumption, RangeFacts
  <2>3. len \in Nat
    BY <2>2, LengthIs
  <2>4. /\ out = EncodeVarint(given) /\ Len(out) <= Len(bytes)
        /\ \A i \in 1 .. Len(out) : bytes[i] = out[i]
    BY <1>2 DEF IInv, WrittenInv
  <2>5. Len(out) = len
    BY <2>2, <2>3, <2>4, EncodedBytes
  <2>6. DecodeVarint(bytes) = [error |-> "none", value |-> given, used |-> len]
    BY <1>1, <2>2, <2>3, <2>4, <2>5, DecodesPrefix
  <2>7. QED
    BY <2>2, <2>3, <2>4, <2>5, <2>6
<1> HIDE DEF len
<1>3. ASSUME stage = "done", given # NoValue
      PROVE  result = [error |-> "none", value |-> given] /\ consumed = Len(out)
  <2>1. DecodeVarint(bytes) = [error |-> "none", value |-> given, used |-> len] /\ Len(out) = len
    BY <1>2, <1>3
  <2>2. result.error = "none" /\ result.value = given /\ consumed = len
    BY <1>3, <2>1 DEF IInv, ReadsAsWhole
  <2>3. result \in Results
    BY DEF IInv, TypeOK
  <2>4. QED
    BY <2>1, <2>2, <2>3 DEF Results
<1>4. ASSUME stage = "done", result.error = "none"
      PROVE  SubSeq(bytes, 1, consumed) = EncodeVarint(result.value)
  <2>1. /\ DecodeVarint(bytes).error = "none"
        /\ result.value = DecodeVarint(bytes).value /\ consumed = DecodeVarint(bytes).used
    BY <1>4 DEF IInv, ReadsAsWhole
  <2>2. QED
    BY <1>1, <2>1, VarintsAreBijective
<1>5. QED
  BY <1>2, <1>3, <1>4 DEF Bijective, len

(* Both writers write the same bytes, as many as are measured; what was    *)
(* written is read back, nothing after it is touched, and no other bytes   *)
(* are read as it.                                                         *)
THEOREM VarintBijective == CodecSpec => []Bijective
<1>1. IInv => Bijective
  BY InvBijective
<1>2. QED
  BY <1>1, VarintInvariant, PTL

-----------------------------------------------------------------------------
(* A value whose strings, the items of a pair included, are text.          *)
Textual(t, val) ==
  /\ t.form = "text" => IsText(val)
  /\ t.form \in Nested =>
       \A i \in {1, 2} : t.items[i].form = "text" => IsText(val[i])

(* The inductive invariant.  Only while it is copied may a value be        *)
(* anything, and what is copied is not nested.  The parts an inclusive     *)
(* range is taken into hold text as the range itself does.                 *)
TextInv ==
  /\ phase # "copying" => Textual(type, value)
  /\ phase = "copying" => type.form \in {"bytes", "text"}
  /\ phase = "fields" =>
       /\ type.form \in Nested
       /\ DOMAIN value = {1, 2}
       /\ type.form = "inclusive" => DOMAIN taken = {1, 2} /\ Textual(type, taken)

(* Forms that are neither text nor nested say nothing of the value.        *)
LEMMA Textless ==
  ASSUME NEW t, NEW val, t.form \notin Nested, t.form # "text"
  PROVE  Textual(t, val)
BY DEF Textual

(* A value of a type is text where the type says so.                       *)
LEMMA ValueIsTextual ==
  ASSUME NEW t, NEW val, IsValue(t, val)
  PROVE  Textual(t, val)
BY DEF IsValue, Fits, Textual, Nested

(* Where the drop guard leaves a string empty, it is text.                 *)
LEMMA EmptyIsText == IsText(<<>>)
<1>1. DOMAIN <<>> = {}
  OBVIOUS
<1>2. QED
  BY <1>1 DEF IsText

(* The empty state is a value of the type.                                 *)
LEMMA FreshIsTextual ==
  ASSUME NEW t
  PROVE  /\ Textual(t, Fresh(t))
         /\ t.form \in Nested => DOMAIN Fresh(t) = {1, 2}
<1>1. \A item : item.form = "text" => IsText(FreshSimple(item))
  BY EmptyIsText DEF FreshSimple
<1>2. CASE t.form \in Nested
  <2> DEFINE a == FreshSimple(t.items[1])
             b == FreshSimple(t.items[2])
  <2>1. Fresh(t) = <<a, b>>
    BY <1>2 DEF Fresh
  <2>2. /\ t.items[1].form = "text" => IsText(a)
        /\ t.items[2].form = "text" => IsText(b)
    BY <1>1
  <2>3. t.form # "text"
    BY <1>2 DEF Nested
  <2> HIDE DEF a, b
  <2>4. <<a, b>>[1] = a /\ <<a, b>>[2] = b /\ DOMAIN <<a, b>> = {1, 2}
    OBVIOUS
  <2>5. QED
    BY <2>1, <2>2, <2>3, <2>4 DEF Textual
<1>3. CASE t.form \notin Nested
  BY <1>1, <1>3 DEF Fresh, Textual
<1>4. QED
  BY <1>2, <1>3

(* A region that is decoded as a string without an error is text.          *)
LEMMA DecodedRegionIsText ==
  ASSUME NEW t, t.form = "text", NEW raw, DecodeRegion(t, raw).error = "none"
  PROVE  IsText(DecodeRegion(t, raw).value)
<1> DEFINE region == Delimited(raw)
           stop == region.used + region.value
           octets == SubSeq(raw, region.used + 1, stop)
<1>1. region.error = "none"
  BY DEF DecodeRegion
<1>2. DecodeRegion(t, raw) = FromRegion(t, octets, stop)
  BY <1>1 DEF DecodeRegion
<1> HIDE DEF octets, stop
<1>3. FromRegion(t, octets, stop).error = "none"
  BY <1>2
<1>4. IsText(octets) /\ FromRegion(t, octets, stop).value = octets
  BY <1>3 DEF FromRegion, Parsed
<1>5. QED
  BY <1>2, <1>4

(* ... also as an item of a pair, in a region of its own.                  *)
LEMMA DecodedItemIsText ==
  ASSUME NEW t, t.form = "text", NEW raw, NEW cap,
         DecodeCapped(t, raw, cap).error = "none"
  PROVE  IsText(DecodeCapped(t, raw, cap).value)
<1>1. DecodeSimple(t, raw) = DecodeRegion(t, raw)
  BY DEF DecodeSimple
<1>2. DecodeCapped(t, raw, cap) = DecodeRegion(t, raw)
  <2> DEFINE decoded == DecodeSimple(t, raw)
  <2>1. \/ DecodeCapped(t, raw, cap) = Parsed("Truncated", 0, decoded.used)
        \/ DecodeCapped(t, raw, cap) = Parsed("Truncated", 0, Delimited(raw).used)
        \/ DecodeCapped(t, raw, cap) = decoded
    BY DEF DecodeCapped
  <2>2. /\ Parsed("Truncated", 0, decoded.used).error = "Truncated"
        /\ Parsed("Truncated", 0, Delimited(raw).used).error = "Truncated"
    BY DEF Parsed
  <2>3. QED
    BY <1>1, <2>1, <2>2
<1>3. QED
  BY <1>2, DecodedRegionIsText

-----------------------------------------------------------------------------
(* Every step keeps the invariant.                                         *)

(* A value that is finished with is not being decoded any more.            *)
LEMMA FinishKeeps ==
  ASSUME NEW err, NEW val, NEW advanced, NEW canonicity,
         Finish(err, val, advanced, canonicity), Textual(type', val)
  PROVE  TextInv'
BY DEF Finish, TextInv

(* What is there to be decoded into, before anything is read.              *)
LEMMA OldIsTextual ==
  ASSUME TextInv, phase = "sent", NEW t
  PROVE  Textual(t, Old(t))
BY FreshIsTextual DEF TextInv, Old

(* Choosing the bytes to decode touches no value.                          *)
LEMMA HoldKeeps ==
  ASSUME TextInv, Encode \/ Damage \/ Keep
  PROVE  TextInv'
BY DEF TextInv, Encode, Damage, Keep

(* The types decoded at once hold no string.                               *)
LEMMA DecodeAtOnceKeeps ==
  ASSUME DecodeAtOnce
  PROVE  TextInv'
<1>1. PICK t \in Types : t.form \notin Nested \cup {"bytes", "text"} /\ type' = t
                         /\ \E err, val, advanced : Finish(err, val, advanced, Canonical)
  BY DEF DecodeAtOnce
<1>2. \A val : Textual(type', val)
  BY <1>1, Textless
<1>3. QED
  BY <1>1, <1>2, FinishKeeps

(* A string that borrows its bytes is checked before it is one.            *)
LEMMA BorrowKeeps ==
  ASSUME TextInv, Borrow
  PROVE  TextInv'
<1>1. PICK t \in Types :
        /\ t.form \in {"bytes", "text"} /\ type' = t
        /\ LET decoded == DecodeRegion(t, wire)
           IN Finish(decoded.error,
                     IF decoded.error = "none" THEN decoded.value ELSE Old(t),
                     decoded.used, Canonical)
  BY DEF Borrow
<1> DEFINE decoded == DecodeRegion(t, wire)
           val == IF decoded.error = "none" THEN decoded.value ELSE Old(t)
<1>2. Textual(t, Old(t))
  BY OldIsTextual DEF Borrow
<1>3. t.form \notin Nested
  BY <1>1 DEF Nested
<1>4. t.form = "text" /\ decoded.error = "none" => IsText(decoded.value)
  BY DecodedRegionIsText
<1>5. Textual(t, val)
  <2> HIDE DEF decoded
  <2> QED
    BY <1>2, <1>3, <1>4 DEF Textual
<1>6. Finish(decoded.error, val, decoded.used, Canonical) /\ Textual(type', val)
  BY <1>1, <1>5
<1> HIDE DEF decoded, val
<1>7. QED
  BY <1>6, FinishKeeps

(* An owned string is filled chunk by chunk; it is seen again only as      *)
(* text, as it is cleared or checked at the end, an error or a panic.      *)
LEMMA CopyKeeps ==
  ASSUME TextInv, BeginCopy \/ CopyChunk \/ EndCopy \/ Panic
  PROVE  TextInv'
<1>1. ASSUME BeginCopy
      PROVE  TextInv'
  <2>1. PICK t \in Types :
          /\ t.form \in {"bytes", "text"} /\ type' = t
          /\ \/ phase' = "copying"
             \/ \E err, advanced : Finish(err, Old(t), advanced, Canonical)
    BY <1>1 DEF BeginCopy
  <2>2. Textual(t, Old(t))
    BY <1>1, OldIsTextual DEF BeginCopy
  <2>3. CASE phase' = "copying"
    BY <2>1, <2>3 DEF TextInv
  <2>4. CASE \E err, advanced : Finish(err, Old(t), advanced, Canonical)
    BY <2>1, <2>2, <2>4, FinishKeeps
  <2>5. QED
    BY <2>1, <2>3, <2>4
<1>2. ASSUME CopyChunk
      PROVE  TextInv'
  BY <1>2 DEF CopyChunk, TextInv
<1>3. \A val : type.form \in {"bytes", "text"} => Textual(type, Guarded(type, val))
  BY EmptyIsText DEF Guarded, Textual, Nested
<1>4. ASSUME EndCopy
      PROVE  TextInv'
  <2>1. type.form \in {"bytes", "text"} /\ UNCHANGED type
    BY <1>4 DEF EndCopy, TextInv
  <2>2. CASE type.form = "text" /\ ~ IsText(value)
    BY <1>3, <1>4, <2>1, <2>2, FinishKeeps DEF EndCopy
  <2>3. CASE ~ (type.form = "text" /\ ~ IsText(value))
    <3>1. Textual(type, value)
      BY <2>1, <2>3 DEF Textual, Nested
    <3>2. Finish("none", value, pos, Canonical)
      BY <1>4, <2>3 DEF EndCopy
    <3>3. QED
      BY <2>1, <3>1, <3>2, FinishKeeps
  <2>4. QED
    BY <2>2, <2>3
<1>5. ASSUME Panic
      PROVE  TextInv'
  <2>1. /\ type.form \in {"bytes", "text"} /\ UNCHANGED type
        /\ phase' = "panicked" /\ value' = Guarded(type, value)
    BY <1>5 DEF Panic, TextInv
  <2>2. QED
    BY <1>3, <2>1 DEF TextInv
<1>6. QED
  BY <1>1, <1>2, <1>4, <1>5

(* A tuple or a range begins as its empty value, whose strings are empty.  *)
LEMMA BeginKeeps ==
  ASSUME TextInv, BeginFields \/ BeginDistinguished
  PROVE  TextInv'
<1>1. PICK t \in Types :
        /\ t.form \in Nested /\ type' = t
        /\ \/ \E region : Enter(t, region)
           \/ \E err, advanced, canonicity : Finish(err, Fresh(t), advanced, canonicity)
  BY DEF BeginFields, BeginDistinguished, NotEntered
<1>2. Textual(t, Fresh(t)) /\ DOMAIN Fresh(t) = {1, 2}
  BY <1>1, FreshIsTextual
<1>3. CASE \E region : Enter(t, region)
  BY <1>1, <1>2, <1>3 DEF Enter, TextInv
<1>4. CASE \E err, advanced, canonicity : Finish(err, Fresh(t), advanced, canonicity)
  BY <1>1, <1>2, <1>4, FinishKeeps
<1>5. QED
  BY <1>1, <1>3, <1>4

(* A value that is refused stays as it is, with the items that were put in *)
(* before.                                                                 *)
LEMMA RefuseKeeps ==
  ASSUME TextInv, phase = "fields", NEW err, NEW advanced, Refuse(err, advanced),
         UNCHANGED type
  PROVE  TextInv'
<1>1. Textual(type, value) /\ Finish(err, value, advanced, canon)
  BY DEF TextInv, Refuse
<1>2. QED
  BY <1>1, FinishKeeps

(* One item is replaced by another one that is text if it is a string.     *)
LEMMA StoreKeeps ==
  ASSUME TextInv, phase = "fields", UNCHANGED <<type, phase>>,
         NEW i \in {1, 2}, NEW val, type.items[i].form = "text" => IsText(val),
         Store(i, val)
  PROVE  TextInv'
<1>1. /\ type.form \in Nested /\ type.form # "text" /\ Textual(type, value)
      /\ DOMAIN value = {1, 2}
      /\ type.form = "inclusive" => DOMAIN taken = {1, 2} /\ Textual(type, taken)
  BY DEF TextInv, Nested
<1>2. ASSUME NEW parts, DOMAIN parts = {1, 2}, Textual(type, parts)
      PROVE  DOMAIN [parts EXCEPT ![i] = val] = {1, 2}
             /\ Textual(type, [parts EXCEPT ![i] = val])
  <2>1. \A j \in {1, 2} :
          [parts EXCEPT ![i] = val][j] = IF j = i THEN val ELSE parts[j]
    BY <1>2
  <2>2. QED
    BY <1>1, <1>2, <2>1 DEF Textual
<1>3. CASE type.form = "inclusive"
  <2>1. taken' = [taken EXCEPT ![i] = val] /\ UNCHANGED value
    BY <1>3 DEF Store
  <2>2. DOMAIN taken' = {1, 2} /\ Textual(type, taken')
    BY <1>1, <1>2, <1>3, <2>1
  <2>3. QED
    BY <1>1, <2>1, <2>2 DEF TextInv
<1>4. CASE type.form # "inclusive"
  <2>1. value' = [value EXCEPT ![i] = val]
    BY <1>4 DEF Store
  <2>2. DOMAIN value' = {1, 2} /\ Textual(type, value')
    BY <1>1, <1>2, <2>1
  <2>3. QED
    BY <1>1, <1>4, <2>2 DEF TextInv
<1>5. QED
  BY <1>3, <1>4

(* A field of a tuple or range is replaced by what its decoder leaves      *)
(* behind, which is text even after an error.                              *)
LEMMA KnownFieldKeeps ==
  ASSUME NEW key, TextInv, phase = "fields", UNCHANGED type, KnownField(key)
  PROVE  TextInv'
<1> DEFINE i == KeyTag(key) + 1
           decoded == DecodeCapped(type.items[i], Behind(key), Cap(key))
<1>1. KeyTag(key) \in {0, 1}
  BY DEF KnownField
<1>2. CASE \E err, advanced : Refuse(err, advanced)
  BY <1>2, RefuseKeeps
<1>3. CASE ~ \E err, advanced : Refuse(err, advanced)
  <2>1. decoded.error = "none" /\ Store(i, decoded.value) /\ UNCHANGED phase
    BY <1>3 DEF KnownField, TakeItem
  <2>2. type.items[i].form = "text" => IsText(decoded.value)
    BY <2>1, DecodedItemIsText
  <2>3. i \in {1, 2}
    BY <1>1
  <2> HIDE DEF decoded, i
  <2>4. QED
    BY <2>1, <2>2, <2>3, StoreKeeps
<1>4. QED
  BY <1>2, <1>3

(* Other turns of the loop over fields keep the parts; at its end they     *)
(* become the value.                                                       *)
LEMMA FieldsKeep ==
  ASSUME TextInv, NextField \/ EndFields
  PROVE  TextInv'
<1>1. phase = "fields" /\ UNCHANGED type
  BY DEF NextField, EndFields
<1>2. CASE \E err, advanced : Refuse(err, advanced)
  BY <1>1, <1>2, RefuseKeeps
<1>3. CASE UNCHANGED <<phase, value, taken>>
  BY <1>1, <1>3 DEF TextInv
<1>4. CASE EndFields
  <2>1. Textual(type, value) /\ Textual(type, Target)
    BY <1>1 DEF TextInv, Target
  <2>2. \E err, val, advanced, canonicity :
          Finish(err, val, advanced, canonicity) /\ Textual(type, val)
    BY <1>4, <2>1 DEF EndFields
  <2>3. QED
    BY <1>1, <2>2, FinishKeeps
<1>5. CASE KnownField(Key)
  BY <1>1, <1>5, KnownFieldKeeps
<1>6. QED
  BY <1>2, <1>3, <1>4, <1>5
     DEF NextField, BadKey, TagOverflow, UnknownField, UnknownDistinguished, PassOver

-----------------------------------------------------------------------------
(* Theorems.                                                               *)

(* The values to encode, and the bytes of none, begin as text.             *)
LEMMA InitTextual ==
  ASSUME Init
  PROVE  TextInv
<1>1. PICK t \in Types :
        type = t /\ \/ phase = "held" /\ value \in Samples[t]
                    \/ phase = "sent" /\ value = Fresh(t)
  BY DEF Init
<1>2. Textual(t, value)
  BY <1>1, ValuesAssumption, ValueIsTextual, FreshIsTextual
<1>3. QED
  BY <1>1, <1>2 DEF TextInv

(* Every step keeps the invariant.                                         *)
LEMMA NextTextual ==
  ASSUME TextInv, [Next]_vars
  PROVE  TextInv'
<1>1. CASE UNCHANGED vars
  BY <1>1 DEF vars, TextInv
<1>2. CASE Next
  BY <1>2, HoldKeeps, DecodeAtOnceKeeps, BorrowKeeps, CopyKeeps, BeginKeeps,
     FieldsKeep DEF Next
<1>3. QED
  BY <1>1, <1>2

(* Whatever is decoded into whatever, and wherever a Buf panics, each      *)
(* value out of the copying loop holds text where its type has a string.   *)
THEOREM ValuesTextInvariant == Spec => []TextInv
<1>1. Init => TextInv
  BY InitTextual
<1>2. TextInv /\ [Next]_vars => TextInv'
  BY NextTextual
<1>3. QED
  BY <1>1, <1>2, PTL DEF Spec

(* A string, alone or in a pair or a range, is text in every state where   *)
(* the program can see it: the bytes are put in before they are checked,   *)
(* and the drop guard of general.rs takes them out on every other way.     *)
THEOREM ValuesStringsStayText == Spec => []StringsStayText
<1>1. TextInv => StringsStayText
  BY DEF TextInv, Textual, StringsStayText, Nested
<1>2. QED
  BY <1>1, ValuesTextInvariant, PTL

-----------------------------------------------------------------------------
(* Numbers of fixed width.                                                 *)

(* A byte is below the number of bytes.                                    *)
LEMMA BaseFacts ==
  /\ Base \in Nat \ {0} /\ Base >= 16
  /\ \A b : b \in Byte <=> b \in 0 .. Base - 1
BY WireAssumption DEF Base, Byte

(* The places of fixed numbers are the powers of the number of bytes.      *)
LEMMA PlaceDef ==
  /\ Place \in [Nat -> Nat]
  /\ Place[0] = 1
  /\ \A n \in Nat \ {0} : Place[n] = Place[n - 1] * Base
<1> DEFINE step == [p \in Nat \X Nat |-> p[1] * Base]
<1>1. step \in [Nat \X Nat -> Nat]
  BY BaseFacts
<1>2. PICK g : Recursive(g, Nat, 1, step)
  <2> HIDE DEF step
  <2>1. QED
    BY <1>1, Recursion
<1>3. /\ g \in [Nat -> Nat] /\ g[0] = 1
      /\ \A i \in Nat \ {0} : g[i] = step[<<g[i - 1], i>>]
  BY <1>2 DEF Recursive
<1>4. \A i \in Nat \ {0} : g[i] = g[i - 1] * Base
  <2>1. \A i \in Nat \ {0} : i - 1 \in Nat /\ g[i - 1] \in Nat
    BY <1>3
  <2>2. QED
    BY <1>3, <2>1
<1>5. g = [n \in Nat |-> IF n = 0 THEN 1 ELSE g[n - 1] * Base]
  BY <1>3, <1>4
<1>6. Place = [n \in Nat |-> IF n = 0 THEN 1 ELSE Place[n - 1] * Base]
  BY <1>5 DEF Place
<1>7. Place[0] = 1 /\ \A n \in Nat \ {0} : Place[n] = Place[n - 1] * Base
  <2> HIDE DEF Place
  <2>1. QED
  BY <1>6
<1>8. ASSUME NEW n \in Nat
      PROVE  Place[n] \in Nat
  <2> DEFINE T == {i \in Nat : Place[i] \in Nat}
  <2>1. 0 \in T
    BY <1>7
  <2>2. ASSUME NEW i \in Nat, i \in T
        PROVE  i + 1 \in T
    <3>1. Place[i + 1] = Place[i] * Base
      BY <1>7
    <3>2. QED
      BY <2>2, <3>1, BaseFacts
  <2>3. Nat \subseteq T
    <3> HIDE DEF T
    <3>1. QED
      BY <2>1, <2>2, SetInduction
  <2>4. QED
    BY <2>3
<1>9. QED
  BY <1>6, <1>7, <1>8

(* What the first bytes of a fixed number add up to.                       *)
LEMMA PlaceSumsDef ==
  ASSUME NEW raw \in Seq(Byte)
  PROVE  /\ \A i \in 0 .. Len(raw) : PlaceSums(raw)[i] \in Nat
         /\ PlaceSums(raw)[0] = 0
         /\ \A i \in 1 .. Len(raw) :
              PlaceSums(raw)[i] = PlaceSums(raw)[i - 1] + raw[i] * Place[i - 1]
<1> DEFINE n == Len(raw)
           step == [p \in Nat \X Nat |->
                      IF p[2] \in 1 .. n THEN p[1] + raw[p[2]] * Place[p[2] - 1] ELSE 0]
           eq(h) == h = [i \in 0 .. n |->
                           IF i = 0 THEN 0 ELSE h[i - 1] + raw[i] * Place[i - 1]]
<1>1. n \in Nat /\ \A i \in 1 .. n : raw[i] \in Nat /\ Place[i - 1] \in Nat
  <2>1. n \in Nat /\ \A i \in 1 .. n : raw[i] \in Byte
    BY LenProperties, ElementOfSeq
  <2>2. \A i \in 1 .. n : i - 1 \in Nat
    BY <2>1
  <2>3. QED
    BY <2>1, <2>2, PlaceDef, ByteIsNat
<1>2. \A i \in 1 .. n : raw[i] * Place[i - 1] \in Nat
  BY <1>1
<1> HIDE DEF n
<1>3. step \in [Nat \X Nat -> Nat]
  BY <1>2
<1>4. PICK g : Recursive(g, Nat, 0, step)
  <2> HIDE DEF step
  <2>1. QED
    BY <1>3, Recursion
<1>5. /\ g \in [Nat -> Nat] /\ g[0] = 0
      /\ \A i \in Nat \ {0} : g[i] = step[<<g[i - 1], i>>]
  BY <1>4 DEF Recursive
<1>6. ASSUME NEW i \in 1 .. n
      PROVE  g[i] = g[i - 1] + raw[i] * Place[i - 1]
  <2>1. i \in Nat \ {0} /\ i - 1 \in Nat /\ g[i - 1] \in Nat
    BY <1>1, <1>5
  <2>2. g[i] = step[<<g[i - 1], i>>]
    BY <1>5, <2>1
  <2>3. QED
    BY <2>1, <2>2
<1> DEFINE h == [i \in 0 .. n |-> g[i]]
<1>7. ASSUME NEW i \in 0 .. n
      PROVE  h[i] = IF i = 0 THEN 0 ELSE h[i - 1] + raw[i] * Place[i - 1]
  <2>1. CASE i = 0
    BY <1>5, <2>1
  <2>2. CASE i # 0
    <3>1. i \in 1 .. n /\ i - 1 \in 0 .. n
      BY <1>1, <2>2
    <3>2. QED
      BY <1>6, <3>1
  <2>3. QED
    BY <2>1, <2>2
<1>8. eq(h)
  <2>1. h = [i \in 0 .. n |-> h[i]]
    OBVIOUS
  <2> HIDE DEF h
  <2>2. QED
    BY <1>7, <2>1
<1> DEFINE s == PlaceSums(raw)
<1>9. s = [i \in 0 .. n |-> IF i = 0 THEN 0 ELSE s[i - 1] + raw[i] * Place[i - 1]]
  <2> HIDE DEF h
  <2>1. QED
    BY <1>8 DEF PlaceSums, n
<1> HIDE DEF s
<1>10. ASSUME NEW i \in 0 .. n
       PROVE  s[i] = IF i = 0 THEN 0 ELSE s[i - 1] + raw[i] * Place[i - 1]
  BY <1>9
<1>11. 0 .. n \subseteq {i \in 0 .. n : s[i] \in Nat}
  <2> DEFINE T == {i \in 0 .. n : s[i] \in Nat}
  <2>1. 0 <= n => 0 \in T
    BY <1>10
  <2>2. ASSUME NEW i \in 0 .. n - 1, i \in T
        PROVE  i + 1 \in T
    <3>1. i + 1 \in 1 .. n /\ i + 1 \in 0 .. n /\ (i + 1) - 1 = i
      BY <1>1
    <3>2. s[i + 1] = s[i] + raw[i + 1] * Place[(i + 1) - 1]
      BY <1>10, <3>1
    <3>3. QED
      BY <1>2, <2>2, <3>1, <3>2
  <2>3. 0 .. n \subseteq T
    <3>1. 0 \in Int /\ n \in Int
      BY <1>1
    <3> HIDE DEF T
    <3>2. QED
      BY <2>1, <2>2, <3>1, IntervalInduction
  <2>4. QED
    BY <2>3
<1>12. /\ s[0] = 0
       /\ \A i \in 1 .. n : s[i] = s[i - 1] + raw[i] * Place[i - 1]
  BY <1>1, <1>10
<1>13. QED
  BY <1>11, <1>12 DEF s, n

(* A place is at least one.                                                *)
LEMMA PlacePositive ==
  ASSUME NEW n \in Nat
  PROVE  Place[n] \in Nat \ {0}
<1> DEFINE T == {i \in Nat : Place[i] \in Nat \ {0}}
<1>1. 0 \in T
  BY PlaceDef
<1>2. ASSUME NEW i \in Nat, i \in T
      PROVE  i + 1 \in T
  <2>1. Place[i + 1] = Place[i] * Base
    BY PlaceDef
  <2>2. Place[i] \in Nat \ {0} /\ Base \in Nat \ {0}
    BY <1>2, BaseFacts
  <2>3. \A a, b \in Nat \ {0} : a * b \in Nat \ {0}
    OBVIOUS
  <2> QED
    BY <2>1, <2>2, <2>3
<1>3. Nat \subseteq T
  <2> HIDE DEF T
  <2> QED
    BY <1>1, <1>2, SetInduction
<1> QED
  BY <1>3

(* The first bytes add up to less than the next one counts for.            *)
LEMMA PlaceSumsBound ==
  ASSUME NEW raw \in Seq(Byte), NEW n \in 0 .. Len(raw)
  PROVE  PlaceSums(raw)[n] \in 0 .. Place[n] - 1
<1> DEFINE s == PlaceSums(raw)
           len == Len(raw)
           T == {i \in 0 .. len : s[i] \in 0 .. Place[i] - 1}
<1>1. /\ len \in Nat /\ s[0] = 0
      /\ \A i \in 1 .. len : s[i] = s[i - 1] + raw[i] * Place[i - 1]
  BY PlaceSumsDef, LenProperties
<1>2. 0 \in T
  BY <1>1, PlaceDef
<1> HIDE DEF s, len
<1>3. ASSUME NEW i \in 0 .. len - 1, i \in T
      PROVE  i + 1 \in T
  <2>1. i + 1 \in 1 .. len /\ i \in Nat /\ i + 1 \in 0 .. len /\ (i + 1) - 1 = i
    BY <1>1
  <2>2. s[i + 1] = s[i] + raw[i + 1] * Place[i]
    BY <1>1, <2>1
  <2>3. raw[i + 1] \in 0 .. Base - 1
    BY <2>1, ElementOfSeq, BaseFacts DEF len
  <2>4. Place[i + 1] = Place[i] * Base /\ Place[i] \in Nat \ {0}
    BY <2>1, PlaceDef, PlacePositive
  <2>5. s[i] \in 0 .. Place[i] - 1
    BY <1>3
  <2>6. \A p, c \in Nat : \A b \in 0 .. c - 1 : \A r \in 0 .. p - 1 :
          r + b * p \in 0 .. p * c - 1
    <3>1. SUFFICES ASSUME NEW p \in Nat, NEW c \in Nat, NEW b \in 0 .. c - 1,
                          NEW r \in 0 .. p - 1
                   PROVE  r + b * p \in 0 .. p * c - 1
      OBVIOUS
    <3>2. (b + 1) * p <= c * p
      BY Monotone
    <3>3. (b + 1) * p = b * p + p /\ b * p \in Nat /\ c * p = p * c /\ p * c \in Nat
      OBVIOUS
    <3> QED
      BY <3>2, <3>3
  <2>7. s[i] + raw[i + 1] * Place[i] \in 0 .. Place[i] * Base - 1
    <3>1. Place[i] \in Nat /\ Base \in Nat
      BY <2>4, BaseFacts
    <3>2. \A b \in 0 .. Base - 1 : \A r \in 0 .. Place[i] - 1 :
            r + b * Place[i] \in 0 .. Place[i] * Base - 1
      BY ONLY <2>6, <3>1
    <3> QED
      BY ONLY <2>3, <2>5, <3>2
  <2>8. s[i + 1] \in 0 .. Place[i + 1] - 1
    BY ONLY <2>2, <2>4, <2>7
  <2> QED
    BY <2>1, <2>8
<1>4. 0 .. len \subseteq T
  <2>1. 0 \in Int /\ len \in Int
    BY <1>1
  <2> HIDE DEF T
  <2> QED
    BY <1>2, <1>3, <2>1, IntervalInduction
<1> QED
  BY <1>4 DEF s, len

(* What a number is encoded as adds up to it.                              *)
LEMMA LittleEndianIs ==
  ASSUME NEW width \in Nat, NEW v \in 0 .. Place[width] - 1
  PROVE  /\ LittleEndian(v, width) \in Seq(Byte)
         /\ Len(LittleEndian(v, width)) = width
         /\ FromLittleEndian(LittleEndian(v, width)) = v
<1> DEFINE e == LittleEndian(v, width)
           s == PlaceSums(e)
           T == {i \in 0 .. width : v = (v \div Place[i]) * Place[i] + s[i]}
<1>0. v \in Nat
  BY PlacePositive
<1>1. \A i \in 1 .. width : e[i] = (v \div Place[i - 1]) % Base
  BY DEF LittleEndian
<1>2. \A i \in 1 .. width : (v \div Place[i - 1]) % Base \in Byte
  <2> TAKE i \in 1 .. width
  <2>1. Place[i - 1] \in Nat \ {0}
    BY PlacePositive
  <2>2. v \div Place[i - 1] \in Nat
    BY <1>0, <2>1, Divide
  <2> QED
    BY <2>2, BaseFacts, Divide
<1>3. e \in [1 .. width -> Byte]
  BY <1>2 DEF LittleEndian
<1> HIDE DEF e
<1>4. e \in Seq(Byte) /\ Len(e) = width
  BY <1>3, FunctionIsSeq
<1>5. s[0] = 0 /\ \A i \in 1 .. width : s[i] = s[i - 1] + e[i] * Place[i - 1]
  BY <1>4, PlaceSumsDef
<1>6. \A i \in 0 .. width : s[i] \in 0 .. Place[i] - 1
  BY <1>4, PlaceSumsBound
<1> HIDE DEF s
<1>7. 0 \in T
  <2>1. v \div 1 = v
    BY <1>0
  <2> QED
    BY <1>0, <1>5, <2>1, PlaceDef
<1>8. ASSUME NEW i \in 0 .. width - 1, i \in T
      PROVE  i + 1 \in T
  <2> DEFINE p == Place[i]
             q == v \div p
             d == q % Base
             c == q \div Base
  <2>1. i + 1 \in 1 .. width /\ i \in Nat /\ i \in 0 .. width /\ i + 1 \in 0 .. width
        /\ (i + 1) - 1 = i
    OBVIOUS
  <2>2. p \in Nat \ {0} /\ Place[i + 1] = p * Base
    BY <2>1, PlacePositive, PlaceDef
  <2>3. q \in Nat /\ v = q * p + s[i]
    <3>1. q \in Nat
      BY <1>0, <2>2, Divide
    <3> QED
      BY <1>8, <3>1
  <2>4. s[i + 1] = s[i] + d * p
    BY <1>1, <1>5, <2>1
  <2> HIDE DEF p, q
  <2>5. q = c * Base + d /\ c \in Nat /\ d \in Nat
    <3>1. Base \in Nat \ {0} /\ q \in Nat
      BY <2>3, BaseFacts
    <3>2. /\ q \div Base \in Nat /\ q % Base \in 0 .. Base - 1
          /\ q = (q \div Base) * Base + (q % Base)
      BY ONLY <3>1, Divide
    <3> QED
      BY ONLY <3>1, <3>2 DEF c, d
  <2> HIDE DEF c, d
  <2>6. v = c * Place[i + 1] + s[i + 1]
    <3>1. s[i] \in Nat
      BY <1>6, <2>1
    <3>2. (c * Base + d) * p = (c * Base) * p + d * p
      BY <2>2, <2>5, BaseFacts, Factor
    <3>3. (c * Base) * p = c * (p * Base)
      BY <2>2, <2>5, BaseFacts
    <3>4. c * (p * Base) \in Nat /\ d * p \in Nat
      BY <2>2, <2>5, BaseFacts
    <3> QED
      BY <2>2, <2>3, <2>4, <2>5, <3>1, <3>2, <3>3, <3>4
  <2>7. v \div Place[i + 1] = c
    <3>1. Place[i + 1] \in Nat \ {0} /\ s[i + 1] \in 0 .. Place[i + 1] - 1
      BY <1>6, <2>1, PlacePositive
    <3> DEFINE big == Place[i + 1]
               low == s[i + 1]
    <3>2. /\ big \in Nat \ {0} /\ low \in 0 .. big - 1 /\ c \in Int
          /\ v = c * big + low /\ c * big + low \in Nat
      BY <1>0, <2>5, <2>6, <3>1
    <3> HIDE DEF big, low
    <3>3. (c * big + low) \div big = c
      BY ONLY <3>2, DivideUnique
    <3> QED
      BY <3>2, <3>3 DEF big
  <2> QED
    BY <2>1, <2>6, <2>7
<1>9. 0 .. width \subseteq T
  <2> HIDE DEF T
  <2> QED
    BY <1>7, <1>8, IntervalInduction
<1>10. v = (v \div Place[width]) * Place[width] + s[width]
  BY <1>9
<1>11. v \div Place[width] = 0
  BY <1>0, PlacePositive
<1> QED
  BY <1>0, <1>4, <1>6, <1>10, <1>11, PlacePositive DEF FromLittleEndian, e, s

(* Bytes that add up to the same are the same bytes.                       *)
LEMMA PlaceSumsUnique ==
  ASSUME NEW a \in Seq(Byte), NEW b \in Seq(Byte), Len(a) = Len(b),
         FromLittleEndian(a) = FromLittleEndian(b)
  PROVE  a = b
<1> DEFINE s == PlaceSums(a)
           t == PlaceSums(b)
           n == Len(a)
           T == {k \in 0 .. n : s[n - k] = t[n - k]}
<1>1. n \in Nat
  BY LenProperties
<1>2. /\ \A i \in 1 .. n : s[i] = s[i - 1] + a[i] * Place[i - 1]
      /\ \A i \in 1 .. n : t[i] = t[i - 1] + b[i] * Place[i - 1]
  BY PlaceSumsDef
<1>3. \A i \in 0 .. n : s[i] \in 0 .. Place[i] - 1 /\ t[i] \in 0 .. Place[i] - 1
  BY PlaceSumsBound
<1>4. \A i \in 1 .. n : a[i] \in Nat /\ b[i] \in Nat
  BY ElementOfSeq, ByteIsNat
<1>5. 0 \in T
  BY <1>1 DEF FromLittleEndian
<1> HIDE DEF s, t, n
<1>6. ASSUME NEW i \in 1 .. n, s[i] = t[i]
      PROVE  s[i - 1] = t[i - 1] /\ a[i] = b[i]
  <2> DEFINE p == Place[i - 1]
  <2>1. p \in Nat \ {0} /\ i - 1 \in 0 .. n
    BY <1>1, PlacePositive
  <2>2. s[i - 1] \in 0 .. p - 1 /\ t[i - 1] \in 0 .. p - 1
    BY <1>3, <2>1
  <2> DEFINE x == a[i]
             y == b[i]
             u == s[i - 1]
             w == t[i - 1]
  <2>3. x \in Nat /\ y \in Nat
    BY <1>4
  <2>4. x * p + u = y * p + w
    <3>1. x * p \in Nat /\ y * p \in Nat
      BY <2>1, <2>3
    <3>2. s[i] = u + x * p /\ t[i] = w + y * p
      BY <1>2
    <3> HIDE DEF p, x, y, u, w
    <3>3. u \in Nat /\ w \in Nat
      BY <2>1, <2>2 DEF u, w
    <3>4. u + x * p = w + y * p
      BY <1>6, <3>2
    <3>5. \A j, k, l, m \in Nat : j + k = l + m => k + j = m + l
      OBVIOUS
    <3> QED
      BY ONLY <3>1, <3>3, <3>4, <3>5
  <2> HIDE DEF p, x, y, u, w
  <2>5. u \in 0 .. p - 1 /\ w \in 0 .. p - 1
    BY <2>2 DEF u, w
  <2>6. x * p + u \in Nat /\ y * p + w \in Nat /\ x \in Int /\ y \in Int
    BY <2>1, <2>3, <2>5
  <2>7. (x * p + u) \div p = x /\ (x * p + u) % p = u
    BY ONLY <2>1, <2>5, <2>6, DivideUnique
  <2>8. (y * p + w) \div p = y /\ (y * p + w) % p = w
    BY ONLY <2>1, <2>5, <2>6, DivideUnique
  <2> QED
    BY <2>4, <2>7, <2>8 DEF x, y, u, w
<1>7. ASSUME NEW k \in 0 .. n - 1, k \in T
      PROVE  k + 1 \in T
  <2>1. n - k \in 1 .. n /\ (n - k) - 1 = n - (k + 1) /\ k + 1 \in 0 .. n
    BY <1>1
  <2> QED
    BY <1>6, <1>7, <2>1
<1>8. 0 .. n \subseteq T
  <2> HIDE DEF T
  <2> QED
    BY <1>1, <1>5, <1>7, IntervalInduction
<1>9. \A i \in 1 .. n : a[i] = b[i]
  <2> TAKE i \in 1 .. n
  <2>1. n - i \in 0 .. n /\ n - (n - i) = i
    BY <1>1
  <2>2. s[i] = t[i]
    BY <1>8, <2>1
  <2> QED
    BY <1>6, <2>2
<1> QED
  BY <1>9, SeqEqual DEF n

(* What bytes add up to is encoded as them.                                *)
LEMMA FromLittleEndianIs ==
  ASSUME NEW raw \in Seq(Byte)
  PROVE  /\ FromLittleEndian(raw) \in 0 .. Place[Len(raw)] - 1
         /\ LittleEndian(FromLittleEndian(raw), Len(raw)) = raw
<1>1. Len(raw) \in Nat /\ Len(raw) \in 0 .. Len(raw)
  BY LenProperties
<1>2. FromLittleEndian(raw) \in 0 .. Place[Len(raw)] - 1
  BY <1>1, PlaceSumsBound DEF FromLittleEndian
<1> QED
  BY <1>1, <1>2, LittleEndianIs, PlaceSumsUnique

-----------------------------------------------------------------------------
(* Where bytes lie among others.                                           *)

(* The bytes of code lie behind the first p of bytes.                      *)
Lies(code, p, raw) ==
  /\ p + Len(code) <= Len(raw)
  /\ \A i \in 1 .. Len(code) : raw[p + i] = code[i]

(* A run of bytes and where it lies.                                       *)
LEMMA SliceIs ==
  ASSUME NEW raw \in Seq(Byte), NEW m \in Nat, NEW n \in Int, n <= Len(raw)
  PROVE  /\ SubSeq(raw, m + 1, n) \in Seq(Byte)
         /\ m <= n => Len(SubSeq(raw, m + 1, n)) = n - m
         /\ n <= m => SubSeq(raw, m + 1, n) = <<>>
         /\ \A i \in 1 .. n - m : SubSeq(raw, m + 1, n)[i] = raw[m + i]
<1>1. Len(raw) \in Nat /\ \A i \in m + 1 .. n : raw[i] \in Byte
  BY LenProperties, ElementOfSeq
<1>2. /\ SubSeq(raw, m + 1, n) \in Seq(Byte)
      /\ Len(SubSeq(raw, m + 1, n)) = IF m + 1 <= n THEN n - (m + 1) + 1 ELSE 0
      /\ \A i \in 1 .. n - (m + 1) + 1 :
           SubSeq(raw, m + 1, n)[i] = raw[(m + 1) + i - 1]
  BY <1>1, SubSeqProperties
<1>3. n <= m => SubSeq(raw, m + 1, n) = <<>>
  BY SubSeqEmpty
<1>4. m <= n => Len(SubSeq(raw, m + 1, n)) = n - m
  BY <1>2
<1>5. ASSUME NEW i \in 1 .. n - m
      PROVE  SubSeq(raw, m + 1, n)[i] = raw[m + i]
  <2>1. i \in 1 .. n - (m + 1) + 1 /\ (m + 1) + i - 1 = m + i
    OBVIOUS
  <2> QED
    BY <1>2, <2>1
<1> QED
  BY <1>2, <1>3, <1>4, <1>5

(* Bytes lie where the part of the buffer that is as long is equal to      *)
(* them.                                                                   *)
LEMMA LiesIs ==
  ASSUME NEW raw \in Seq(Byte), NEW code \in Seq(Byte), NEW p \in Nat
  PROVE  Lies(code, p, raw) <=>
           /\ p + Len(code) <= Len(raw)
           /\ SubSeq(raw, p + 1, p + Len(code)) = code
<1> SUFFICES ASSUME p + Len(code) <= Len(raw)
             PROVE  (\A i \in 1 .. Len(code) : raw[p + i] = code[i]) <=>
                    SubSeq(raw, p + 1, p + Len(code)) = code
  BY DEF Lies
<1> DEFINE part == SubSeq(raw, p + 1, p + Len(code))
<1>1. Len(code) \in Nat
  BY LenProperties
<1>2. /\ part \in Seq(Byte) /\ Len(part) = Len(code)
      /\ \A i \in 1 .. Len(code) : part[i] = raw[p + i]
  <2> DEFINE n == p + Len(code)
  <2>1. n \in Int /\ n - p = Len(code) /\ p <= n /\ n <= Len(raw)
    BY <1>1
  <2> HIDE DEF n
  <2>2. /\ SubSeq(raw, p + 1, n) \in Seq(Byte)
        /\ p <= n => Len(SubSeq(raw, p + 1, n)) = n - p
        /\ \A i \in 1 .. n - p : SubSeq(raw, p + 1, n)[i] = raw[p + i]
    BY <2>1, SliceIs
  <2> QED
    BY <2>1, <2>2 DEF n
<1> HIDE DEF part
<1>3. (\A i \in 1 .. Len(code) : raw[p + i] = code[i]) => part = code
  BY <1>2, SeqEqual
<1> QED
  BY <1>2, <1>3 DEF part

(* One after the other.                                                    *)
LEMMA LiesBoth ==
  ASSUME NEW raw \in Seq(Byte), NEW a \in Seq(Byte), NEW b \in Seq(Byte), NEW p \in Nat
  PROVE  Lies(a \o b, p, raw) <=> Lies(a, p, raw) /\ Lies(b, p + Len(a), raw)
<1> DEFINE j == Len(a)
           k == Len(b)
           n == Len(raw)
<1>1. j \in Nat /\ k \in Nat /\ n \in Nat
  BY LenProperties
<1>2. /\ Len(a \o b) = j + k
      /\ \A i \in 1 .. j + k : (a \o b)[i] = IF i <= j THEN a[i] ELSE b[i - j]
  BY ConcatProperties
<1> DEFINE c == a \o b
<1> HIDE DEF j, k, n, c
<1>3. Lies(c, p, raw) <=>
        p + (j + k) <= n /\ \A i \in 1 .. j + k : raw[p + i] = c[i]
  BY <1>2 DEF Lies, c, n
<1>4. /\ Lies(a, p, raw) <=> p + j <= n /\ \A i \in 1 .. j : raw[p + i] = a[i]
      /\ Lies(b, p + j, raw) <=>
           (p + j) + k <= n /\ \A i \in 1 .. k : raw[(p + j) + i] = b[i]
  BY DEF Lies, j, k, n
<1>5. /\ \A i \in 1 .. j : i \in 1 .. j + k /\ c[i] = a[i]
      /\ \A i \in 1 .. k : /\ j + i \in 1 .. j + k /\ c[j + i] = b[i]
                           /\ p + (j + i) = (p + j) + i
  <2>1. ASSUME NEW i \in 1 .. j
        PROVE  i \in 1 .. j + k /\ c[i] = a[i]
    <3>1. i \in 1 .. j + k /\ i <= j
      BY <1>1
    <3> QED
      BY <1>2, <3>1 DEF c
  <2>2. ASSUME NEW i \in 1 .. k
        PROVE  /\ j + i \in 1 .. j + k /\ c[j + i] = b[i]
               /\ p + (j + i) = (p + j) + i
    <3>1. /\ j + i \in 1 .. j + k /\ ~ (j + i <= j) /\ (j + i) - j = i
          /\ p + (j + i) = (p + j) + i
      BY <1>1
    <3> QED
      BY <1>2, <3>1 DEF c
  <2> QED
    BY <2>1, <2>2
<1>6. ASSUME NEW i \in 1 .. j + k
      PROVE  i \in 1 .. j \/ \E m \in 1 .. k : i = j + m
  <2>1. CASE i <= j
    BY <1>1, <2>1
  <2>2. CASE ~ (i <= j)
    <3>1. i - j \in 1 .. k /\ i = j + (i - j)
      BY <1>1, <2>2
    <3> QED
      BY <3>1
  <2> QED
    BY <2>1, <2>2
<1>7. (\A i \in 1 .. j + k : raw[p + i] = c[i]) <=>
        /\ \A i \in 1 .. j : raw[p + i] = a[i]
        /\ \A i \in 1 .. k : raw[(p + j) + i] = b[i]
  <2>1. ASSUME \A i \in 1 .. j + k : raw[p + i] = c[i]
        PROVE  /\ \A i \in 1 .. j : raw[p + i] = a[i]
               /\ \A i \in 1 .. k : raw[(p + j) + i] = b[i]
    <3>1. ASSUME NEW i \in 1 .. j
          PROVE  raw[p + i] = a[i]
      <4>1. i \in 1 .. j + k /\ c[i] = a[i]
        BY ONLY <1>5, i \in 1 .. j
      <4> QED
        BY ONLY <2>1, <4>1
    <3>2. ASSUME NEW i \in 1 .. k
          PROVE  raw[(p + j) + i] = b[i]
      <4>1. j + i \in 1 .. j + k /\ c[j + i] = b[i] /\ p + (j + i) = (p + j) + i
        BY ONLY <1>5, i \in 1 .. k
      <4>2. raw[p + (j + i)] = c[j + i]
        BY ONLY <2>1, <4>1
      <4> QED
        BY ONLY <4>1, <4>2
    <3> QED
      BY ONLY <3>1, <3>2
  <2>2. ASSUME \A i \in 1 .. j : raw[p + i] = a[i],
               \A i \in 1 .. k : raw[(p + j) + i] = b[i],
               NEW i \in 1 .. j + k
        PROVE  raw[p + i] = c[i]
    <3>1. CASE i \in 1 .. j
      <4>1. c[i] = a[i]
        BY ONLY <1>5, <3>1
      <4> QED
        BY ONLY <2>2, <3>1, <4>1
    <3>2. ASSUME NEW m \in 1 .. k, i = j + m
          PROVE  raw[p + i] = c[i]
      <4>1. c[j + m] = b[m] /\ p + (j + m) = (p + j) + m
        BY ONLY <1>5, m \in 1 .. k
      <4>2. raw[(p + j) + m] = b[m]
        BY ONLY <2>2, m \in 1 .. k
      <4> QED
        BY ONLY <3>2, <4>1, <4>2
    <3> QED
      BY <1>6, <3>1, <3>2
  <2> QED
    BY ONLY <2>1, <2>2
<1>8. p + (j + k) <= n <=> p + j <= n /\ (p + j) + k <= n
  BY <1>1
<1> QED
  BY <1>3, <1>4, <1>7, <1>8 DEF c, j

(* What is left of the bytes behind a place.                               *)
LEMMA LiesBehind ==
  ASSUME NEW raw \in Seq(Byte), NEW code \in Seq(Byte),
         NEW p \in Nat, NEW q \in Nat, p <= Len(raw)
  PROVE  Lies(code, q, SubSeq(raw, p + 1, Len(raw))) <=> Lies(code, p + q, raw)
<1> DEFINE rest == SubSeq(raw, p + 1, Len(raw))
           n == Len(raw)
           k == Len(code)
<1>1. n \in Nat /\ k \in Nat
  BY LenProperties
<1>2. Len(rest) = n - p /\ \A i \in 1 .. n - p : rest[i] = raw[p + i]
  BY <1>1, SliceIs
<1> HIDE DEF rest, n, k
<1>3. q + k <= n - p <=> (p + q) + k <= n
  BY <1>1
<1>4. ASSUME q + k <= n - p, NEW i \in 1 .. k
      PROVE  rest[q + i] = raw[(p + q) + i]
  <2>1. q + i \in 1 .. n - p /\ p + (q + i) = (p + q) + i
    BY <1>1, <1>4
  <2> QED
    BY <1>2, <2>1
<1> QED
  BY <1>2, <1>3, <1>4 DEF Lies, rest, n, k

(* What lies in the first so many bytes.                                   *)
LEMMA LiesWithin ==
  ASSUME NEW raw \in Seq(Byte), NEW code \in Seq(Byte), NEW cap \in Int,
         cap <= Len(raw), Len(code) > 0
  PROVE  Lies(code, 0, SubSeq(raw, 1, cap)) <=>
           Len(code) <= cap /\ Lies(code, 0, raw)
<1> DEFINE part == SubSeq(raw, 1, cap)
           n == Len(raw)
           k == Len(code)
<1>1. n \in Nat /\ k \in Nat /\ Len(<<>>) = 0 /\ 0 + 1 = 1 /\ cap - 0 = cap
  BY LenProperties
<1>2. /\ 0 <= cap => Len(part) = cap
      /\ cap <= 0 => part = <<>>
      /\ \A i \in 1 .. cap : part[i] = raw[0 + i]
  BY <1>1, SliceIs
<1> HIDE DEF part, n, k
<1>3. ASSUME k <= cap
      PROVE  \A i \in 1 .. k : part[0 + i] = raw[0 + i]
  <2> TAKE i \in 1 .. k
  <2>1. i \in 1 .. cap /\ 0 + i = i
    BY <1>1, <1>3
  <2> QED
    BY <1>2, <2>1
<1>4. CASE k <= cap
  <2>1. 0 <= cap /\ 0 + k <= cap /\ 0 + k <= n
    BY <1>1, <1>4 DEF n
  <2> QED
    BY <1>2, <1>3, <1>4, <2>1 DEF Lies, part, n, k
<1>5. CASE ~ (k <= cap)
  <2>1. ~ (0 + k <= Len(part))
    <3>1. k > 0
      BY DEF k
    <3> QED
      BY <1>1, <1>2, <1>5, <3>1
  <2> QED
    BY <1>5, <2>1 DEF Lies, part, k
<1> QED
  BY <1>4, <1>5

-----------------------------------------------------------------------------
(* Varints among other bytes.                                              *)

(* A varint that lies at the start is decoded, whatever follows.           *)
LEMMA VarintLies ==
  ASSUME NEW v \in 0 .. VarintRange - 1, NEW raw \in Seq(Byte),
         Lies(EncodeVarint(v), 0, raw)
  PROVE  DecodeVarint(raw) =
           [error |-> "none", value |-> v, used |-> Len(EncodeVarint(v))]
<1> DEFINE len == EncodedLenVarint(v)
           e == EncodeVarint(v)
<1>1. v \in Nat
  BY RangeFacts
<1>2. len \in Nat
  BY <1>1, LengthIs
<1>3. Len(e) = len /\ len \in 1 .. MaxVarint
  BY <1>2, EncodedBytes
<1>4. len <= Len(raw) /\ \A i \in 1 .. len : raw[i] = e[i]
  <2>1. 0 + len = len /\ \A i \in 1 .. len : 0 + i = i
    BY <1>2
  <2> QED
    BY <1>3, <2>1 DEF Lies
<1>5. DecodeVarint(raw) = [error |-> "none", value |-> v, used |-> len]
  BY <1>2, <1>4, DecodesPrefix
<1> QED
  BY <1>3, <1>5

(* Its bytes.                                                              *)
LEMMA VarintCode ==
  ASSUME NEW v \in 0 .. VarintRange - 1
  PROVE  /\ EncodeVarint(v) \in Seq(Byte)
         /\ Len(EncodeVarint(v)) = EncodedLenVarint(v)
         /\ Len(EncodeVarint(v)) \in Nat \ {0}
<1>1. v \in Nat
  BY RangeFacts
<1>2. EncodedLenVarint(v) \in Nat
  BY <1>1, LengthIs
<1>3. /\ EncodeVarint(v) \in Seq(Byte)
      /\ Len(EncodeVarint(v)) = EncodedLenVarint(v)
      /\ EncodedLenVarint(v) \in 1 .. MaxVarint
  BY <1>2, EncodedBytes
<1> QED
  BY <1>3

(* What is read of a varint lies there.                                    *)
LEMMA VarintRead ==
  ASSUME NEW raw \in Seq(Byte)
  PROVE  LET read == DecodeVarint(raw) IN
           /\ read.value \in Nat /\ read.used \in 0 .. Len(raw)
           /\ read.error = "none" =>
                /\ read.value \in 0 .. VarintRange - 1
                /\ read.used = Len(EncodeVarint(read.value))
                /\ Lies(EncodeVarint(read.value), 0, raw)
<1> DEFINE read == DecodeVarint(raw)
<1>1. CASE VarintEnds(raw) = {}
  <2>1. read = [error |-> "Truncated", value |-> 0, used |-> Len(raw)]
    BY <1>1 DEF DecodeVarint
  <2> HIDE DEF read
  <2>2. read.error # "none" /\ read.value = 0 /\ read.used = Len(raw)
    BY <2>1
  <2> QED
    BY <2>2, LenProperties DEF read
<1>2. CASE VarintEnds(raw) # {}
  <2>1. PICK n \in VarintEnds(raw) : TRUE
    BY <1>2
  <2>2. n \in 1 .. Len(raw)
    BY <2>1, EndUnique
  <2>3. read = [error |-> IF Sums(raw)[n] < VarintRange THEN "none" ELSE "InvalidVarint",
                value |-> Sums(raw)[n], used |-> n]
    BY <2>1, DecodedAt
  <2>4. Sums(raw)[n] \in Nat
    BY <2>2, SumsDef, LenProperties
  <2> HIDE DEF read
  <2>5. /\ read.value = Sums(raw)[n] /\ read.used = n
        /\ read.error = "none" => Sums(raw)[n] < VarintRange
    BY <2>3
  <2>6. ASSUME read.error = "none"
        PROVE  /\ read.value \in 0 .. VarintRange - 1
               /\ read.used = Len(EncodeVarint(read.value))
               /\ Lies(EncodeVarint(read.value), 0, raw)
    <3>1. read.value \in 0 .. VarintRange - 1
      BY <2>4, <2>5, <2>6, RangeFacts
    <3>2. EncodeVarint(read.value) = SubSeq(raw, 1, read.used)
      BY <2>6, VarintsAreBijective DEF read
    <3>3. EncodeVarint(read.value) \in Seq(Byte)
      BY <3>1, VarintCode
    <3>4. Len(SubSeq(raw, 1, n)) = n
      <4>1. n \in Int /\ n <= Len(raw) /\ 0 <= n /\ n - 0 = n /\ 0 + 1 = 1
        BY <2>2, LenProperties
      <4> QED
        BY <4>1, SliceIs
    <3>5. Len(EncodeVarint(read.value)) = n /\ 0 + n = n /\ 0 + 1 = 1 /\ n <= Len(raw)
      BY <2>2, <2>5, <3>2, <3>4
    <3> QED
      BY <2>5, <3>1, <3>2, <3>3, <3>5, LiesIs
  <2> QED
    BY <2>2, <2>4, <2>5, <2>6, LenProperties DEF read
<1> QED
  BY <1>1, <1>2

-----------------------------------------------------------------------------
(* Numbers and the unsigned ones they are encoded as.                      *)

Unsigned(t, number) ==
  IF t.wire # Varint THEN number % t.size
  ELSE IF t.signed THEN ZigZag(number) ELSE number

(* Quotient and rest of any integer.                                       *)
LEMMA DivideInteger ==
  ASSUME NEW v \in Int, NEW d \in Nat \ {0}
  PROVE  v % d \in 0 .. d - 1 /\ v = d * (v \div d) + (v % d) /\ v \div d \in Int
OBVIOUS

(* Half of an even number.                                                 *)
LEMMA Halves ==
  ASSUME NEW n \in Nat, n % 2 = 0
  PROVE  n \div 2 \in Nat /\ n = 2 * (n \div 2)
<1>1. n \div 2 \in Nat /\ n = (n \div 2) * 2 + (n % 2)
  BY Divide
<1> QED
  BY <1>1

(* What is known of a type of numbers.                                     *)
LEMMA NumberType ==
  ASSUME NEW t, IsSimple(t), t.form = "number"
  PROVE  /\ t.signed \in BOOLEAN /\ t.nonzero \in BOOLEAN
         /\ t.size \in Nat /\ t.size >= 2
         /\ t.size \div 2 \in Nat /\ t.size = 2 * (t.size \div 2)
         /\ Lowest(t) = IF t.signed THEN -(t.size \div 2) ELSE 0
         /\ t.nonzero => t.size > 2
         /\ t.wire \in {Varint, ThirtyTwoBit, SixtyFourBit}
         /\ t.wire = Varint => t.size <= VarintRange
         /\ t.wire # Varint => t.size = Place[FixedWidth[t.wire]]
<1>1. Varint # ThirtyTwoBit /\ Varint # SixtyFourBit
  BY DEF Varint, ThirtyTwoBit, SixtyFourBit
<1> QED
  BY <1>1, Halves DEF IsSimple, Lowest

(* The zigzag of a number within the range, and back.                      *)
LEMMA ZigZagIs ==
  ASSUME NEW h \in Nat, NEW n \in -h .. h - 1
  PROVE  ZigZag(n) \in 0 .. 2 * h - 1 /\ UnZigZag(ZigZag(n)) = n
<1>1. CASE n >= 0
  <2>1. ZigZag(n) = 2 * n
    BY <1>1 DEF ZigZag
  <2>2. (2 * n) % 2 = 0 /\ (2 * n) \div 2 = n
    <3>1. n * 2 + 0 = 2 * n /\ n \in Int /\ n * 2 + 0 \in Nat /\ 0 \in 0 .. 2 - 1 /\ 2 \in Nat \ {0}
      BY <1>1
    <3>2. (n * 2 + 0) \div 2 = n /\ (n * 2 + 0) % 2 = 0
      BY ONLY <3>1, DivideUnique
    <3> QED
      BY <3>1, <3>2
  <2> QED
    BY <1>1, <2>1, <2>2 DEF UnZigZag
<1>2. CASE n < 0
  <2> DEFINE m == -n - 1
  <2>1. ZigZag(n) = 2 * m + 1 /\ m \in Nat /\ m < h /\ n = -m - 1
    BY <1>2 DEF ZigZag
  <2> HIDE DEF m
  <2>2. (2 * m + 1) % 2 = 1 /\ (2 * m + 1) \div 2 = m
    <3>1. m * 2 + 1 = 2 * m + 1 /\ m \in Int /\ m * 2 + 1 \in Nat /\ 1 \in 0 .. 2 - 1 /\ 2 \in Nat \ {0}
      BY <2>1
    <3>2. (m * 2 + 1) \div 2 = m /\ (m * 2 + 1) % 2 = 1
      BY ONLY <3>1, DivideUnique
    <3> QED
      BY <3>1, <3>2
  <2> QED
    BY <2>1, <2>2 DEF UnZigZag
<1> QED
  BY <1>1, <1>2

(* ... and of each unsigned number there is one that it stands for.        *)
LEMMA UnZigZagIs ==
  ASSUME NEW h \in Nat, NEW u \in 0 .. 2 * h - 1
  PROVE  UnZigZag(u) \in -h .. h - 1 /\ ZigZag(UnZigZag(u)) = u
<1> DEFINE q == u \div 2
           r == u % 2
<1>1. q \in Nat /\ r \in 0 .. 1 /\ u = q * 2 + r
  <2>1. u \in Nat /\ 2 \in Nat \ {0}
    OBVIOUS
  <2> QED
    BY <2>1, Divide
<1>2. UnZigZag(u) = IF r = 0 THEN q ELSE -q - 1
  BY DEF UnZigZag
<1> HIDE DEF q, r
<1> QED
  BY <1>1, <1>2 DEF ZigZag

(* Each number is encoded as one of the unsigned ones, and each of those   *)
(* is the encoding of one.                                                 *)
LEMMA SignedIs ==
  ASSUME NEW t, IsSimple(t), t.form = "number",
         NEW n \in Lowest(t) .. Lowest(t) + t.size - 1
  PROVE  Unsigned(t, n) \in 0 .. t.size - 1 /\ Signed(t, Unsigned(t, n)) = n
<1> DEFINE h == t.size \div 2
<1>1. /\ t.signed \in BOOLEAN /\ t.size \in Nat /\ t.size >= 2 /\ h \in Nat
      /\ t.size = 2 * h /\ Lowest(t) = IF t.signed THEN -h ELSE 0
  BY NumberType
<1> HIDE DEF h
<1>2. CASE ~ t.signed
  <2>1. n \in 0 .. t.size - 1
    BY <1>1, <1>2
  <2>2. n % t.size = n
    <3>1. 0 * t.size + n = n /\ 0 \in Int /\ t.size \in Nat \ {0} /\ 0 * t.size + n \in Nat
      BY <1>1, <2>1
    <3> QED
      BY <2>1, <3>1, DivideUnique
  <2> QED
    BY <1>2, <2>1, <2>2 DEF Unsigned, Signed
<1>3. CASE t.signed /\ t.wire = Varint
  <2>1. n \in -h .. h - 1
    BY <1>1, <1>3
  <2>2. ZigZag(n) \in 0 .. 2 * h - 1 /\ UnZigZag(ZigZag(n)) = n
    BY <1>1, <2>1, ZigZagIs
  <2> QED
    BY <1>1, <1>3, <2>2 DEF Unsigned, Signed
<1>4. CASE t.signed /\ t.wire # Varint
  <2> DEFINE u == n % t.size
             size == t.size
  <2>1. size \in Nat \ {0} /\ size = 2 * h /\ n \in -h .. h - 1
    BY <1>1, <1>4
  <2>2. u = IF n >= 0 THEN n ELSE n + size
    <3>1. CASE n >= 0
      <4>1. 0 * size + n = n /\ 0 \in Int /\ 0 * size + n \in Nat /\ n \in 0 .. size - 1
        BY <1>1, <2>1, <3>1
      <4>2. (0 * size + n) % size = n
        BY ONLY <2>1, <4>1, DivideUnique
      <4> QED
        BY <3>1, <4>1, <4>2
    <3>2. CASE n < 0
      <4>1. n + size \in 0 .. size - 1
        BY <1>1, <2>1, <3>2
      <4>2. n % size = n + size
        <5> HIDE DEF size
        <5>1. n % size \in 0 .. size - 1 /\ n = size * (n \div size) + (n % size)
              /\ n \div size \in Int
          <6>1. n \in Int
            BY <1>1, <2>1
          <6> QED
            BY <2>1, <6>1, DivideInteger
        <5>2. n \div size = -1
          <6> DEFINE k == n \div size
                     r == n % size
          <6>1. k \in Int /\ r \in 0 .. size - 1 /\ n = k * size + r
            BY <2>1, <5>1
          <6> HIDE DEF k, r
          <6>2. CASE k >= 0
            <7>1. 0 * size <= k * size
              BY <2>1, <6>1, <6>2, Monotone
            <7> QED
              BY <2>1, <3>2, <6>1, <7>1
          <6>3. CASE k <= -2
            <7>1. k * size <= (-2) * size
              BY <2>1, <6>1, <6>3, Monotone
            <7>2. (-2) * size = -size - size
              BY <2>1
            <7> QED
              BY <1>1, <2>1, <3>2, <6>1, <7>1, <7>2
          <6> QED
            BY <6>1, <6>2, <6>3 DEF k
        <5>3. size * (-1) = -size
          BY <2>1
        <5> QED
          BY <2>1, <5>1, <5>2, <5>3
      <4> QED
        BY <3>2, <4>2
    <3> QED
      BY <2>1, <3>1, <3>2
  <2>3. Unsigned(t, n) = u /\ Signed(t, u) = IF 2 * u >= size THEN u - size ELSE u
    BY <1>4 DEF Unsigned, Signed
  <2> HIDE DEF u, size
  <2> QED
    BY <1>1, <2>1, <2>2, <2>3 DEF size
<1> QED
  BY <1>1, <1>2, <1>3, <1>4

(* ... the other way around.                                               *)
LEMMA UnsignedIs ==
  ASSUME NEW t, IsSimple(t), t.form = "number", NEW u \in 0 .. t.size - 1
  PROVE  /\ Signed(t, u) \in Lowest(t) .. Lowest(t) + t.size - 1
         /\ Unsigned(t, Signed(t, u)) = u
<1> DEFINE h == t.size \div 2
<1>1. /\ t.signed \in BOOLEAN /\ t.size \in Nat /\ t.size >= 2 /\ h \in Nat
      /\ t.size = 2 * h /\ Lowest(t) = IF t.signed THEN -h ELSE 0
  BY NumberType
<1> HIDE DEF h
<1>2. \A q \in Int : q * t.size + u \in Nat => (q * t.size + u) % t.size = u
  BY <1>1, DivideUnique
<1>3. u % t.size = u
  <2>1. 0 \in Int /\ 0 * t.size + u = u /\ u \in Nat
    BY <1>1
  <2> QED
    BY <1>2, <2>1
<1>4. CASE ~ t.signed
  BY <1>1, <1>3, <1>4 DEF Unsigned, Signed
<1>5. CASE t.signed /\ t.wire = Varint
  <2>1. u \in 0 .. 2 * h - 1
    BY <1>1
  <2>2. UnZigZag(u) \in -h .. h - 1 /\ ZigZag(UnZigZag(u)) = u
    BY <1>1, <2>1, UnZigZagIs
  <2> QED
    BY <1>1, <1>5, <2>2 DEF Unsigned, Signed
<1>6. CASE t.signed /\ t.wire # Varint
  <2> DEFINE n == IF 2 * u >= t.size THEN u - t.size ELSE u
  <2>1. Signed(t, u) = n /\ Unsigned(t, n) = n % t.size
    BY <1>6 DEF Unsigned, Signed
  <2>2. n \in -h .. h - 1
    BY <1>1
  <2>3. Lowest(t) = -h /\ Lowest(t) + t.size - 1 = h - 1
    BY <1>1, <1>6
  <2> HIDE DEF n
  <2>4. Unsigned(t, n) \in 0 .. t.size - 1 /\ Signed(t, Unsigned(t, n)) = n
    BY <2>2, <2>3, SignedIs
  <2>5. Unsigned(t, n) = u
    <3> DEFINE w == Unsigned(t, n)
    <3>1. Signed(t, w) = IF 2 * w >= t.size THEN w - t.size ELSE w
      BY <1>6 DEF Signed
    <3>2. w \in 0 .. t.size - 1 /\ Signed(t, w) = n
      BY <2>4
    <3> HIDE DEF w
    <3>3. w = u
      BY <1>1, <2>2, <3>1, <3>2 DEF n
    <3> QED
      BY <3>3 DEF w
  <2> QED
    BY <2>1, <2>2, <2>3, <2>5
<1> QED
  BY <1>1, <1>4, <1>5, <1>6

-----------------------------------------------------------------------------
(* Delimited regions.                                                      *)

(* The region of bytes that a delimiter announces, and what lies there.    *)
Code(region) == EncodeVarint(Len(region)) \o region

(* The bytes of a delimited region.                                        *)
LEMMA CodeIs ==
  ASSUME NEW region \in Seq(Byte), Len(region) < VarintRange
  PROVE  /\ Len(region) \in 0 .. VarintRange - 1
         /\ Code(region) \in Seq(Byte)
         /\ Len(Code(region)) = EncodedLenVarint(Len(region)) + Len(region)
         /\ Len(Code(region)) = Len(EncodeVarint(Len(region))) + Len(region)
         /\ Len(Code(region)) > 0
<1>1. Len(region) \in 0 .. VarintRange - 1
  BY LenProperties, RangeFacts
<1>2. /\ EncodeVarint(Len(region)) \in Seq(Byte)
      /\ Len(EncodeVarint(Len(region))) = EncodedLenVarint(Len(region))
      /\ Len(EncodeVarint(Len(region))) \in Nat \ {0}
  BY <1>1, VarintCode
<1>3. /\ Code(region) \in Seq(Byte)
      /\ Len(Code(region)) = Len(EncodeVarint(Len(region))) + Len(region)
  BY <1>2, ConcatProperties DEF Code
<1> QED
  BY <1>1, <1>2, <1>3

(* take_length_delimited finds a region that lies there.                   *)
LEMMA RegionLies ==
  ASSUME NEW region \in Seq(Byte), Len(region) < VarintRange, NEW raw \in Seq(Byte),
         Lies(Code(region), 0, raw)
  PROVE  LET used == Len(EncodeVarint(Len(region))) IN
           /\ Delimited(raw) =
                [error |-> "none", value |-> Len(region), used |-> used]
           /\ used \in Nat /\ used + Len(region) <= Len(raw)
           /\ Lies(region, used, raw)
           /\ SubSeq(raw, used + 1, used + Len(region)) = region
<1> DEFINE len == Len(region)
           used == Len(EncodeVarint(len))
           read == [error |-> "none", value |-> len, used |-> used]
<1>1. len \in 0 .. VarintRange - 1 /\ len \in Nat
  BY CodeIs
<1>2. EncodeVarint(len) \in Seq(Byte) /\ used \in Nat
  BY <1>1, VarintCode
<1>3. Lies(EncodeVarint(len), 0, raw) /\ Lies(region, 0 + used, raw)
  BY <1>2, LiesBoth DEF Code
<1>4. DecodeVarint(raw) = read
  BY <1>1, <1>3, VarintLies
<1>5. 0 + used = used
  BY <1>2
<1>6. Lies(region, used, raw)
  BY <1>3, <1>5
<1>7. used + len <= Len(raw) /\ SubSeq(raw, used + 1, used + len) = region
  BY <1>2, <1>6, LiesIs
<1>8. Len(raw) \in Nat
  BY LenProperties
<1>9. Delimited(raw) = read
  <2> DEFINE varint == DecodeVarint(raw)
  <2>1. varint.error = "none" /\ varint.value = len /\ varint.used = used
    BY <1>4
  <2>2. Delimited(raw) =
          IF varint.error # "none" THEN varint
          ELSE IF varint.value > Len(raw) - varint.used
          THEN Parsed("Truncated", 0, varint.used)
          ELSE varint
    BY DEF Delimited
  <2> HIDE DEF varint
  <2>3. ~ (len > Len(raw) - used)
    <3> HIDE DEF len, used
    <3> QED
      BY <1>1, <1>2, <1>7, <1>8
  <2>4. Delimited(raw) = varint
    <3> HIDE DEF len, used
    <3> QED
      BY <2>1, <2>2, <2>3
  <2> QED
    BY <1>4, <2>4 DEF varint
<1> QED
  BY <1>2, <1>6, <1>7, <1>9

(* ... and what it finds lies there.                                       *)
LEMMA RegionRead ==
  ASSUME NEW raw \in Seq(Byte), Delimited(raw).error = "none"
  PROVE  LET read == Delimited(raw)
             stop == read.used + read.value
             region == SubSeq(raw, read.used + 1, stop)
         IN /\ read.used \in Nat /\ read.value \in Nat /\ stop <= Len(raw)
            /\ region \in Seq(Byte) /\ Len(region) = read.value
            /\ Len(region) < VarintRange
            /\ read.used = Len(EncodeVarint(Len(region)))
            /\ Lies(Code(region), 0, raw) /\ stop = Len(Code(region))
            /\ Lies(EncodeVarint(read.value), 0, raw)
<1> DEFINE varint == DecodeVarint(raw)
           read == Delimited(raw)
<1>1. read = IF varint.error # "none" THEN varint
             ELSE IF varint.value > Len(raw) - varint.used
             THEN Parsed("Truncated", 0, varint.used)
             ELSE varint
  BY DEF Delimited
<1>2. Parsed("Truncated", 0, varint.used).error = "Truncated"
  BY DEF Parsed
<1>3. /\ varint.value \in Nat /\ varint.used \in 0 .. Len(raw)
      /\ varint.error = "none" =>
           /\ varint.value \in 0 .. VarintRange - 1
           /\ varint.used = Len(EncodeVarint(varint.value))
           /\ Lies(EncodeVarint(varint.value), 0, raw)
  BY VarintRead
<1> HIDE DEF varint, read
<1>4. /\ read = varint /\ varint.error = "none"
      /\ ~ (varint.value > Len(raw) - varint.used)
  <2>1. read.error = "none"
    BY DEF read
  <2> QED
    BY <1>1, <1>2, <2>1
<1> DEFINE u == read.used
           v == read.value
           region == SubSeq(raw, u + 1, u + v)
<1>5. /\ u \in Nat /\ v \in 0 .. VarintRange - 1 /\ v \in Nat
      /\ u = Len(EncodeVarint(v)) /\ Lies(EncodeVarint(v), 0, raw)
  BY <1>3, <1>4, LenProperties
<1>6. u + v <= Len(raw) /\ Len(raw) \in Nat
  <2>1. ~ (v > Len(raw) - u) /\ Len(raw) \in Nat
    BY <1>4, LenProperties
  <2> QED
    BY <1>5, <2>1
<1> HIDE DEF u, v
<1>7. region \in Seq(Byte) /\ Len(region) = v
  <2> DEFINE n == u + v
  <2>1. n \in Int /\ n <= Len(raw) /\ u <= n /\ n - u = v
    BY <1>5, <1>6
  <2> HIDE DEF n
  <2>2. SubSeq(raw, u + 1, n) \in Seq(Byte) /\ Len(SubSeq(raw, u + 1, n)) = v
    BY <1>5, <2>1, SliceIs
  <2> QED
    BY <2>2 DEF n
<1>8. Lies(region, u, raw)
  <2>1. u + Len(region) <= Len(raw) /\ SubSeq(raw, u + 1, u + Len(region)) = region
    BY <1>6, <1>7
  <2> HIDE DEF region
  <2> QED
    BY <1>5, <1>7, <2>1, LiesIs
<1> HIDE DEF region
<1>9. EncodeVarint(v) \in Seq(Byte) /\ 0 + u = u
  BY <1>5, VarintCode
<1>10. Lies(Code(region), 0, raw)
  <2>1. Code(region) = EncodeVarint(v) \o region
    BY <1>7 DEF Code
  <2>2. Lies(EncodeVarint(v), 0, raw) /\ Lies(region, 0 + Len(EncodeVarint(v)), raw)
    BY <1>5, <1>8, <1>9
  <2> QED
    BY <1>7, <1>9, <2>1, <2>2, LiesBoth
<1>11. Len(region) < VarintRange
  BY <1>5, <1>7, RangeFacts
<1>12. u + v = Len(Code(region))
  <2>1. Len(Code(region)) = Len(EncodeVarint(Len(region))) + Len(region)
    BY <1>7, <1>11, CodeIs
  <2> QED
    BY <1>5, <1>7, <2>1
<1> QED
  BY <1>5, <1>6, <1>7, <1>10, <1>11, <1>12 DEF read, u, v, region

-----------------------------------------------------------------------------
(* Values that are not nested.                                             *)

(* A simple type is not nested.                                            *)
LEMMA FormsDiffer ==
  ASSUME NEW t, IsSimple(t)
  PROVE  /\ t.form \notin Nested
         /\ t.form \in {"number", "octets", "array", "bytes", "text"}
BY DEF IsSimple, Nested

(* The widths of fixed values.                                             *)
LEMMA WidthIs ==
  ASSUME NEW t, t.wire \in {ThirtyTwoBit, SixtyFourBit}
  PROVE  FixedWidth[t.wire] \in Nat \ {0}
BY WireAssumption DEF ThirtyTwoBit, SixtyFourBit

(* The bytes of a number.                                                  *)
NumberCode(t, u) ==
  IF t.wire = Varint THEN EncodeVarint(u) ELSE LittleEndian(u, FixedWidth[t.wire])

(* The bytes of an unsigned number, as many as are measured.               *)
LEMMA NumberCodeIs ==
  ASSUME NEW t, IsSimple(t), t.form = "number", NEW u \in 0 .. t.size - 1
  PROVE  /\ NumberCode(t, u) \in Seq(Byte)
         /\ Len(NumberCode(t, u)) =
              IF t.wire = Varint THEN EncodedLenVarint(u) ELSE FixedWidth[t.wire]
         /\ Len(NumberCode(t, u)) \in Nat \ {0}
<1>1. t.size \in Nat /\ VarintRange \in Nat
  BY NumberType, RangeFacts
<1>2. CASE t.wire = Varint
  <2>1. u \in 0 .. VarintRange - 1
    <3>1. t.size <= VarintRange
      BY <1>2, NumberType
    <3> QED
      BY <1>1, <3>1
  <2> QED
    BY <1>2, <2>1, VarintCode DEF NumberCode
<1>3. CASE t.wire # Varint
  <2>1. t.wire \in {ThirtyTwoBit, SixtyFourBit} /\ t.size = Place[FixedWidth[t.wire]]
    BY <1>3, NumberType
  <2>2. FixedWidth[t.wire] \in Nat \ {0}
    BY <2>1, WidthIs
  <2> QED
    BY <1>3, <2>1, <2>2, LittleEndianIs DEF NumberCode
<1> QED
  BY <1>2, <1>3

(* A number is encoded as the unsigned one it stands for.                  *)
LEMMA EncodeNumberIs ==
  ASSUME NEW t, NEW n
  PROVE  EncodeNumber(t, n) = NumberCode(t, Unsigned(t, n))
BY DEF EncodeNumber, NumberCode, Unsigned

(* What is read of the bytes of an unsigned number.                        *)
LEMMA NumberLies ==
  ASSUME NEW t, IsSimple(t), t.form = "number", NEW u \in 0 .. t.size - 1,
         NEW raw \in Seq(Byte), Lies(NumberCode(t, u), 0, raw)
  PROVE  DecodeSimple(t, raw) = NumberFrom(t, u, Len(NumberCode(t, u)))
<1>1. t.size \in Nat /\ VarintRange \in Nat
  BY NumberType, RangeFacts
<1>2. CASE t.wire = Varint
  <2>1. u \in 0 .. VarintRange - 1
    <3>1. t.size <= VarintRange
      BY <1>2, NumberType
    <3> QED
      BY <1>1, <3>1
  <2>2. NumberCode(t, u) = EncodeVarint(u)
    BY <1>2 DEF NumberCode
  <2>3. DecodeVarint(raw) =
          [error |-> "none", value |-> u, used |-> Len(EncodeVarint(u))]
    BY <2>1, <2>2, VarintLies
  <2>4. VarintNumber(t, raw) = NumberFrom(t, u, Len(EncodeVarint(u)))
    <3> DEFINE varint == DecodeVarint(raw)
    <3>1. varint.error = "none" /\ varint.value = u /\ varint.used = Len(EncodeVarint(u))
      BY <2>3
    <3>2. VarintNumber(t, raw) = NumberFrom(t, varint.value, varint.used)
      BY <3>1 DEF VarintNumber
    <3> HIDE DEF varint
    <3> QED
      BY <3>1, <3>2
  <2>5. DecodeSimple(t, raw) = VarintNumber(t, raw)
    BY <1>2 DEF DecodeSimple
  <2> QED
    BY <2>2, <2>4, <2>5
<1>3. CASE t.wire # Varint
  <2> DEFINE width == FixedWidth[t.wire]
             code == LittleEndian(u, width)
  <2>1. t.wire \in {ThirtyTwoBit, SixtyFourBit} /\ t.size = Place[width]
    BY <1>3, NumberType
  <2>2. width \in Nat \ {0}
    BY <2>1, WidthIs
  <2>3. code \in Seq(Byte) /\ Len(code) = width /\ FromLittleEndian(code) = u
    BY <2>1, <2>2, LittleEndianIs
  <2>4. NumberCode(t, u) = code
    BY <1>3 DEF NumberCode
  <2>5. DecodeSimple(t, raw) = FixedNumber(t, raw)
    BY <1>3 DEF DecodeSimple
  <2>6. FixedNumber(t, raw) =
          IF Len(raw) < width THEN Parsed("Truncated", 0, 0)
          ELSE NumberFrom(t, FromLittleEndian(SubSeq(raw, 1, width)), width)
    BY DEF FixedNumber
  <2> HIDE DEF width, code
  <2>7. width <= Len(raw) /\ SubSeq(raw, 1, width) = code
    <3>1. 0 + Len(code) <= Len(raw) /\ SubSeq(raw, 0 + 1, 0 + Len(code)) = code
      BY <2>3, <2>4, LiesIs
    <3>2. 0 + Len(code) = width /\ 0 + 1 = 1
      BY <2>2, <2>3
    <3> QED
      BY <3>1, <3>2
  <2>8. ~ (Len(raw) < width)
    BY <2>2, <2>7, LenProperties
  <2> QED
    BY <2>3, <2>4, <2>5, <2>6, <2>7, <2>8
<1> QED
  BY <1>2, <1>3

(* ... and what is read of any bytes is an unsigned number that lies       *)
(* there.                                                                  *)
LEMMA NumberRead ==
  ASSUME NEW t, IsSimple(t), t.form = "number", NEW raw \in Seq(Byte),
         DecodeSimple(t, raw).error = "none"
  PROVE  \E u \in 0 .. t.size - 1 :
           /\ Lies(NumberCode(t, u), 0, raw)
           /\ DecodeSimple(t, raw) = NumberFrom(t, u, Len(NumberCode(t, u)))
<1>1. t.size \in Nat
  BY NumberType
<1>2. \A u, used : NumberFrom(t, u, used).error = "none" => ~ (u >= t.size)
  <2> TAKE u, used
  <2>1. Parsed("OutOfDomainValue", Signed(t, u), used).error # "none"
    BY DEF Parsed
  <2> QED
    BY <2>1 DEF NumberFrom
<1>3. SUFFICES \E u \in 0 .. t.size - 1 : Lies(NumberCode(t, u), 0, raw)
  BY NumberLies
<1>4. CASE t.wire = Varint
  <2> DEFINE varint == DecodeVarint(raw)
  <2>1. DecodeSimple(t, raw) = VarintNumber(t, raw)
    BY <1>4 DEF DecodeSimple
  <2>2. VarintNumber(t, raw) =
          IF varint.error # "none" THEN varint
          ELSE NumberFrom(t, varint.value, varint.used)
    BY DEF VarintNumber
  <2>3. /\ varint.value \in Nat
        /\ varint.error = "none" => Lies(EncodeVarint(varint.value), 0, raw)
    BY VarintRead
  <2> HIDE DEF varint
  <2>4. varint.error = "none" /\ NumberFrom(t, varint.value, varint.used).error = "none"
    BY <2>1, <2>2
  <2>5. varint.value \in 0 .. t.size - 1
    BY <1>1, <1>2, <2>3, <2>4
  <2> QED
    BY <1>4, <2>3, <2>4, <2>5 DEF NumberCode
<1>5. CASE t.wire # Varint
  <2> DEFINE width == FixedWidth[t.wire]
             part == SubSeq(raw, 1, width)
  <2>1. t.wire \in {ThirtyTwoBit, SixtyFourBit} /\ t.size = Place[width]
    BY <1>5, NumberType
  <2>2. width \in Nat \ {0}
    BY <2>1, WidthIs
  <2>3. DecodeSimple(t, raw) = FixedNumber(t, raw)
    BY <1>5 DEF DecodeSimple
  <2>4. FixedNumber(t, raw) =
          IF Len(raw) < width THEN Parsed("Truncated", 0, 0)
          ELSE NumberFrom(t, FromLittleEndian(part), width)
    BY DEF FixedNumber
  <2> HIDE DEF width
  <2>5. Parsed("Truncated", 0, 0).error # "none"
    BY DEF Parsed
  <2>6. ~ (Len(raw) < width)
    BY <2>3, <2>4, <2>5
  <2>7. width <= Len(raw) /\ Len(raw) \in Nat
    BY <2>2, <2>6, LenProperties
  <2>8. part \in Seq(Byte) /\ Len(part) = width
    <3>1. 0 + 1 = 1 /\ width \in Int /\ 0 <= width /\ width - 0 = width
      BY <2>2
    <3> QED
      BY <2>7, <3>1, SliceIs
  <2>9. /\ FromLittleEndian(part) \in 0 .. t.size - 1
        /\ LittleEndian(FromLittleEndian(part), width) = part
    <3> HIDE DEF part
    <3>1. /\ FromLittleEndian(part) \in 0 .. Place[Len(part)] - 1
          /\ LittleEndian(FromLittleEndian(part), Len(part)) = part
      BY <2>8, FromLittleEndianIs
    <3> QED
      BY <2>1, <2>8, <3>1
  <2>10. Lies(part, 0, raw)
    <3>1. 0 + Len(part) <= Len(raw) /\ SubSeq(raw, 0 + 1, 0 + Len(part)) = part
      <4>1. 0 + Len(part) = width /\ 0 + 1 = 1
        BY <2>2, <2>8
      <4> QED
        BY <2>7, <4>1
    <3> HIDE DEF part
    <3> QED
      BY <2>8, <3>1, LiesIs
  <2>11. NumberCode(t, FromLittleEndian(part)) = part
    BY <1>5, <2>9 DEF NumberCode, width
  <2> HIDE DEF part
  <2> QED
    BY <2>9, <2>10, <2>11
<1> QED
  BY <1>4, <1>5

(* What the empty state of a type holds is one of its values.              *)
LEMMA FreshFits ==
  ASSUME NEW t, IsSimple(t)
  PROVE  Fits(t, FreshSimple(t))
<1>1. 0 \in Byte
  BY BaseFacts
<1>2. CASE t.form = "number"
  <2>1. FreshSimple(t) = IF t.nonzero THEN 1 ELSE 0
    BY <1>2 DEF FreshSimple
  <2>2. /\ t.size \in Nat /\ t.size >= 2 /\ t.size \div 2 \in Nat
        /\ t.size = 2 * (t.size \div 2)
        /\ Lowest(t) = IF t.signed THEN -(t.size \div 2) ELSE 0
        /\ t.nonzero => t.size > 2
    BY <1>2, NumberType
  <2> DEFINE h == t.size \div 2
             x == FreshSimple(t)
  <2> HIDE DEF h, x
  <2>3. /\ t.size \in Nat /\ t.size >= 2 /\ h \in Nat /\ t.size = 2 * h
        /\ Lowest(t) = IF t.signed THEN -h ELSE 0
        /\ t.nonzero => t.size > 2
        /\ x = IF t.nonzero THEN 1 ELSE 0
    BY <2>1, <2>2 DEF h, x
  <2>4. x \in Lowest(t) .. Lowest(t) + t.size - 1 /\ (t.nonzero => x # 0)
    BY ONLY <2>3
  <2> QED
    BY <1>2, <2>4 DEF Fits, x
<1>3. \A n \in Nat : /\ [i \in 1 .. n |-> 0] \in Seq(Byte)
                     /\ Len([i \in 1 .. n |-> 0]) = n
  <2> TAKE n \in Nat
  <2>1. [i \in 1 .. n |-> 0] \in [1 .. n -> Byte]
    BY <1>1
  <2> QED
    BY <2>1, FunctionIsSeq
<1>4. CASE t.form = "octets"
  <2>1. FixedWidth[t.wire] \in Nat
    BY <1>4, WidthIs DEF IsSimple
  <2>2. FreshSimple(t) = [i \in 1 .. FixedWidth[t.wire] |-> 0]
    BY <1>4 DEF FreshSimple
  <2> QED
    BY <1>3, <1>4, <2>1, <2>2 DEF Fits
<1>5. CASE t.form = "array"
  <2>1. t.len \in Nat /\ t.len < VarintRange
    BY <1>5 DEF IsSimple
  <2>2. FreshSimple(t) = [i \in 1 .. t.len |-> 0]
    BY <1>5 DEF FreshSimple
  <2> QED
    BY <1>3, <1>5, <2>1, <2>2 DEF Fits
<1>6. CASE t.form \in {"bytes", "text"}
  <2>1. FreshSimple(t) = <<>>
    BY <1>6 DEF FreshSimple
  <2>2. <<>> \in Seq(Byte) /\ Len(<<>>) = 0 /\ 0 < VarintRange
    BY EmptySeq, RangeFacts
  <2>3. IsText(<<>>)
    <3>1. DOMAIN <<>> = {}
      OBVIOUS
    <3> QED
      BY <3>1 DEF IsText
  <2> QED
    BY <1>6, <2>1, <2>2, <2>3 DEF Fits
<1> QED
  BY <1>2, <1>4, <1>5, <1>6, FormsDiffer

(* The forms whose bytes are delimited.                                    *)
LEMMA DelimitedForms ==
  ASSUME NEW t, IsSimple(t), t.form \in {"array", "bytes", "text"}
  PROVE  /\ \A val : EncodeSimple(t, val) = Code(val)
         /\ \A val : SimpleLen(t, val) = EncodedLenVarint(Len(val)) + Len(val)
         /\ \A raw : DecodeSimple(t, raw) = DecodeRegion(t, raw)
         /\ WireTypeOf(t) = LengthDelimited
BY DEF EncodeSimple, SimpleLen, DecodeSimple, WireTypeOf, Code

(* What the operators do with arrays of a fixed number of bytes.           *)
LEMMA OctetForm ==
  ASSUME NEW t, IsSimple(t), t.form = "octets"
  PROVE  /\ \A val : EncodeSimple(t, val) = val
         /\ \A val : SimpleLen(t, val) = FixedWidth[t.wire]
         /\ \A raw : DecodeSimple(t, raw) = DecodeOctets(t, raw)
         /\ t.wire \in {ThirtyTwoBit, SixtyFourBit}
         /\ FixedWidth[t.wire] \in Nat \ {0}
<1>1. t.wire \in {ThirtyTwoBit, SixtyFourBit}
  BY DEF IsSimple
<1>2. FixedWidth[t.wire] \in Nat \ {0}
  BY <1>1, WidthIs
<1> QED
  BY <1>1, <1>2 DEF EncodeSimple, SimpleLen, DecodeSimple

(* What the operators do with numbers.                                     *)
LEMMA NumberForm ==
  ASSUME NEW t, IsSimple(t), t.form = "number"
  PROVE  /\ \A val : EncodeSimple(t, val) = NumberCode(t, Unsigned(t, val))
         /\ \A val : SimpleLen(t, val) =
              IF t.wire = Varint THEN EncodedLenVarint(Unsigned(t, val))
              ELSE FixedWidth[t.wire]
BY EncodeNumberIs DEF EncodeSimple, SimpleLen, Unsigned

(* A value is encoded in bytes, as many as are measured.                   *)
LEMMA SimpleCode ==
  ASSUME NEW t, IsSimple(t), NEW val, Fits(t, val)
  PROVE  /\ EncodeSimple(t, val) \in Seq(Byte)
         /\ Len(EncodeSimple(t, val)) = SimpleLen(t, val)
         /\ Len(EncodeSimple(t, val)) \in Nat \ {0}
<1>1. CASE t.form = "number"
  <2>1. val \in Lowest(t) .. Lowest(t) + t.size - 1
    BY <1>1 DEF Fits
  <2>2. Unsigned(t, val) \in 0 .. t.size - 1
    BY <1>1, <2>1, SignedIs
  <2> QED
    BY <1>1, <2>2, NumberCodeIs, NumberForm
<1>2. CASE t.form = "octets"
  <2>1. val \in Seq(Byte) /\ Len(val) = FixedWidth[t.wire]
    BY <1>2 DEF Fits
  <2> QED
    BY <1>2, <2>1, OctetForm
<1>3. CASE t.form \in {"array", "bytes", "text"}
  <2>1. val \in Seq(Byte) /\ Len(val) < VarintRange
    BY <1>3 DEF Fits
  <2>2. /\ Code(val) \in Seq(Byte)
        /\ Len(Code(val)) = EncodedLenVarint(Len(val)) + Len(val)
        /\ Len(Code(val)) > 0
    BY <2>1, CodeIs
  <2>3. Len(Code(val)) \in Nat
    BY <2>2, LenProperties
  <2> QED
    BY <1>3, <2>2, <2>3, DelimitedForms
<1> QED
  BY <1>1, <1>2, <1>3, FormsDiffer

(* A region that is a value of the type is taken as it.                    *)
LEMMA FromRegionIs ==
  ASSUME NEW t, IsSimple(t), t.form \in {"array", "bytes", "text"},
         NEW region \in Seq(Byte), Len(region) < VarintRange, NEW used
  PROVE  /\ Fits(t, region) => FromRegion(t, region, used) = Parsed("none", region, used)
         /\ ~ Fits(t, region) => FromRegion(t, region, used).error # "none"
BY DEF Fits, FromRegion, Parsed

(* What was encoded is decoded, whatever follows it.                       *)
LEMMA SimpleRoundTrip ==
  ASSUME NEW t, IsSimple(t), NEW val, Fits(t, val),
         NEW raw \in Seq(Byte), Lies(EncodeSimple(t, val), 0, raw)
  PROVE  DecodeSimple(t, raw) = Parsed("none", val, Len(EncodeSimple(t, val)))
<1>1. CASE t.form = "number"
  <2> DEFINE u == Unsigned(t, val)
  <2>1. val \in Lowest(t) .. Lowest(t) + t.size - 1 /\ (t.nonzero => val # 0)
    BY <1>1 DEF Fits
  <2>2. u \in 0 .. t.size - 1 /\ Signed(t, u) = val
    BY <1>1, <2>1, SignedIs
  <2>3. EncodeSimple(t, val) = NumberCode(t, u)
    BY <1>1, NumberForm
  <2> HIDE DEF u
  <2>4. DecodeSimple(t, raw) = NumberFrom(t, u, Len(NumberCode(t, u)))
    BY <1>1, <2>2, <2>3, NumberLies
  <2>5. ~ (u >= t.size)
    BY <1>1, <2>2, NumberType
  <2>6. NumberFrom(t, u, Len(NumberCode(t, u))) =
          Parsed("none", val, Len(NumberCode(t, u)))
    BY <2>1, <2>2, <2>5 DEF NumberFrom
  <2> QED
    BY <2>3, <2>4, <2>6
<1>2. CASE t.form = "octets"
  <2> DEFINE width == FixedWidth[t.wire]
  <2>1. val \in Seq(Byte) /\ Len(val) = width
    BY <1>2 DEF Fits
  <2>2. EncodeSimple(t, val) = val /\ width \in Nat /\ DecodeSimple(t, raw) = DecodeOctets(t, raw)
    BY <1>2, OctetForm
  <2> HIDE DEF width
  <2>3. 0 + width <= Len(raw) /\ SubSeq(raw, 0 + 1, 0 + width) = val
    BY <2>1, <2>2, LiesIs
  <2>4. 0 + width = width /\ 0 + 1 = 1 /\ ~ (Len(raw) < width)
    BY <2>2, <2>3, LenProperties
  <2>5. DecodeOctets(t, raw) = Parsed("none", val, width)
    BY <2>3, <2>4 DEF DecodeOctets, width
  <2> QED
    BY <2>1, <2>2, <2>5
<1>3. CASE t.form \in {"array", "bytes", "text"}
  <2> DEFINE k == Len(EncodeVarint(Len(val)))
             read == [error |-> "none", value |-> Len(val), used |-> k]
  <2>1. val \in Seq(Byte) /\ Len(val) < VarintRange
    BY <1>3 DEF Fits
  <2>2. EncodeSimple(t, val) = Code(val) /\ DecodeSimple(t, raw) = DecodeRegion(t, raw)
    BY <1>3, DelimitedForms
  <2>3. Delimited(raw) = read /\ SubSeq(raw, k + 1, k + Len(val)) = val
    BY <2>1, <2>2, RegionLies
  <2>4. Len(Code(val)) = k + Len(val)
    BY <2>1, CodeIs
  <2>5. DecodeRegion(t, raw) = FromRegion(t, val, k + Len(val))
    <3> DEFINE region == Delimited(raw)
    <3>1. region.error = "none" /\ region.value = Len(val) /\ region.used = k
      BY <2>3
    <3>2. DecodeRegion(t, raw) =
            IF region.error # "none" THEN region
            ELSE FromRegion(t, SubSeq(raw, region.used + 1, region.used + region.value),
                            region.used + region.value)
      BY DEF DecodeRegion
    <3> HIDE DEF region, k
    <3> QED
      BY <2>3, <3>1, <3>2
  <2> QED
    BY <1>3, <2>1, <2>2, <2>4, <2>5, FromRegionIs
<1> QED
  BY <1>1, <1>2, <1>3, FormsDiffer

(* What is decoded is a value, whose encoding lies there.                  *)
LEMMA SimpleRead ==
  ASSUME NEW t, IsSimple(t), NEW raw \in Seq(Byte),
         DecodeSimple(t, raw).error = "none"
  PROVE  LET read == DecodeSimple(t, raw) IN
           /\ Fits(t, read.value)
           /\ Lies(EncodeSimple(t, read.value), 0, raw)
           /\ read.used = Len(EncodeSimple(t, read.value))
<1> DEFINE read == DecodeSimple(t, raw)
<1>1. CASE t.form = "number"
  <2>1. PICK u \in 0 .. t.size - 1 :
          /\ Lies(NumberCode(t, u), 0, raw)
          /\ read = NumberFrom(t, u, Len(NumberCode(t, u)))
    BY <1>1, NumberRead
  <2> DEFINE n == Signed(t, u)
             used == Len(NumberCode(t, u))
  <2>2. n \in Lowest(t) .. Lowest(t) + t.size - 1 /\ Unsigned(t, n) = u
    BY <1>1, UnsignedIs
  <2>3. read.error = "none"
    OBVIOUS
  <2> HIDE DEF read, used
  <2>4. read = IF u >= t.size THEN Parsed("OutOfDomainValue", n, used)
               ELSE IF t.nonzero /\ n = 0 THEN Parsed("InvalidValue", n, used)
               ELSE Parsed("none", n, used)
    BY <2>1 DEF NumberFrom, used
  <2> HIDE DEF n
  <2>5. ~ (t.nonzero /\ n = 0) /\ read = Parsed("none", n, used)
    <3>1. /\ Parsed("OutOfDomainValue", n, used).error = "OutOfDomainValue"
          /\ Parsed("InvalidValue", n, used).error = "InvalidValue"
      BY DEF Parsed
    <3> QED
      BY <2>3, <2>4, <3>1
  <2>6. read.value = n /\ read.used = used
    BY <2>5 DEF Parsed
  <2>7. EncodeSimple(t, n) = NumberCode(t, u)
    BY <1>1, <2>2, NumberForm
  <2>8. Fits(t, n)
    BY <1>1, <2>2, <2>5 DEF Fits
  <2> QED
    BY <2>1, <2>6, <2>7, <2>8 DEF read, used
<1>2. CASE t.form = "octets"
  <2> DEFINE width == FixedWidth[t.wire]
             part == SubSeq(raw, 1, width)
  <2>1. /\ \A val : EncodeSimple(t, val) = val
        /\ width \in Nat /\ read = DecodeOctets(t, raw)
    BY <1>2, OctetForm
  <2>2. read.error = "none"
    OBVIOUS
  <2> HIDE DEF read
  <2>3. read = IF Len(raw) < width THEN Parsed("Truncated", <<>>, 0)
               ELSE Parsed("none", part, width)
    BY <2>1 DEF DecodeOctets
  <2> HIDE DEF width
  <2>4. ~ (Len(raw) < width) /\ read.value = part /\ read.used = width
    BY <2>2, <2>3 DEF Parsed
  <2>5. width <= Len(raw) /\ 0 + width = width /\ 0 + 1 = 1 /\ width - 0 = width /\ 0 <= width
    BY <2>1, <2>4, LenProperties
  <2>6. part \in Seq(Byte) /\ Len(part) = width
    BY <2>1, <2>5, SliceIs
  <2>7. Lies(part, 0, raw)
    <3>1. 0 + Len(part) <= Len(raw) /\ SubSeq(raw, 0 + 1, 0 + Len(part)) = part
      BY <2>5, <2>6
    <3> HIDE DEF part
    <3> QED
      BY <2>6, <3>1, LiesIs
  <2>8. Fits(t, part)
    BY <1>2, <2>6 DEF Fits, width
  <2> QED
    BY <2>1, <2>4, <2>6, <2>7, <2>8 DEF read
<1>3. CASE t.form \in {"array", "bytes", "text"}
  <2> DEFINE region == Delimited(raw)
             stop == region.used + region.value
             part == SubSeq(raw, region.used + 1, stop)
  <2>1. /\ \A val : EncodeSimple(t, val) = Code(val)
        /\ read = DecodeRegion(t, raw)
    BY <1>3, DelimitedForms
  <2>2. read.error = "none"
    OBVIOUS
  <2> HIDE DEF read
  <2>3. read = IF region.error # "none" THEN region ELSE FromRegion(t, part, stop)
    BY <2>1 DEF DecodeRegion
  <2>4. region.error = "none"
    <3> HIDE DEF region
    <3> QED
      BY <2>2, <2>3
  <2>5. /\ part \in Seq(Byte) /\ Len(part) < VarintRange
        /\ Lies(Code(part), 0, raw) /\ stop = Len(Code(part))
    BY <2>4, RegionRead
  <2> HIDE DEF part, stop, region
  <2>6. read = FromRegion(t, part, stop)
    BY <2>3, <2>4
  <2>7. Fits(t, part)
    BY <1>3, <2>2, <2>5, <2>6, FromRegionIs
  <2>8. read = Parsed("none", part, stop)
    BY <1>3, <2>5, <2>6, <2>7, FromRegionIs
  <2>9. read.value = part /\ read.used = stop
    BY <2>8 DEF Parsed
  <2> QED
    BY <2>1, <2>5, <2>7, <2>9 DEF read
<1> QED
  BY <1>1, <1>2, <1>3, FormsDiffer

(* A negative number is odd if its opposite is.                            *)
LEMMA OddBelowZero ==
  ASSUME NEW b \in {0, 1}
  PROVE  (-b) % 2 = b % 2
<1> DEFINE n == -b
<1>1. n \in Int /\ n <= 0 /\ n >= -1 /\ b = -n
  OBVIOUS
<1>2. b % 2 = b
  OBVIOUS
<1> HIDE DEF n
<1>3. n = 2 * (n \div 2) + (n % 2) /\ n % 2 \in 0 .. 1 /\ n \div 2 \in Int
  BY <1>1
<1>4. n % 2 = b
  BY <1>1, <1>3
<1> QED
  BY <1>2, <1>4 DEF n

(* A type that another one widens has the corresponding value in the same  *)
(* bytes.                                                                  *)
LEMMA SimpleWidens ==
  ASSUME NEW from, NEW to, IsSimple(from), IsSimple(to), Widens(from, to),
         NEW val, Fits(from, val)
  PROVE  /\ Fits(to, Corresponding(from, to, val))
         /\ EncodeSimple(to, Corresponding(from, to, val)) = EncodeSimple(from, val)
<1> DEFINE c == Corresponding(from, to, val)
<1>1. CASE from = to
  <2>1. c = val
    BY <1>1 DEF Corresponding
  <2> QED
    BY <1>1, <2>1
<1>2. CASE from.form = "text" /\ to.form = "bytes"
  <2>1. c = val
    BY <1>2 DEF Corresponding
  <2>2. Fits(to, val)
    BY <1>2 DEF Fits
  <2>3. EncodeSimple(to, val) = Code(val) /\ EncodeSimple(from, val) = Code(val)
    BY <1>2, DelimitedForms
  <2> QED
    BY <2>1, <2>2, <2>3
<1>3. CASE /\ from.form = "number" /\ to.form = "number" /\ from.wire = to.wire
           /\ from.nonzero \/ ~ to.nonzero
           /\ from.wire = Varint \/ from.size = to.size
           /\ \/ from.size = 2 /\ ~ from.signed
              \/ from.signed = to.signed /\ from.size <= to.size
  <2> DEFINE g == from.size \div 2
             h == to.size \div 2
  <2>1. /\ from.signed \in BOOLEAN /\ to.signed \in BOOLEAN
        /\ from.nonzero \in BOOLEAN /\ to.nonzero \in BOOLEAN
        /\ from.size \in Nat /\ to.size \in Nat /\ to.size >= 2
        /\ g \in Nat /\ h \in Nat /\ from.size = 2 * g /\ to.size = 2 * h
        /\ Lowest(from) = IF from.signed THEN -g ELSE 0
        /\ Lowest(to) = IF to.signed THEN -h ELSE 0
    BY <1>3, NumberType
  <2>2. val \in Lowest(from) .. Lowest(from) + from.size - 1 /\ (from.nonzero => val # 0)
    BY <1>3 DEF Fits
  <2> HIDE DEF g, h
  <2>3. c = IF ~ from.signed /\ to.signed THEN -val ELSE val
    BY <1>3 DEF Corresponding
  <2>4. CASE ~ from.signed /\ to.signed
    <3>1. from.size = 2
      BY <1>3, <2>4
    <3>2. val \in {0, 1} /\ c = -val
      BY <2>1, <2>2, <2>3, <2>4, <3>1
    <3>3. c \in Lowest(to) .. Lowest(to) + to.size - 1 /\ (to.nonzero => c # 0)
      BY <1>3, <2>1, <2>2, <2>4, <3>2
    <3>4. Unsigned(to, c) = Unsigned(from, val)
      <4>1. CASE from.wire = Varint
        BY <1>3, <2>4, <3>2, <4>1 DEF Unsigned, ZigZag
      <4>2. CASE from.wire # Varint
        <5>1. to.size = 2
          BY <1>3, <3>1, <4>2
        <5>2. Unsigned(to, c) = c % 2 /\ Unsigned(from, val) = val % 2
          BY <1>3, <3>1, <4>2, <5>1 DEF Unsigned
        <5>3. 1 % 2 = 1 /\ 0 % 2 = 0
          OBVIOUS
        <5>4. (-val) % 2 = val % 2
          BY <3>2, <5>3, OddBelowZero
        <5> QED
          BY <3>2, <5>2, <5>4
      <4> QED
        BY <4>1, <4>2
    <3>5. EncodeSimple(to, c) = EncodeSimple(from, val)
      BY <1>3, <3>4, NumberForm DEF NumberCode
    <3>6. Fits(to, c)
      BY <1>3, <3>3 DEF Fits
    <3> QED
      BY <3>5, <3>6
  <2>5. CASE ~ (~ from.signed /\ to.signed)
    <3>1. c = val
      BY <2>3, <2>5
    <3>2. \/ from.signed = to.signed /\ from.size <= to.size
          \/ from.size = 2 /\ ~ from.signed /\ ~ to.signed
      BY <1>3, <2>1, <2>5
    <3>3. c \in Lowest(to) .. Lowest(to) + to.size - 1 /\ (to.nonzero => c # 0)
      BY <1>3, <2>1, <2>2, <3>1, <3>2
    <3>4. Unsigned(to, c) = Unsigned(from, val)
      BY <1>3, <2>1, <3>1, <3>2 DEF Unsigned
    <3>5. EncodeSimple(to, c) = EncodeSimple(from, val)
      BY <1>3, <3>4, NumberForm DEF NumberCode
    <3>6. Fits(to, c)
      BY <1>3, <3>3 DEF Fits
    <3> QED
      BY <3>5, <3>6
  <2> QED
    BY <2>4, <2>5
<1>4. ~ (from.form \in Nested)
  BY FormsDiffer
<1> QED
  BY <1>1, <1>2, <1>3, <1>4 DEF Widens

-----------------------------------------------------------------------------
(* The fields of a pair.                                                   *)

(* The key of an item.                                                     *)
ItemKey(t, i) == 4 * (i - 1) + WireTypeOf(t.items[i])

(* A key is one byte, which says the tag and the wire type.                *)
LEMMA ItemKeyIs ==
  ASSUME NEW t, NEW i \in {1, 2}, IsSimple(t.items[i])
  PROVE  /\ ItemKey(t, i) \in 0 .. VarintRange - 1
         /\ ItemKey(t, i) \div 4 = i - 1
         /\ ItemKey(t, i) % 4 = WireTypeOf(t.items[i])
         /\ EncodedLenVarint(ItemKey(t, i)) = 1
         /\ EncodeVarint(ItemKey(t, i)) \in Seq(Byte)
         /\ Len(EncodeVarint(ItemKey(t, i))) = 1
<1> DEFINE w == WireTypeOf(t.items[i])
           k == ItemKey(t, i)
<1>1. w \in 0 .. 3
  <2>1. t.items[i].form = "number" => t.items[i].wire \in {Varint, ThirtyTwoBit, SixtyFourBit}
    BY NumberType
  <2>2. t.items[i].form = "octets" => t.items[i].wire \in {ThirtyTwoBit, SixtyFourBit}
    BY OctetForm
  <2> QED
    BY <2>1, <2>2 DEF WireTypeOf, Varint, ThirtyTwoBit, SixtyFourBit, LengthDelimited
<1>2. k = (i - 1) * 4 + w
  BY <1>1 DEF ItemKey
<1> HIDE DEF w, k
<1>3. k \in 0 .. 7 /\ i - 1 \in Int /\ 4 \in Nat \ {0} /\ w \in 0 .. 4 - 1
  BY <1>1, <1>2
<1>4. k \div 4 = i - 1 /\ k % 4 = w
  <2>1. (i - 1) * 4 + w \in Nat
    BY <1>2, <1>3
  <2>2. ((i - 1) * 4 + w) \div 4 = i - 1 /\ ((i - 1) * 4 + w) % 4 = w
    BY ONLY <1>3, <2>1, DivideUnique
  <2> QED
    BY <1>2, <2>2
<1>5. k < VarintRange /\ VarintRange \in Nat
  <2>1. Weight[MaxVarint - 1] >= 1 /\ Weight[MaxVarint - 1] \in Nat
    BY BFacts, WeightGrows
  <2>2. 1 * (2 * B) <= Weight[MaxVarint - 1] * (2 * B)
    <3>1. 2 * B \in Nat /\ 1 \in Int /\ Weight[MaxVarint - 1] \in Int
      BY <2>1, BFacts
    <3> QED
      BY ONLY <2>1, <3>1, Monotone
  <2>3. VarintRange = Weight[MaxVarint - 1] * (2 * B) /\ VarintRange \in Nat
    BY RangeFacts
  <2> QED
    BY <1>3, <2>2, <2>3, BFacts
<1>6. EncodedLenVarint(k) = 1
  <2>1. 1 \in 1 .. MaxVarint /\ 1 - 1 = 0
    BY BFacts
  <2>2. VarintLimit[0] = 0 /\ VarintLimit[1] = (VarintLimit[0] + 1) * B
    BY LimitDef
  <2>3. HasLength(k, 1)
    BY <1>3, <2>1, <2>2, BFacts DEF HasLength
  <2> QED
    BY <1>3, <2>1, <2>3, LengthUnique
<1>7. k \in 0 .. VarintRange - 1
  BY <1>3, <1>5
<1> QED
  BY <1>4, <1>6, <1>7, VarintCode DEF k, w

(* A pair of values of the items' types.                                   *)
Pair2(t, v) ==
  v = <<v[1], v[2]>> /\ Fits(t.items[1], v[1]) /\ Fits(t.items[2], v[2])

(* The bytes of an item; one that is fresh has none.                       *)
LEMMA ItemIs ==
  ASSUME NEW t, NEW v, NEW i \in {1, 2}, IsSimple(t.items[i]), Fits(t.items[i], v[i])
  PROVE  /\ EncodeItem(t, v, i) \in Seq(Byte)
         /\ Len(EncodeItem(t, v, i)) = ItemLen(t, v, i)
         /\ ItemLen(t, v, i) \in Nat
         /\ v[i] = FreshSimple(t.items[i]) =>
              EncodeItem(t, v, i) = <<>> /\ ItemLen(t, v, i) = 0
         /\ v[i] # FreshSimple(t.items[i]) =>
              /\ EncodeItem(t, v, i) =
                   EncodeVarint(ItemKey(t, i)) \o EncodeSimple(t.items[i], v[i])
              /\ ItemLen(t, v, i) = 1 + Len(EncodeSimple(t.items[i], v[i]))
              /\ ItemLen(t, v, i) > 0
<1>1. i \in Present(t, v) <=> v[i] # FreshSimple(t.items[i])
  BY DEF Present
<1>2. CASE v[i] = FreshSimple(t.items[i])
  <2>1. EncodeItem(t, v, i) = <<>> /\ ItemLen(t, v, i) = 0
    BY <1>1, <1>2 DEF EncodeItem, ItemLen
  <2> QED
    BY <1>2, <2>1, EmptySeq
<1>3. CASE v[i] # FreshSimple(t.items[i])
  <2> DEFINE key == EncodeVarint(ItemKey(t, i))
             code == EncodeSimple(t.items[i], v[i])
  <2>1. /\ EncodeItem(t, v, i) = key \o code
        /\ ItemLen(t, v, i) = 1 + SimpleLen(t.items[i], v[i])
    BY <1>1, <1>3 DEF EncodeItem, ItemLen, ItemKey
  <2>2. key \in Seq(Byte) /\ Len(key) = 1
    BY ItemKeyIs
  <2>3. /\ code \in Seq(Byte) /\ Len(code) = SimpleLen(t.items[i], v[i])
        /\ Len(code) \in Nat \ {0}
    BY SimpleCode
  <2> HIDE DEF key, code
  <2>4. key \o code \in Seq(Byte) /\ Len(key \o code) = 1 + Len(code)
    BY <2>2, <2>3, ConcatProperties
  <2>5. 1 + Len(code) \in Nat /\ 1 + Len(code) > 0
    BY <2>3
  <2> QED
    BY <1>3, <2>1, <2>3, <2>4, <2>5 DEF key, code
<1> QED
  BY <1>2, <1>3

(* The bytes of the items of a pair.                                       *)
LEMMA ItemsAre ==
  ASSUME NEW t, NEW v, IsSimple(t.items[1]), IsSimple(t.items[2]), Pair2(t, v)
  PROVE  /\ EncodeItems(t, v) = EncodeItem(t, v, 1) \o EncodeItem(t, v, 2)
         /\ EncodeItems(t, v) \in Seq(Byte)
         /\ Len(EncodeItems(t, v)) = ItemLen(t, v, 1) + ItemLen(t, v, 2)
         /\ ItemLen(t, v, 1) \in Nat /\ ItemLen(t, v, 2) \in Nat
<1>1. /\ EncodeItem(t, v, 1) \in Seq(Byte) /\ Len(EncodeItem(t, v, 1)) = ItemLen(t, v, 1)
      /\ ItemLen(t, v, 1) \in Nat
  BY ItemIs DEF Pair2
<1>2. /\ EncodeItem(t, v, 2) \in Seq(Byte) /\ Len(EncodeItem(t, v, 2)) = ItemLen(t, v, 2)
      /\ ItemLen(t, v, 2) \in Nat
  BY ItemIs DEF Pair2
<1>3. EncodeItems(t, v) = EncodeItem(t, v, 1) \o EncodeItem(t, v, 2)
  BY DEF EncodeItems
<1> DEFINE a == EncodeItem(t, v, 1)
           b == EncodeItem(t, v, 2)
<1> HIDE DEF a, b
<1>4. a \in Seq(Byte) /\ b \in Seq(Byte)
  BY <1>1, <1>2 DEF a, b
<1>5. a \o b \in Seq(Byte) /\ Len(a \o b) = Len(a) + Len(b)
  BY ONLY <1>4, ConcatProperties
<1> QED
  BY <1>1, <1>2, <1>3, <1>5 DEF a, b

-----------------------------------------------------------------------------
(* Values of any type.                                                     *)

(* Their encodings.                                                        *)
LEMMA ValueCode ==
  ASSUME NEW t, IsType(t), NEW v, IsValue(t, v)
  PROVE  /\ EncodeValue(t, v) \in Seq(Byte)
         /\ Len(EncodeValue(t, v)) = ValueEncodedLen(t, v)
<1>1. CASE t.form \in Nested
  <2>1. /\ IsSimple(t.items[1]) /\ IsSimple(t.items[2]) /\ Pair2(t, v)
        /\ Len(EncodeItems(t, v)) < VarintRange
    BY <1>1 DEF IsType, IsValue, Pair2
  <2>2. /\ EncodeItems(t, v) \in Seq(Byte)
        /\ Len(EncodeItems(t, v)) = ItemLen(t, v, 1) + ItemLen(t, v, 2)
    BY <2>1, ItemsAre
  <2>3. EncodeValue(t, v) = Code(EncodeItems(t, v))
    BY <1>1 DEF EncodeValue, Code
  <2>4. /\ Code(EncodeItems(t, v)) \in Seq(Byte)
        /\ Len(Code(EncodeItems(t, v))) =
             EncodedLenVarint(Len(EncodeItems(t, v))) + Len(EncodeItems(t, v))
    BY <2>1, <2>2, CodeIs
  <2> QED
    BY <1>1, <2>2, <2>3, <2>4 DEF ValueEncodedLen
<1>2. CASE t.form \notin Nested
  <2>1. IsSimple(t) /\ Fits(t, v)
    BY <1>2 DEF IsType, IsValue
  <2> QED
    BY <1>2, <2>1, SimpleCode DEF EncodeValue, ValueEncodedLen
<1> QED
  BY <1>1, <1>2

(* ... of a type that another one widens, too.                             *)
LEMMA ValueWidens ==
  ASSUME NEW from, NEW to, IsType(from), IsType(to), Widens(from, to),
         NEW v, IsValue(from, v)
  PROVE  /\ IsValue(to, Corresponding(from, to, v))
         /\ EncodeValue(to, Corresponding(from, to, v)) = EncodeValue(from, v)
         /\ from.form \in Nested <=> to.form \in Nested
<1>1. CASE from.form \in Nested
  <2>1. from.form # "number" /\ from.form # "text"
    BY <1>1 DEF Nested
  <2>2. to.form \in Nested /\ from.items = to.items
    BY <1>1, <2>1 DEF Widens
  <2>3. Corresponding(from, to, v) = v
    BY <2>1 DEF Corresponding
  <2>4. EncodeItems(to, v) = EncodeItems(from, v)
    BY <2>2 DEF EncodeItems, EncodeItem, Present
  <2> QED
    BY <1>1, <2>2, <2>3, <2>4 DEF IsValue, EncodeValue
<1>2. CASE from.form \notin Nested
  <2>1. IsSimple(from) /\ Fits(from, v)
    BY <1>2 DEF IsType, IsValue
  <2>2. to.form \notin Nested
    <3>1. "number" \notin Nested /\ "bytes" \notin Nested
      BY DEF Nested
    <3> QED
      BY <1>2, <3>1 DEF Widens
  <2>3. IsSimple(to)
    BY <2>2 DEF IsType
  <2> QED
    BY <1>2, <2>1, <2>2, <2>3, SimpleWidens DEF IsValue, EncodeValue
<1> QED
  BY <1>1, <1>2

-----------------------------------------------------------------------------
(* Items that are put into a pair.                                         *)

(* The items of a pair are of simple types.                                *)
LEMMA PairType ==
  ASSUME NEW t, IsType(t), t.form \in Nested
  PROVE  IsSimple(t.items[1]) /\ IsSimple(t.items[2])
BY DEF IsType

(* The empty value of a pair has no items.                                 *)
LEMMA FreshPair ==
  ASSUME NEW t, IsType(t), t.form \in Nested
  PROVE  /\ Pair2(t, Fresh(t))
         /\ \A i \in {1, 2} : Fresh(t)[i] = FreshSimple(t.items[i])
         /\ EncodeItems(t, Fresh(t)) = <<>>
         /\ \A v : Pair2(t, v) /\ Len(EncodeItems(t, v)) = 0 => v = Fresh(t)
<1>1. IsSimple(t.items[1]) /\ IsSimple(t.items[2])
  BY PairType
<1>2. Fresh(t) = <<FreshSimple(t.items[1]), FreshSimple(t.items[2])>>
  BY DEF Fresh
<1>3. /\ Fresh(t)[1] = FreshSimple(t.items[1]) /\ Fresh(t)[2] = FreshSimple(t.items[2])
      /\ Fresh(t) = <<Fresh(t)[1], Fresh(t)[2]>>
  BY <1>2
<1>4. Fits(t.items[1], Fresh(t)[1]) /\ Fits(t.items[2], Fresh(t)[2])
  BY <1>1, <1>3, FreshFits
<1>5. Pair2(t, Fresh(t))
  BY <1>3, <1>4 DEF Pair2
<1>6. EncodeItem(t, Fresh(t), 1) = <<>> /\ EncodeItem(t, Fresh(t), 2) = <<>>
  BY <1>1, <1>3, <1>4, ItemIs
<1>7. EncodeItems(t, Fresh(t)) = <<>>
  <2>1. EncodeItems(t, Fresh(t)) = <<>> \o <<>>
    BY <1>1, <1>5, <1>6, ItemsAre
  <2> QED
    BY <2>1
<1>8. ASSUME NEW v, Pair2(t, v), Len(EncodeItems(t, v)) = 0
      PROVE  v = Fresh(t)
  <2>1. ItemLen(t, v, 1) = 0 /\ ItemLen(t, v, 2) = 0
    BY <1>1, <1>8, ItemsAre
  <2>2. v = <<v[1], v[2]>> /\ Fits(t.items[1], v[1]) /\ Fits(t.items[2], v[2])
    BY <1>8 DEF Pair2
  <2>3. v[1] = FreshSimple(t.items[1])
    BY <1>1, <2>1, <2>2, ItemIs
  <2>4. v[2] = FreshSimple(t.items[2])
    BY <1>1, <2>1, <2>2, ItemIs
  <2> QED
    BY <1>2, <2>2, <2>3, <2>4
<1> QED
  BY <1>3, <1>5, <1>7, <1>8

(* An item depends on nothing but its own value.                           *)
LEMMA SameItem ==
  ASSUME NEW t, NEW v, NEW w, NEW i, v[i] = w[i], i \in {1, 2}
  PROVE  EncodeItem(t, v, i) = EncodeItem(t, w, i)
BY DEF EncodeItem, Present

(* A pair with one more item than those before it.                         *)
LEMMA Stored ==
  ASSUME NEW t, IsSimple(t.items[1]), IsSimple(t.items[2]),
         NEW T, Pair2(t, T), NEW U, Pair2(t, U),
         NEW i \in {1, 2}, \A j \in {1, 2} : j # i => U[j] = T[j],
         \A j \in {1, 2} : j >= i => T[j] = FreshSimple(t.items[j])
  PROVE  EncodeItems(t, U) = EncodeItems(t, T) \o EncodeItem(t, U, i)
<1>1. T = <<T[1], T[2]>> /\ Fits(t.items[1], T[1]) /\ Fits(t.items[2], T[2])
  BY DEF Pair2
<1>2. \A j \in {1, 2} : j # i => U[j] = T[j]
  OBVIOUS
<1>4. EncodeItems(t, T) = EncodeItem(t, T, 1) \o EncodeItem(t, T, 2)
  BY ItemsAre
<1>5. EncodeItems(t, U) = EncodeItem(t, U, 1) \o EncodeItem(t, U, 2)
  BY ItemsAre
<1>6. /\ EncodeItem(t, U, 1) \in Seq(Byte) /\ EncodeItem(t, U, 2) \in Seq(Byte)
      /\ EncodeItem(t, T, 1) \in Seq(Byte)
  BY <1>1, ItemIs DEF Pair2
<1>7. CASE i = 1
  <2>1. T[1] = FreshSimple(t.items[1]) /\ T[2] = FreshSimple(t.items[2])
    BY <1>7
  <2>2. EncodeItem(t, T, 1) = <<>> /\ EncodeItem(t, T, 2) = <<>>
    BY <1>1, <2>1, ItemIs
  <2>3. EncodeItem(t, U, 2) = <<>>
    <3>1. U[2] = T[2]
      BY <1>2, <1>7
    <3> QED
      BY ONLY <2>2, <3>1, SameItem
  <2> DEFINE a == EncodeItem(t, U, 1)
  <2> HIDE DEF a
  <2>4. a \o <<>> = a /\ <<>> \o <<>> = <<>> /\ <<>> \o a = a
    BY <1>6 DEF a
  <2> QED
    BY <1>4, <1>5, <1>7, <2>2, <2>3, <2>4 DEF a
<1>8. CASE i = 2
  <2>1. EncodeItem(t, T, 2) = <<>>
    BY <1>1, <1>8, ItemIs
  <2>2. EncodeItem(t, U, 1) = EncodeItem(t, T, 1)
    <3>1. U[1] = T[1]
      BY <1>2, <1>8
    <3> QED
      BY ONLY <3>1, SameItem
  <2> DEFINE a == EncodeItem(t, T, 1)
  <2> HIDE DEF a
  <2>3. a \o <<>> = a
    BY <1>6 DEF a
  <2> QED
    BY <1>4, <1>5, <1>8, <2>1, <2>2, <2>3 DEF a
<1> QED
  BY <1>7, <1>8

(* The next item of a pair of which some items are known.                  *)
LEMMA NextItem ==
  ASSUME NEW t, IsSimple(t.items[1]), IsSimple(t.items[2]),
         NEW v, Pair2(t, v), NEW T, Pair2(t, T), NEW l \in {-1, 0, 1},
         \A i \in {1, 2} : i - 1 <= l => T[i] = v[i],
         \A i \in {1, 2} : i - 1 > l => T[i] = FreshSimple(t.items[i]),
         NEW raw \in Seq(Byte), NEW s \in Nat, Lies(EncodeItems(t, v), s, raw)
  PROVE  \/ T = v
         \/ \E i \in {1, 2} :
              /\ v[i] # FreshSimple(t.items[i]) /\ i - 1 > l
              /\ \A j \in {1, 2} : j < i => T[j] = v[j]
              /\ \A j \in {1, 2} : j >= i => T[j] = FreshSimple(t.items[j])
              /\ Lies(EncodeItem(t, v, i), s + Len(EncodeItems(t, T)), raw)
              /\ Len(EncodeItems(t, T)) + Len(EncodeItem(t, v, i))
                   <= Len(EncodeItems(t, v))
<1> DEFINE a == EncodeItem(t, v, 1)
           b == EncodeItem(t, v, 2)
           F1 == FreshSimple(t.items[1])
           F2 == FreshSimple(t.items[2])
<1>1. /\ T = <<T[1], T[2]>> /\ v = <<v[1], v[2]>>
      /\ Fits(t.items[1], v[1]) /\ Fits(t.items[2], v[2])
      /\ Fits(t.items[1], T[1]) /\ Fits(t.items[2], T[2])
  BY DEF Pair2
<1>2. /\ EncodeItems(t, v) = a \o b /\ a \in Seq(Byte) /\ b \in Seq(Byte)
      /\ Len(EncodeItems(t, v)) = Len(a) + Len(b)
      /\ Len(a) \in Nat /\ Len(b) \in Nat
      /\ v[1] = F1 => a = <<>>
      /\ v[2] = F2 => b = <<>>
  <2>1. a \in Seq(Byte) /\ Len(a) = ItemLen(t, v, 1) /\ ItemLen(t, v, 1) \in Nat
        /\ (v[1] = F1 => a = <<>>)
    BY <1>1, ItemIs
  <2>2. b \in Seq(Byte) /\ Len(b) = ItemLen(t, v, 2) /\ ItemLen(t, v, 2) \in Nat
        /\ (v[2] = F2 => b = <<>>)
    BY <1>1, ItemIs
  <2> QED
    BY <2>1, <2>2, ItemsAre
<1>3. /\ EncodeItems(t, T) = EncodeItem(t, T, 1) \o EncodeItem(t, T, 2)
      /\ Len(EncodeItems(t, T)) = ItemLen(t, T, 1) + ItemLen(t, T, 2)
      /\ Len(EncodeItem(t, T, 1)) = ItemLen(t, T, 1)
  BY <1>1, ItemsAre, ItemIs
<1>4. /\ T[1] = F1 => ItemLen(t, T, 1) = 0
      /\ T[2] = F2 => ItemLen(t, T, 2) = 0
      /\ T[1] = v[1] => EncodeItem(t, T, 1) = a
  BY <1>1, ItemIs, SameItem
<1>5. Lies(a, s, raw) /\ Lies(b, s + Len(a), raw)
  <2> HIDE DEF a, b
  <2>1. Lies(a \o b, s, raw)
    BY <1>2
  <2> QED
    BY <1>2, <2>1, LiesBoth
<1>6. Len(a) = 0 => s + Len(a) = s
  BY <1>2
<1>7. CASE T # v
  <2>1. l # 1
    <3>1. l = 1 => T[1] = v[1] /\ T[2] = v[2]
      OBVIOUS
    <3> QED
      BY <1>1, <1>7, <3>1
  <2>2. T[2] = F2
    BY <2>1
  <2>3. CASE l = -1 /\ v[1] # F1
    <3>1. T[1] = F1
      BY <2>3
    <3>2. Len(EncodeItems(t, T)) = 0 /\ s + Len(EncodeItems(t, T)) = s
      <4>1. ItemLen(t, T, 1) = 0
        BY ONLY <1>4, <3>1
      <4>2. ItemLen(t, T, 2) = 0
        BY ONLY <1>4, <2>2
      <4>3. Len(EncodeItems(t, T)) = 0
        BY ONLY <1>3, <4>1, <4>2
      <4> QED
        BY ONLY <4>3, s \in Nat
    <3>3. \A j \in {1, 2} : ~ (j < 1)
      OBVIOUS
    <3> HIDE DEF a, b
    <3>4. /\ 1 - 1 > l /\ v[1] # FreshSimple(t.items[1])
          /\ \A j \in {1, 2} : j < 1 => T[j] = v[j]
          /\ \A j \in {1, 2} : j >= 1 => T[j] = FreshSimple(t.items[j])
          /\ Lies(a, s + Len(EncodeItems(t, T)), raw)
          /\ Len(EncodeItems(t, T)) + Len(a) <= Len(EncodeItems(t, v))
      BY <1>2, <1>5, <2>2, <2>3, <3>1, <3>2, <3>3
    <3> QED
      BY <3>4 DEF a
  <2>4. CASE ~ (l = -1 /\ v[1] # F1)
    <3>1. T[1] = v[1]
      <4>1. CASE l = -1
        BY <2>4, <4>1
      <4>2. CASE l = 0
        BY <4>2
      <4> QED
        BY <2>1, <4>1, <4>2
    <3>2. v[2] # F2
      BY <1>1, <1>7, <2>2, <3>1
    <3>3. Len(EncodeItems(t, T)) = Len(a)
      BY <1>2, <1>3, <1>4, <2>2, <3>1
    <3> HIDE DEF a, b
    <3>4. /\ 2 - 1 > l /\ v[2] # FreshSimple(t.items[2])
          /\ \A j \in {1, 2} : j < 2 => T[j] = v[j]
          /\ \A j \in {1, 2} : j >= 2 => T[j] = FreshSimple(t.items[j])
          /\ Lies(b, s + Len(EncodeItems(t, T)), raw)
          /\ Len(EncodeItems(t, T)) + Len(b) <= Len(EncodeItems(t, v))
      BY <1>2, <1>5, <2>1, <2>2, <3>1, <3>2, <3>3
    <3> QED
      BY <3>4 DEF b
  <2> QED
    BY <2>3, <2>4
<1> QED
  BY <1>7

-----------------------------------------------------------------------------
(* An item within the region of its pair.                                  *)

(* An item that lies within the region is decoded.                         *)
LEMMA CappedLies ==
  ASSUME NEW t, IsSimple(t), NEW val, Fits(t, val), NEW raw \in Seq(Byte),
         Lies(EncodeSimple(t, val), 0, raw),
         NEW cap \in Int, cap <= Len(raw), Len(EncodeSimple(t, val)) <= cap
  PROVE  DecodeCapped(t, raw, cap) =
           Parsed("none", val, Len(EncodeSimple(t, val)))
<1> DEFINE code == EncodeSimple(t, val)
           bounded == t.form = "number" /\ t.wire # Varint
           seen == IF bounded THEN SubSeq(raw, 1, cap) ELSE raw
           decoded == DecodeSimple(t, seen)
<1>1. code \in Seq(Byte) /\ Len(code) \in Nat \ {0}
  BY SimpleCode
<1>2. seen \in Seq(Byte) /\ Lies(code, 0, seen)
  <2>1. SubSeq(raw, 0 + 1, cap) \in Seq(Byte)
    BY SliceIs
  <2>2. Lies(code, 0, SubSeq(raw, 1, cap))
    <3> HIDE DEF code
    <3>1. Len(code) > 0 /\ Len(code) <= cap /\ Lies(code, 0, raw)
      BY <1>1 DEF code
    <3> QED
      BY <1>1, <3>1, LiesWithin
  <2> QED
    BY <2>1, <2>2
<1> HIDE DEF seen
<1>3. decoded = Parsed("none", val, Len(code))
  BY <1>2, SimpleRoundTrip
<1>4. decoded.error = "none" /\ decoded.used = Len(code) /\ ~ (decoded.used > cap)
  BY <1>1, <1>3 DEF Parsed
<1>5. DecodeCapped(t, raw, cap) =
        IF decoded.used > cap /\ t.form = "number" /\ decoded.error = "InvalidVarint"
        THEN Parsed("Truncated", 0, decoded.used)
        ELSE IF decoded.used > cap /\ WireTypeOf(t) = LengthDelimited
                /\ Delimited(raw).error = "none"
        THEN Parsed("Truncated", 0, Delimited(raw).used)
        ELSE decoded
  BY DEF DecodeCapped, seen
<1> HIDE DEF decoded
<1> QED
  BY <1>3, <1>4, <1>5

(* ... and what is decoded of the region lies there.                       *)
LEMMA CappedRead ==
  ASSUME NEW t, IsSimple(t), NEW raw \in Seq(Byte),
         NEW cap \in Int, cap <= Len(raw),
         DecodeCapped(t, raw, cap).error = "none"
  PROVE  LET read == DecodeCapped(t, raw, cap) IN
           /\ Fits(t, read.value)
           /\ Lies(EncodeSimple(t, read.value), 0, raw)
           /\ read.used = Len(EncodeSimple(t, read.value))
<1> DEFINE bounded == t.form = "number" /\ t.wire # Varint
           seen == IF bounded THEN SubSeq(raw, 1, cap) ELSE raw
           decoded == DecodeSimple(t, seen)
           code == EncodeSimple(t, decoded.value)
<1>1. SubSeq(raw, 0 + 1, cap) \in Seq(Byte)
  BY SliceIs
<1>2. seen \in Seq(Byte)
  BY <1>1
<1>3. DecodeCapped(t, raw, cap) =
        IF decoded.used > cap /\ t.form = "number" /\ decoded.error = "InvalidVarint"
        THEN Parsed("Truncated", 0, decoded.used)
        ELSE IF decoded.used > cap /\ WireTypeOf(t) = LengthDelimited
                /\ Delimited(raw).error = "none"
        THEN Parsed("Truncated", 0, Delimited(raw).used)
        ELSE decoded
  BY DEF DecodeCapped
<1>4. DecodeCapped(t, raw, cap) = decoded
  <2> HIDE DEF decoded
  <2>1. /\ Parsed("Truncated", 0, decoded.used).error = "Truncated"
        /\ Parsed("Truncated", 0, Delimited(raw).used).error = "Truncated"
    BY DEF Parsed
  <2> QED
    BY <1>3, <2>1
<1>5. decoded.error = "none"
  BY <1>4
<1> HIDE DEF seen
<1>6. Fits(t, decoded.value) /\ Lies(code, 0, seen) /\ decoded.used = Len(code)
  BY <1>2, <1>5, SimpleRead
<1>7. code \in Seq(Byte) /\ Len(code) \in Nat \ {0}
  BY <1>6, SimpleCode
<1>8. Lies(code, 0, raw)
  <2>1. CASE bounded
    <3>1. Lies(code, 0, SubSeq(raw, 1, cap)) /\ Len(code) > 0
      BY <1>6, <1>7, <2>1 DEF seen
    <3> HIDE DEF code, decoded, bounded
    <3> QED
      BY <1>7, <3>1, LiesWithin
  <2>2. CASE ~ bounded
    BY <1>6, <2>2 DEF seen
  <2> QED
    BY <2>1, <2>2
<1> QED
  BY <1>4, <1>6, <1>8

-----------------------------------------------------------------------------
(* The next field.                                                         *)

(* Where the loop over the fields is.                                      *)
Between ==
  /\ wire \in Seq(Byte) /\ pos \in 0 .. Len(wire)
  /\ end \in Nat /\ end <= Len(wire)
  /\ last \in Nat \cup {-1}

(* Its bytes.                                                              *)
LEMMA KeyFacts ==
  ASSUME Between
  PROVE  /\ SubSeq(wire, pos + 1, Len(wire)) \in Seq(Byte)
         /\ Key.value \in Nat /\ Key.used \in Nat /\ pos + Key.used <= Len(wire)
         /\ Key.value \div 4 \in Nat /\ Key.value % 4 \in 0 .. 3
         /\ KeyTag(Key) \in Nat /\ KeyTag(Key) >= last
         /\ Behind(Key) \in Seq(Byte) /\ Cap(Key) \in Int
         /\ Cap(Key) <= Len(Behind(Key))
         /\ Len(Behind(Key)) = Len(wire) - (pos + Key.used)
<1> DEFINE rest == SubSeq(wire, pos + 1, Len(wire))
           k == Key
<1>1. rest \in Seq(Byte) /\ Len(rest) = Len(wire) - pos
  BY SliceIs DEF Between
<1>2. k.value \in Nat /\ k.used \in 0 .. Len(rest)
  <2> HIDE DEF rest
  <2>1. DecodeVarint(rest).value \in Nat /\ DecodeVarint(rest).used \in 0 .. Len(rest)
    BY <1>1, VarintRead
  <2> QED
    BY <2>1 DEF rest, Key
<1> HIDE DEF rest, k
<1>3. k.value \div 4 \in Nat /\ k.value % 4 \in 0 .. 3
  <2> DEFINE v == k.value
  <2>1. v \in Nat /\ 4 \in Nat \ {0}
    BY <1>2
  <2> HIDE DEF v
  <2>2. v \div 4 \in Nat /\ v % 4 \in 0 .. 4 - 1
    BY <2>1, Divide
  <2> QED
    BY <2>2 DEF v
<1>4. k.used \in Nat /\ pos + k.used <= Len(wire) /\ pos + k.used \in Nat
  BY <1>1, <1>2 DEF Between
<1>5. /\ SubSeq(wire, (pos + k.used) + 1, Len(wire)) \in Seq(Byte)
      /\ Len(SubSeq(wire, (pos + k.used) + 1, Len(wire))) = Len(wire) - (pos + k.used)
  BY <1>4, SliceIs, SMTT(30) DEF Between
<1>6. KeyTag(k) \in Nat /\ KeyTag(k) >= last
  <2> DEFINE d == k.value \div 4
  <2>1. d \in Nat
    BY <1>3
  <2>2. KeyTag(k) = (IF last = -1 THEN 0 ELSE last) + d
    BY DEF KeyTag
  <2> HIDE DEF d
  <2> QED
    BY <2>1, <2>2 DEF Between
<1>7. Behind(k) = SubSeq(wire, (pos + k.used) + 1, Len(wire))
  BY DEF Behind
<1>8. Cap(k) = end - (pos + k.used) /\ Cap(k) \in Int
  BY <1>4 DEF Cap, Between
<1>9. /\ Behind(k) \in Seq(Byte) /\ Len(Behind(k)) = Len(wire) - (pos + k.used)
      /\ Cap(k) <= Len(Behind(k))
  <2>1. end \in Nat /\ end <= Len(wire) /\ Len(wire) \in Nat
    BY DEF Between
  <2> QED
    BY <1>4, <1>5, <1>7, <1>8, <2>1
<1>10. k.used \in Nat /\ pos + k.used <= Len(wire) /\ k.value \in Nat
  BY <1>2, <1>4
<1> QED
  BY <1>1, <1>3, <1>6, <1>8, <1>9, <1>10 DEF rest, k

(* The next item of a value that lies there is found.                      *)
LEMMA ItemFollows ==
  ASSUME Between, NEW i \in {1, 2}, IsSimple(type.items[i]), NEW v,
         Fits(type.items[i], v[i]), v[i] # FreshSimple(type.items[i]),
         Lies(EncodeItem(type, v, i), pos, wire),
         pos + Len(EncodeItem(type, v, i)) <= end, i - 1 > last
  PROVE  /\ Key.error = "none" /\ KeyTag(Key) = i - 1
         /\ Key.value % 4 = WireTypeOf(type.items[i])
         /\ DecodeCapped(type.items[i], Behind(Key), Cap(Key)) =
              Parsed("none", v[i], Len(EncodeItem(type, v, i)) - 1)
         /\ Key.used = 1 /\ Len(EncodeItem(type, v, i)) \in Nat
<1> DEFINE k == ItemKey(type, i)
           head == EncodeVarint(k)
           code == EncodeSimple(type.items[i], v[i])
           rest == SubSeq(wire, pos + 1, Len(wire))
           q == pos + 1
<1>1. /\ k \in 0 .. VarintRange - 1 /\ k \div 4 = i - 1
      /\ k % 4 = WireTypeOf(type.items[i])
      /\ head \in Seq(Byte) /\ Len(head) = 1
  BY ItemKeyIs
<1>2. code \in Seq(Byte) /\ Len(code) \in Nat \ {0}
  BY SimpleCode
<1>3. EncodeItem(type, v, i) = head \o code
  BY ItemIs
<1>4. /\ wire \in Seq(Byte) /\ pos \in Nat /\ pos <= Len(wire) /\ Len(wire) \in Nat
      /\ end \in Nat /\ end <= Len(wire) /\ last \in Nat \cup {-1}
  BY DEF Between
<1>5. rest \in Seq(Byte)
  BY KeyFacts
<1> HIDE DEF k, head, code, rest
<1>6. Len(head \o code) = 1 + Len(code)
  <2>1. Len(head \o code) = Len(head) + Len(code)
    BY ONLY <1>1, <1>2, ConcatProperties
  <2> QED
    BY ONLY <1>1, <2>1
<1>7. Lies(head, pos, wire) /\ Lies(code, q, wire)
  <2>1. Lies(head \o code, pos, wire)
    BY <1>3
  <2>2. Lies(head, pos, wire) /\ Lies(code, pos + Len(head), wire)
    BY ONLY <1>1, <1>2, <1>4, <2>1, LiesBoth
  <2> QED
    BY <1>1, <2>2
<1>8. Key = [error |-> "none", value |-> k, used |-> 1]
  <2>1. Lies(head, 0, rest)
    <3>1. pos + 0 = pos /\ 0 \in Nat
      BY <1>4
    <3>2. Lies(head, pos + 0, wire)
      BY <1>7, <3>1
    <3>3. Lies(head, 0, SubSeq(wire, pos + 1, Len(wire)))
      BY ONLY <1>1, <1>4, <3>1, <3>2, LiesBehind
    <3> QED
      BY <3>3 DEF rest
  <2>2. Lies(EncodeVarint(k), 0, rest)
    BY <2>1 DEF head
  <2>3. DecodeVarint(rest) = [error |-> "none", value |-> k, used |-> Len(EncodeVarint(k))]
    BY ONLY <1>1, <1>5, <2>2, VarintLies
  <2> QED
    BY <1>1, <2>3 DEF Key, rest, head
<1>9. Key.error = "none" /\ Key.value = k /\ Key.used = 1
  BY <1>8
<1>10. KeyTag(Key) = i - 1
  <2>1. KeyTag(Key) = (IF last = -1 THEN 0 ELSE last) + (i - 1)
    BY ONLY <1>1, <1>9 DEF KeyTag
  <2>2. last = -1 \/ (last = 0 /\ i = 2)
    BY <1>4
  <2>3. (IF last = -1 THEN 0 ELSE last) = 0
    BY ONLY <2>2
  <2>4. 0 + (i - 1) = i - 1
    OBVIOUS
  <2> QED
    BY ONLY <2>1, <2>3, <2>4
<1>11. q \in Nat /\ q <= Len(wire) /\ q + Len(code) <= end
  BY <1>2, <1>3, <1>4, <1>6
<1>12. Behind(Key) = SubSeq(wire, q + 1, Len(wire)) /\ Cap(Key) = end - q
  <2>1. end - pos - 1 = end - q
    BY <1>4
  <2> QED
    BY <1>9, <2>1 DEF Behind, Cap
<1> HIDE DEF q
<1>13. Lies(code, 0, Behind(Key))
  <2>1. q + 0 = q /\ 0 \in Nat
    BY <1>11
  <2>2. Lies(code, q + 0, wire)
    BY <1>7, <2>1
  <2>3. Lies(code, 0, SubSeq(wire, q + 1, Len(wire)))
    BY ONLY <1>2, <1>4, <1>11, <2>1, <2>2, LiesBehind
  <2> QED
    BY <1>12, <2>3
<1>14. Len(code) <= Cap(Key)
  BY <1>2, <1>4, <1>11, <1>12
<1>15. DecodeCapped(type.items[i], Behind(Key), Cap(Key)) = Parsed("none", v[i], Len(code))
  BY <1>13, <1>14, KeyFacts, CappedLies DEF code
<1>16. Len(code) = Len(EncodeItem(type, v, i)) - 1 /\ Len(EncodeItem(type, v, i)) \in Nat
  BY <1>2, <1>3, <1>6
<1> QED
  BY <1>1, <1>9, <1>10, <1>15, <1>16

(* An item that is taken lies there, and no item was behind it.            *)
LEMMA ItemTaken ==
  ASSUME Between, Key.error = "none", NEW i \in {1, 2}, KeyTag(Key) = i - 1,
         KeyTag(Key) # last, IsSimple(type.items[i]),
         Key.value % 4 = WireTypeOf(type.items[i]),
         DecodeCapped(type.items[i], Behind(Key), Cap(Key)).error = "none"
  PROVE  LET read == DecodeCapped(type.items[i], Behind(Key), Cap(Key))
             code == EncodeVarint(ItemKey(type, i))
                       \o EncodeSimple(type.items[i], read.value)
         IN /\ last \in {-1, 0} /\ i - 1 > last
            /\ Fits(type.items[i], read.value)
            /\ code \in Seq(Byte) /\ Len(code) \in Nat
            /\ Len(code) = 1 + Len(EncodeSimple(type.items[i], read.value))
            /\ Lies(code, pos, wire)
            /\ pos + Key.used + read.used = pos + Len(code)
            /\ pos + Len(code) <= Len(wire)
<1> DEFINE k == ItemKey(type, i)
           head == EncodeVarint(k)
           read == DecodeCapped(type.items[i], Behind(Key), Cap(Key))
           tail == EncodeSimple(type.items[i], read.value)
           rest == SubSeq(wire, pos + 1, Len(wire))
           q == pos + 1
           d == Key.value \div 4
<1>1. /\ k \in 0 .. VarintRange - 1
      /\ head \in Seq(Byte) /\ Len(head) = 1
  BY ItemKeyIs
<1>2. /\ wire \in Seq(Byte) /\ pos \in Nat /\ pos <= Len(wire) /\ Len(wire) \in Nat
      /\ end \in Nat /\ end <= Len(wire) /\ last \in Nat \cup {-1}
  BY DEF Between
<1>3. /\ rest \in Seq(Byte) /\ Key.value \in Nat /\ d \in Nat
      /\ KeyTag(Key) >= last
  BY KeyFacts
<1>4. last \in {-1, 0} /\ i - 1 > last
  BY <1>2, <1>3
<1>5. d = i - 1
  <2>1. (IF last = -1 THEN 0 ELSE last) + d = i - 1
    BY DEF KeyTag
  <2> HIDE DEF d
  <2> QED
    BY <1>3, <1>4, <2>1
<1>6. Key.value = k
  <2>1. Key.value = d * 4 + (Key.value % 4)
    <3> DEFINE n == Key.value
    <3>1. n \in Nat /\ 4 \in Nat \ {0}
      BY <1>3
    <3> HIDE DEF n
    <3>2. n = (n \div 4) * 4 + (n % 4)
      BY ONLY <3>1, Divide
    <3> QED
      BY <3>2 DEF n
  <2>2. WireTypeOf(type.items[i]) \in 0 .. 3
    BY KeyFacts
  <2> HIDE DEF d
  <2> QED
    BY <1>5, <2>1, <2>2 DEF k, ItemKey
<1> HIDE DEF k, d
<1>7. Lies(head, 0, rest) /\ Key.used = 1
  <2>1. Key = DecodeVarint(rest)
    BY DEF Key
  <2>2. /\ Key.used = Len(EncodeVarint(Key.value))
        /\ Lies(EncodeVarint(Key.value), 0, rest)
    <3> HIDE DEF rest
    <3> QED
      BY <1>3, <2>1, VarintRead
  <2> QED
    BY <1>1, <1>6, <2>2
<1>8. Lies(head, pos, wire)
  <2>1. pos + 0 = pos /\ 0 \in Nat
    BY <1>2
  <2>2. Lies(head, 0, SubSeq(wire, pos + 1, Len(wire)))
    BY <1>7
  <2> HIDE DEF head
  <2>3. Lies(head, pos + 0, wire)
    BY ONLY <1>1, <1>2, <2>1, <2>2, LiesBehind
  <2> QED
    BY <2>1, <2>3
<1>9. /\ Fits(type.items[i], read.value) /\ Lies(tail, 0, Behind(Key))
      /\ read.used = Len(tail)
  BY KeyFacts, CappedRead
<1>10. tail \in Seq(Byte) /\ Len(tail) \in Nat \ {0}
  BY <1>9, SimpleCode
<1>11. q \in Nat /\ q <= Len(wire)
  BY <1>2, <1>7, KeyFacts
<1>12. Behind(Key) = SubSeq(wire, q + 1, Len(wire))
  BY <1>7 DEF Behind
<1> HIDE DEF head, read, tail, q
<1>13. Lies(tail, q, wire)
  <2>1. q + 0 = q /\ 0 \in Nat
    BY <1>11
  <2>2. Lies(tail, 0, SubSeq(wire, q + 1, Len(wire)))
    BY <1>9, <1>12
  <2>3. Lies(tail, q + 0, wire)
    BY ONLY <1>2, <1>10, <1>11, <2>1, <2>2, LiesBehind
  <2> QED
    BY <2>1, <2>3
<1>14. head \o tail \in Seq(Byte) /\ Len(head \o tail) = 1 + Len(tail)
  <2>1. head \o tail \in Seq(Byte) /\ Len(head \o tail) = Len(head) + Len(tail)
    BY ONLY <1>1, <1>10, ConcatProperties
  <2> QED
    BY <1>1, <2>1
<1>15. Lies(head \o tail, pos, wire)
  <2>1. Lies(tail, pos + Len(head), wire)
    BY <1>1, <1>13 DEF q
  <2> QED
    BY ONLY <1>1, <1>2, <1>8, <1>10, <2>1, LiesBoth
<1>16. pos + Len(head \o tail) <= Len(wire)
  BY <1>15 DEF Lies
<1>17. pos + Key.used + read.used = pos + Len(head \o tail)
  BY <1>2, <1>7, <1>9, <1>10, <1>14
<1>18. Len(head \o tail) \in Nat
  BY <1>10, <1>14
<1> QED
  BY <1>4, <1>9, <1>14, <1>15, <1>16, <1>17, <1>18 DEF head, read, tail, k

-----------------------------------------------------------------------------
(* What decoding ends with.                                                *)

(* So many of the first bytes are the encoding of a value.                 *)
Exact(t, val, raw, used) ==
  Lies(EncodeValue(t, val), 0, raw) /\ used = Len(EncodeValue(t, val))

(* Without an error there is a value of the type. It is what lies there if *)
(* it is simple or said to be canonical, which an empty pair that may not  *)
(* be empty never is.  If any value lies there it is what was decoded, and *)
(* is canonical, unless it is such an empty pair.                          *)
Settled(t, raw, d, err, val, used, c) ==
  LET nested == t.form \in Nested
      strict == nested /\ d.min # Relaxed
  IN /\ err = "none" => IsValue(t, val) /\ used \in 0 .. Len(raw)
     /\ err = "none" /\ (nested => strict /\ c = Canonical) => Exact(t, val, raw, used)
     /\ err = "none" /\ strict /\ c = Canonical => d.allowEmpty \/ val # Fresh(t)
     /\ err = "none" /\ nested /\ d.limited => ~ d.allowEmpty /\ val = Fresh(t)
     /\ \A v : IsValue(t, v) /\ Lies(EncodeValue(t, v), 0, raw)
                 /\ (nested => ~ d.limited) =>
          \/ /\ err = "none" /\ val = v /\ Exact(t, v, raw, used)
             /\ strict => c = Canonical
          \/ strict /\ ~ d.allowEmpty /\ v = Fresh(t)

(* The bytes are followed by the encoding of what the history says.        *)
OriginInv ==
  \/ origin = <<>>
  \/ \E from \in Types : \E v :
       /\ IsValue(from, v) /\ Lies(EncodeValue(from, v), 0, wire)
       /\ origin = <<[type |-> from, value |-> v]>>

(* The types of the constants are types.                                   *)
LEMMA TypesAre == \A t \in Types : IsType(t)
BY ValuesAssumption

(* What decoding ends with is what ValuesExact says of it.                 *)
LEMMA SettledExact ==
  ASSUME type \in Types, wire \in Seq(Byte), OriginInv,
         Settled(type, wire, how, error, value, pos, canon)
  PROVE  ValuesExact
<1> DEFINE nested == type.form \in Nested
           strict == nested /\ how.min # Relaxed
           code == EncodeValue(type, value)
           exact == Consumed = code
           allowed == how.allowEmpty \/ value # Fresh(type)
<1>1. IsType(type)
  BY TypesAre
<1>2. ASSUME error = "none"
      PROVE  /\ code \in Seq(Byte) /\ Len(code) = ValueEncodedLen(type, value)
             /\ pos \in Nat /\ Len(Consumed) = pos
             /\ exact <=> Exact(type, value, wire, pos)
  <2>1. IsValue(type, value) /\ pos \in 0 .. Len(wire)
    BY <1>2 DEF Settled
  <2>2. code \in Seq(Byte) /\ Len(code) = ValueEncodedLen(type, value)
    BY <1>1, <2>1, ValueCode
  <2>3. Len(code) \in Nat
    BY <2>2, LenProperties
  <2>4. Len(Consumed) = pos
    <3>1. Consumed = SubSeq(wire, 0 + 1, pos) /\ 0 <= pos /\ pos \in Int /\ pos - 0 = pos
          /\ pos <= Len(wire)
      BY <2>1 DEF Consumed
    <3>2. Len(SubSeq(wire, 0 + 1, pos)) = pos - 0
      BY ONLY wire \in Seq(Byte), <3>1, SliceIs
    <3> QED
      BY <3>1, <3>2
  <2> HIDE DEF code
  <2>5. Lies(code, 0, wire) <=>
          0 + Len(code) <= Len(wire) /\ SubSeq(wire, 0 + 1, 0 + Len(code)) = code
    BY <2>2, LiesIs
  <2>6. exact <=> Lies(code, 0, wire) /\ pos = Len(code)
    <3>1. 0 + Len(code) = Len(code) /\ 0 + 1 = 1
      BY <2>3
    <3>2. Lies(code, 0, wire) <=> Len(code) <= Len(wire) /\ SubSeq(wire, 1, Len(code)) = code
      BY ONLY <2>5, <3>1
    <3>3. Consumed = SubSeq(wire, 1, pos)
      BY DEF Consumed
    <3>4. Consumed = code => pos = Len(code)
      BY ONLY <2>4
    <3>5. pos <= Len(wire)
      BY <2>1
    <3> QED
      BY ONLY <3>2, <3>3, <3>4, <3>5
  <2> QED
    BY <2>1, <2>2, <2>4, <2>6 DEF Exact, code
<1> HIDE DEF exact, code
<1>3. ASSUME error = "none", ~ nested \/ (strict /\ canon = Canonical)
      PROVE  exact /\ ValueEncodedLen(type, value) = pos
  <2>1. Exact(type, value, wire, pos)
    BY <1>3 DEF Settled
  <2> QED
    BY <1>2, <1>3, <2>1 DEF Exact, code
<1>4. ASSUME error = "none", strict, exact, allowed
      PROVE  canon = Canonical
  <2>1. Lies(EncodeValue(type, value), 0, wire)
    BY <1>2, <1>4 DEF Exact
  <2>2. IsValue(type, value) /\ ~ how.limited
    BY <1>4 DEF Settled
  <2> QED
    BY <1>4, <2>1, <2>2 DEF Settled
<1>5. ASSUME error = "none", strict, ~ allowed
      PROVE  canon # Canonical
  BY <1>5 DEF Settled
<1>6. ASSUME origin # <<>>, Widens(origin[1].type, type), ~ how.limited
      PROVE  \/ /\ error = "none" /\ exact
                /\ value = Corresponding(origin[1].type, type, origin[1].value)
             \/ strict /\ ~ how.allowEmpty /\ origin[1].value = Fresh(type)
  <2>1. PICK from \in Types : \E w :
          /\ IsValue(from, w) /\ Lies(EncodeValue(from, w), 0, wire)
          /\ origin = <<[type |-> from, value |-> w]>>
    BY <1>6 DEF OriginInv
  <2>2. PICK w :
          /\ IsValue(from, w) /\ Lies(EncodeValue(from, w), 0, wire)
          /\ origin = <<[type |-> from, value |-> w]>>
    BY <2>1
  <2>3. origin[1].type = from /\ origin[1].value = w
    BY <2>2
  <2> DEFINE v == Corresponding(from, type, w)
  <2>4. /\ IsType(from) /\ Widens(from, type)
    BY <1>6, <2>3, TypesAre
  <2>5. /\ IsValue(type, v) /\ EncodeValue(type, v) = EncodeValue(from, w)
        /\ from.form \in Nested <=> type.form \in Nested
    BY <1>1, <2>2, <2>4, ValueWidens
  <2>6. strict => v = w
    BY <2>5 DEF Corresponding, Nested
  <2> HIDE DEF v
  <2>7. Lies(EncodeValue(type, v), 0, wire)
    BY <2>2, <2>5
  <2>8. \/ /\ error = "none" /\ value = v /\ Exact(type, v, wire, pos)
        \/ strict /\ ~ how.allowEmpty /\ v = Fresh(type)
    BY <1>6, <2>5, <2>7 DEF Settled
  <2> QED
    BY <1>2, <2>3, <2>6, <2>8 DEF v
<1>7. ASSUME error # "none", ~ nested, NEW sample \in Samples[type],
             IsPrefix(EncodeValue(type, sample), wire)
      PROVE  FALSE
  <2> DEFINE s == EncodeValue(type, sample)
  <2>1. IsValue(type, sample)
    BY ValuesAssumption
  <2>2. s \in Seq(Byte)
    BY <1>1, <2>1, ValueCode
  <2>3. Lies(s, 0, wire)
    <3>1. Len(s) <= Len(wire) /\ SubSeq(s, 1, Len(s)) = SubSeq(wire, 1, Len(s))
      BY <1>7 DEF IsPrefix
    <3> HIDE DEF s
    <3>2. Len(s) \in Nat /\ SubSeq(s, 1, Len(s)) = s
      BY <2>2
    <3>3. 0 + Len(s) = Len(s) /\ 0 + 1 = 1
      BY <3>2
    <3>4. Lies(s, 0, wire) <=>
            0 + Len(s) <= Len(wire) /\ SubSeq(wire, 0 + 1, 0 + Len(s)) = s
      BY <2>2, LiesIs
    <3> QED
      BY <3>1, <3>2, <3>3, <3>4
  <2> QED
    BY <1>7, <2>1, <2>3 DEF Settled
<1> QED
  BY <1>3, <1>4, <1>5, <1>6, <1>7 DEF ValuesExact, exact, code

(* A value that is not nested.                                             *)
LEMMA SimpleSettled ==
  ASSUME NEW t, IsType(t), t.form \notin Nested, NEW raw \in Seq(Byte),
         NEW d, NEW err, NEW val, NEW used, NEW c,
         err = DecodeSimple(t, raw).error,
         err = "none" => /\ val = DecodeSimple(t, raw).value
                         /\ used = DecodeSimple(t, raw).used
  PROVE  Settled(t, raw, d, err, val, used, c)
<1>1. IsSimple(t)
  BY DEF IsType
<1>2. \A v : /\ IsValue(t, v) <=> Fits(t, v)
             /\ EncodeValue(t, v) = EncodeSimple(t, v)
  BY DEF IsValue, EncodeValue
<1>3. ASSUME err = "none"
      PROVE  IsValue(t, val) /\ used \in 0 .. Len(raw) /\ Exact(t, val, raw, used)
  <2>1. /\ Fits(t, val) /\ Lies(EncodeSimple(t, val), 0, raw)
        /\ used = Len(EncodeSimple(t, val))
    BY <1>1, <1>3, SimpleRead
  <2>2. Len(EncodeSimple(t, val)) \in Nat
    BY <1>1, <2>1, SimpleCode
  <2>3. used \in 0 .. Len(raw)
    BY <2>1, <2>2 DEF Lies
  <2> QED
    BY <1>2, <2>1, <2>3 DEF Exact
<1>4. ASSUME NEW v, IsValue(t, v), Lies(EncodeValue(t, v), 0, raw)
      PROVE  err = "none" /\ val = v /\ Exact(t, v, raw, used)
  <2>1. Fits(t, v) /\ Lies(EncodeSimple(t, v), 0, raw)
    BY <1>2, <1>4
  <2>2. DecodeSimple(t, raw) = Parsed("none", v, Len(EncodeSimple(t, v)))
    BY <1>1, <2>1, SimpleRoundTrip
  <2>3. err = "none" /\ val = v
    BY <2>2 DEF Parsed
  <2> QED
    BY <1>3, <2>3
<1> QED
  BY <1>3, <1>4 DEF Settled

(* A region is refused where its type refuses it.                          *)
LEMMA RegionForms ==
  ASSUME NEW t, IsType(t), t.form \in {"bytes", "text"}
  PROVE  /\ t.form \notin Nested /\ IsSimple(t)
         /\ \A raw : DecodeSimple(t, raw) = DecodeRegion(t, raw)
<1>1. t.form \notin Nested
  BY DEF Nested
<1>2. IsSimple(t)
  BY <1>1 DEF IsType
<1> QED
  BY <1>1, <1>2, DelimitedForms

-----------------------------------------------------------------------------
(* The loop over the fields.                                               *)

(* What was put in so far is fresh behind the last field and was read from *)
(* the bytes; as long as all is canonical nothing else was in them; and if *)
(* a value of the type lies there its items are the ones that were read.   *)
Fielded(t, raw, d, T, p, e, l, c) ==
  LET read == Delimited(raw)
      items == EncodeItems(t, T)
  IN /\ read.error = "none" /\ e = read.used + read.value
     /\ d.min \in Relaxed .. Canonical /\ ~ d.limited
     /\ d.min # Relaxed /\ ~ d.allowEmpty => read.value > 0
     /\ Pair2(t, T)
     /\ p \in read.used .. Len(raw) /\ l \in Nat \cup {-1}
     /\ c \in NotCanonical .. Canonical
     /\ \A i \in {1, 2} : i - 1 > l => T[i] = FreshSimple(t.items[i])
     /\ read.used + Len(items) <= p
     /\ d.min # Relaxed /\ c = Canonical =>
          Lies(items, read.used, raw) /\ p = read.used + Len(items)
     /\ \A v : IsValue(t, v) /\ Lies(EncodeValue(t, v), 0, raw) =>
          /\ c = Canonical /\ l \in {-1, 0, 1} /\ p = read.used + Len(items)
          /\ \A i \in {1, 2} : i - 1 <= l => T[i] = v[i]

(* The region of a value that lies there.                                  *)
LEMMA PairLies ==
  ASSUME NEW t, IsType(t), t.form \in Nested, NEW raw \in Seq(Byte),
         NEW v, IsValue(t, v), Lies(EncodeValue(t, v), 0, raw)
  PROVE  LET read == Delimited(raw)
             items == EncodeItems(t, v)
         IN /\ Pair2(t, v) /\ items \in Seq(Byte) /\ Len(items) \in Nat
            /\ read.error = "none" /\ read.value = Len(items)
            /\ Lies(items, read.used, raw)
            /\ read.used \in Nat
            /\ read.used + Len(items) = Len(EncodeValue(t, v))
            /\ read.used + Len(items) <= Len(raw)
<1> DEFINE items == EncodeItems(t, v)
<1>1. IsSimple(t.items[1]) /\ IsSimple(t.items[2])
  BY PairType
<1>2. Pair2(t, v) /\ Len(items) < VarintRange
  BY DEF IsValue, Pair2
<1>3. items \in Seq(Byte) /\ Len(items) \in Nat
  BY <1>1, <1>2, ItemsAre
<1>4. EncodeValue(t, v) = Code(items)
  BY DEF EncodeValue, Code
<1> HIDE DEF items
<1> DEFINE n == Len(EncodeVarint(Len(items)))
<1>5. /\ Delimited(raw) = [error |-> "none", value |-> Len(items), used |-> n]
      /\ n \in Nat /\ n + Len(items) <= Len(raw)
      /\ Lies(items, n, raw)
  BY <1>2, <1>3, <1>4, RegionLies
<1>6. Len(Code(items)) = n + Len(items)
  BY <1>2, <1>3, CodeIs
<1> HIDE DEF n
<1> QED
  BY <1>2, <1>3, <1>4, <1>5, <1>6 DEF items

(* It begins with the empty value.                                         *)
LEMMA EnteredFields ==
  ASSUME NEW t, IsType(t), t.form \in Nested, NEW raw \in Seq(Byte),
         Delimited(raw).error = "none", NEW d, d.min \in Relaxed .. Canonical,
         ~ d.limited, d.min # Relaxed /\ ~ d.allowEmpty => Delimited(raw).value # 0
  PROVE  Fielded(t, raw, d, Fresh(t), Delimited(raw).used,
                 Delimited(raw).used + Delimited(raw).value, -1, Canonical)
<1> DEFINE read == Delimited(raw)
           s == read.used
<1>1. s \in Nat /\ read.value \in Nat /\ s + read.value <= Len(raw)
  BY RegionRead
<1>2. /\ Pair2(t, Fresh(t)) /\ EncodeItems(t, Fresh(t)) = <<>>
      /\ \A i \in {1, 2} : Fresh(t)[i] = FreshSimple(t.items[i])
  BY FreshPair
<1> HIDE DEF s
<1>3. s + Len(<<>>) = s /\ Len(<<>>) = 0 /\ s \in s .. Len(raw)
  BY <1>1 DEF s
<1>4. Lies(<<>>, s, raw)
  BY <1>1, <1>3 DEF Lies
<1>5. Canonical \in NotCanonical .. Canonical /\ -1 \in Nat \cup {-1} /\ -1 \in {-1, 0, 1}
  BY DEF NotCanonical, Canonical
<1>6. \A i \in {1, 2} : ~ (i - 1 <= -1)
  OBVIOUS
<1>7. d.min # Relaxed /\ ~ d.allowEmpty => read.value > 0
  BY <1>1
<1> QED
  BY <1>1, <1>2, <1>3, <1>4, <1>5, <1>6, <1>7 DEF Fielded, s

(* A value that lies there is read to its end, or goes on with an item.    *)
LEMMA GoesOn ==
  ASSUME NEW t, IsType(t), t.form \in Nested, NEW raw \in Seq(Byte), NEW d, NEW T,
         NEW p, NEW e, NEW l, NEW c, Fielded(t, raw, d, T, p, e, l, c),
         NEW v, IsValue(t, v), Lies(EncodeValue(t, v), 0, raw)
  PROVE  /\ c = Canonical
         /\ p <= e /\ e = Len(EncodeValue(t, v))
         /\ \/ T = v /\ p = e
            \/ /\ p < e
               /\ \E i \in {1, 2} :
                    /\ v[i] # FreshSimple(t.items[i]) /\ i - 1 > l
                    /\ Fits(t.items[i], v[i])
                    /\ \A j \in {1, 2} : j < i => T[j] = v[j]
                    /\ Lies(EncodeItem(t, v, i), p, raw)
                    /\ p + Len(EncodeItem(t, v, i)) <= e
<1> DEFINE read == Delimited(raw)
           s == read.used
           m == Len(EncodeItems(t, T))
           n == Len(EncodeItems(t, v))
<1>1. IsSimple(t.items[1]) /\ IsSimple(t.items[2])
  BY PairType
<1>2. /\ Pair2(t, v) /\ n \in Nat /\ read.value = n /\ s \in Nat
      /\ Lies(EncodeItems(t, v), s, raw) /\ s + n = Len(EncodeValue(t, v))
  BY PairLies
<1>3. /\ Pair2(t, T) /\ e = s + read.value
      /\ c = Canonical /\ l \in {-1, 0, 1} /\ p = s + m
      /\ \A i \in {1, 2} : i - 1 <= l => T[i] = v[i]
      /\ \A i \in {1, 2} : i - 1 > l => T[i] = FreshSimple(t.items[i])
  BY DEF Fielded
<1>4. m \in Nat
  <2>1. m = ItemLen(t, T, 1) + ItemLen(t, T, 2)
        /\ ItemLen(t, T, 1) \in Nat /\ ItemLen(t, T, 2) \in Nat
    BY <1>1, <1>3, ItemsAre
  <2> QED
    BY <2>1
<1> HIDE DEF s, m, n
<1>5. CASE T = v
  <2>1. m = n
    BY <1>5 DEF m, n
  <2> QED
    BY <1>2, <1>3, <1>4, <1>5, <2>1
<1>6. CASE T # v
  <2>1. PICK i \in {1, 2} :
          /\ v[i] # FreshSimple(t.items[i]) /\ i - 1 > l
          /\ \A j \in {1, 2} : j < i => T[j] = v[j]
          /\ Lies(EncodeItem(t, v, i), s + m, raw)
          /\ m + Len(EncodeItem(t, v, i)) <= n
    BY <1>1, <1>2, <1>3, <1>6, NextItem DEF m, n
  <2>2. Fits(t.items[i], v[i]) /\ IsSimple(t.items[i])
    BY <1>1, <1>2 DEF Pair2
  <2> DEFINE k == Len(EncodeItem(t, v, i))
  <2>3. k \in Nat /\ k > 0
    BY <2>1, <2>2, ItemIs
  <2> HIDE DEF k
  <2>4. m + k <= n
    BY <2>1 DEF k
  <2>5. p < e /\ p + k <= e /\ p <= e
    BY <1>2, <1>3, <1>4, <2>3, <2>4
  <2> QED
    BY <1>2, <1>3, <2>1, <2>2, <2>5 DEF k
<1> QED
  BY <1>5, <1>6

(* The end of the loop.                                                    *)
LEMMA EndSettled ==
  ASSUME NEW t, IsType(t), t.form \in Nested, NEW raw \in Seq(Byte), NEW d, NEW T,
         NEW e, NEW l, NEW c, Fielded(t, raw, d, T, e, e, l, c)
  PROVE  Settled(t, raw, d, "none", T, e, c)
<1> DEFINE read == Delimited(raw)
           s == read.used
           items == EncodeItems(t, T)
<1>1. IsSimple(t.items[1]) /\ IsSimple(t.items[2])
  BY PairType
<1>2. /\ read.error = "none" /\ e = s + read.value /\ Pair2(t, T)
      /\ e \in s .. Len(raw) /\ s + Len(items) <= e /\ ~ d.limited
      /\ d.min # Relaxed /\ ~ d.allowEmpty => read.value > 0
      /\ d.min # Relaxed /\ c = Canonical =>
           Lies(items, s, raw) /\ e = s + Len(items)
  BY DEF Fielded
<1> DEFINE region == SubSeq(raw, s + 1, s + read.value)
<1>3. /\ s \in Nat /\ read.value \in Nat /\ s + read.value <= Len(raw)
      /\ region \in Seq(Byte) /\ Len(region) = read.value /\ Len(region) < VarintRange
      /\ Lies(Code(region), 0, raw) /\ s + read.value = Len(Code(region))
  BY <1>2, RegionRead
<1>4. items \in Seq(Byte) /\ Len(items) \in Nat
  BY <1>1, <1>2, ItemsAre
<1> HIDE DEF s, items, region
<1>5. VarintRange \in Nat /\ Len(items) <= read.value
  BY <1>2, <1>3, <1>4, RangeFacts
<1>6. IsValue(t, T)
  <2>1. Len(items) < VarintRange
    BY <1>3, <1>4, <1>5
  <2> QED
    BY <1>2, <2>1 DEF IsValue, Pair2, items
<1>7. e \in 0 .. Len(raw)
  BY <1>2, <1>3
<1>8. ASSUME d.min # Relaxed, c = Canonical
      PROVE  Exact(t, T, raw, e) /\ (d.allowEmpty \/ T # Fresh(t))
  <2>1. Lies(items, s, raw) /\ Len(items) = read.value
    BY <1>2, <1>3, <1>4, <1>8
  <2>2. SubSeq(raw, s + 1, s + Len(items)) = items
    BY <1>3, <1>4, <2>1, LiesIs
  <2>3. region = items
    BY <2>1, <2>2 DEF region
  <2>4. EncodeValue(t, T) = Code(items)
    BY DEF EncodeValue, Code, items
  <2>5. Exact(t, T, raw, e)
    BY <1>2, <1>3, <2>3, <2>4 DEF Exact
  <2>6. T = Fresh(t) => items = <<>>
    BY FreshPair DEF items
  <2>7. T = Fresh(t) => Len(items) = 0
    BY <2>6
  <2> QED
    BY <1>2, <1>8, <2>1, <2>5, <2>7
<1>9. ASSUME NEW v, IsValue(t, v), Lies(EncodeValue(t, v), 0, raw)
      PROVE  T = v /\ Exact(t, v, raw, e) /\ c = Canonical
  <2>1. ~ (e < e)
    BY <1>7
  <2> QED
    BY <1>9, <2>1, GoesOn DEF Exact
<1> QED
  BY <1>2, <1>6, <1>7, <1>8, <1>9 DEF Settled

(* A pair that is refused where no value lies.                             *)
LEMMA RefusedSettled ==
  ASSUME NEW t, NEW raw, NEW d, NEW err, err # "none", NEW val, NEW used, NEW c,
         \A v : ~ (IsValue(t, v) /\ Lies(EncodeValue(t, v), 0, raw)
                     /\ (t.form \in Nested => ~ d.limited))
  PROVE  Settled(t, raw, d, err, val, used, c)
BY DEF Settled

(* A pair that is not even begun.                                          *)
LEMMA LimitedSettled ==
  ASSUME NEW t, t.form \in Nested, NEW raw, NEW d, d.limited, NEW err, err # "none",
         NEW val, NEW used, NEW c
  PROVE  Settled(t, raw, d, err, val, used, c)
BY DEF Settled

(* No pair lies where there is no region.                                  *)
LEMMA UndelimitedSettled ==
  ASSUME NEW t, IsType(t), t.form \in Nested, NEW raw \in Seq(Byte), NEW d,
         Delimited(raw).error # "none", NEW val, NEW used, NEW c
  PROVE  Settled(t, raw, d, Delimited(raw).error, val, used, c)
BY PairLies, RefusedSettled

(* An empty pair that may not be empty is refused or not canonical.        *)
LEMMA EmptySettled ==
  ASSUME NEW t, IsType(t), t.form \in Nested, NEW raw \in Seq(Byte), NEW d,
         Delimited(raw).error = "none", Delimited(raw).value = 0,
         d.min # Relaxed, ~ d.allowEmpty, NEW err
  PROVE  Settled(t, raw, d, err, Fresh(t), Delimited(raw).used, NotCanonical)
<1>1. Delimited(raw).used \in 0 .. Len(raw)
  <2>1. Delimited(raw).used \in Nat /\ Delimited(raw).used + 0 <= Len(raw)
    BY RegionRead
  <2> QED
    BY <2>1
<1>2. IsValue(t, Fresh(t))
  <2>1. Pair2(t, Fresh(t)) /\ Len(EncodeItems(t, Fresh(t))) = 0
    BY FreshPair
  <2>2. 0 < VarintRange
    BY RegionRead
  <2> QED
    BY <2>1, <2>2 DEF IsValue, Pair2
<1>3. ASSUME NEW v, IsValue(t, v), Lies(EncodeValue(t, v), 0, raw)
      PROVE  v = Fresh(t)
  BY <1>3, PairLies, FreshPair
<1>4. NotCanonical # Canonical
  BY DEF NotCanonical, Canonical
<1> QED
  BY <1>1, <1>2, <1>3, <1>4 DEF Settled

(* The fields of the pair that is decoded.                                 *)
FieldsInv ==
  type.form \in Nested /\ Fielded(type, wire, how, Target, pos, end, last, canon)

(* Where the loop over the fields is.                                      *)
LEMMA FieldsBetween ==
  ASSUME type \in Types, wire \in Seq(Byte), FieldsInv
  PROVE  /\ Between /\ IsType(type)
         /\ IsSimple(type.items[1]) /\ IsSimple(type.items[2])
<1>1. Delimited(wire).error = "none" /\ end = Delimited(wire).used + Delimited(wire).value
  BY DEF FieldsInv, Fielded
<1>2. /\ Delimited(wire).used \in Nat /\ Delimited(wire).value \in Nat
      /\ end <= Len(wire) /\ end \in Nat
  BY <1>1, RegionRead
<1>3. pos \in Delimited(wire).used .. Len(wire) /\ last \in Nat \cup {-1}
  BY DEF FieldsInv, Fielded
<1>4. pos \in 0 .. Len(wire)
  BY <1>2, <1>3
<1>5. IsType(type)
  BY TypesAre
<1> QED
  BY <1>2, <1>3, <1>4, <1>5, PairType DEF Between, FieldsInv

(* If a value lies there its next item is what is decoded.                 *)
LEMMA Expected ==
  ASSUME type \in Types, wire \in Seq(Byte), FieldsInv, pos < end,
         NEW v, IsValue(type, v), Lies(EncodeValue(type, v), 0, wire)
  PROVE  /\ Key.error = "none"
         /\ \E i \in {1, 2} :
              /\ KeyTag(Key) = i - 1 /\ i - 1 > last
              /\ Key.value % 4 = WireTypeOf(type.items[i])
              /\ v[i] # FreshSimple(type.items[i])
              /\ DecodeCapped(type.items[i], Behind(Key), Cap(Key)).error = "none"
              /\ DecodeCapped(type.items[i], Behind(Key), Cap(Key)).value = v[i]
              /\ pos + Key.used + DecodeCapped(type.items[i], Behind(Key), Cap(Key)).used
                   = pos + Len(EncodeItem(type, v, i))
              /\ \A j \in {1, 2} : j < i => Target[j] = v[j]
<1>1. /\ Between /\ IsType(type)
      /\ IsSimple(type.items[1]) /\ IsSimple(type.items[2])
  BY FieldsBetween
<1>2. pos \in Nat /\ end \in Nat /\ ~ (pos = end)
  BY <1>1 DEF Between
<1>3. PICK i \in {1, 2} :
        /\ v[i] # FreshSimple(type.items[i]) /\ i - 1 > last
        /\ Fits(type.items[i], v[i])
        /\ \A j \in {1, 2} : j < i => Target[j] = v[j]
        /\ Lies(EncodeItem(type, v, i), pos, wire)
        /\ pos + Len(EncodeItem(type, v, i)) <= end
  BY <1>1, <1>2, GoesOn DEF FieldsInv
<1> DEFINE k == Len(EncodeItem(type, v, i))
           read == DecodeCapped(type.items[i], Behind(Key), Cap(Key))
<1>4. /\ Key.error = "none" /\ KeyTag(Key) = i - 1
      /\ Key.value % 4 = WireTypeOf(type.items[i])
      /\ read = Parsed("none", v[i], k - 1)
      /\ Key.used = 1 /\ k \in Nat
  BY <1>1, <1>3, ItemFollows
<1> HIDE DEF k
<1>5. read.error = "none" /\ read.value = v[i] /\ read.used = k - 1
  BY <1>4 DEF Parsed
<1>6. pos + Key.used + read.used = pos + k
  BY <1>2, <1>4, <1>5
<1> QED
  BY <1>3, <1>4, <1>5, <1>6 DEF k

(* The lower of two canonicities is the highest only if both are.          *)
LEMMA LowerIs ==
  ASSUME NEW a \in NotCanonical .. Canonical, NEW b \in NotCanonical .. Canonical
  PROVE  /\ Lower(a, b) \in NotCanonical .. Canonical
         /\ Lower(a, b) = Canonical <=> a = Canonical /\ b = Canonical
BY DEF Lower, NotCanonical, Canonical

(* An item that is taken is one more of what was read.                     *)
LEMMA ItemStored ==
  ASSUME type \in Types, wire \in Seq(Byte), FieldsInv, pos < end,
         Key.error = "none", NEW i \in {1, 2}, KeyTag(Key) = i - 1,
         KeyTag(Key) # last, Key.value % 4 = WireTypeOf(type.items[i]),
         NEW read, read = DecodeCapped(type.items[i], Behind(Key), Cap(Key)),
         read.error = "none"
  PROVE  Fielded(type, wire, how, [Target EXCEPT ![i] = read.value],
                 pos + Key.used + read.used, end, i - 1,
                 Lower(canon, Found(type.items[i], read.value)))
<1> DEFINE T == Target
           x == read.value
           U == [T EXCEPT ![i] = x]
           q == pos + Key.used + read.used
           found == Found(type.items[i], x)
           c == Lower(canon, found)
           s == Delimited(wire).used
           code == EncodeVarint(ItemKey(type, i)) \o EncodeSimple(type.items[i], x)
           before == EncodeItems(type, T)
           added == EncodeItem(type, U, i)
           after == EncodeItems(type, U)
<1>1. /\ Between /\ IsType(type)
      /\ IsSimple(type.items[1]) /\ IsSimple(type.items[2])
  BY FieldsBetween
<1>2. /\ Delimited(wire).error = "none"
      /\ end = Delimited(wire).used + Delimited(wire).value
      /\ how.min \in Relaxed .. Canonical /\ ~ how.limited
      /\ how.min # Relaxed /\ ~ how.allowEmpty => Delimited(wire).value > 0
      /\ Pair2(type, T) /\ pos \in s .. Len(wire) /\ canon \in NotCanonical .. Canonical
      /\ \A j \in {1, 2} : j - 1 > last => T[j] = FreshSimple(type.items[j])
      /\ s + Len(before) <= pos
      /\ how.min # Relaxed /\ canon = Canonical =>
           Lies(before, s, wire) /\ pos = s + Len(before)
  BY DEF FieldsInv, Fielded
<1>3. s \in Nat
  BY <1>2, RegionRead
<1>4. /\ last \in {-1, 0} /\ i - 1 > last
      /\ Fits(type.items[i], read.value)
      /\ code \in Seq(Byte) /\ Len(code) \in Nat
      /\ Len(code) = 1 + Len(EncodeSimple(type.items[i], read.value))
      /\ Lies(code, pos, wire)
      /\ q = pos + Len(code) /\ q <= Len(wire)
  BY <1>1, ItemTaken
<1> HIDE DEF T, x
<1>5. \A j \in {1, 2} : j >= i => T[j] = FreshSimple(type.items[j])
  BY <1>2, <1>4, SMTT(30)
<1>6. /\ Pair2(type, U) /\ U[i] = x
      /\ \A j \in {1, 2} : j # i => U[j] = T[j]
      /\ after = before \o added
  <2>1. T = <<T[1], T[2]>> /\ Fits(type.items[1], T[1]) /\ Fits(type.items[2], T[2])
    BY <1>2 DEF Pair2
  <2>2. U = <<U[1], U[2]>> /\ U[i] = x /\ \A j \in {1, 2} : j # i => U[j] = T[j]
    <3>1. CASE i = 1
      BY ONLY <2>1, <3>1
    <3>2. CASE i = 2
      BY ONLY <2>1, <3>2
    <3> QED
      BY <3>1, <3>2
  <2> HIDE DEF U
  <2>3. Fits(type.items[1], U[1]) /\ Fits(type.items[2], U[2])
    <3>1. Fits(type.items[i], U[i])
      BY <1>4, <2>2 DEF x
    <3> QED
      BY <2>1, <2>2, <3>1
  <2>4. Pair2(type, U)
    BY <2>2, <2>3 DEF Pair2
  <2>5. EncodeItems(type, U) = EncodeItems(type, T) \o EncodeItem(type, U, i)
    BY <1>1, <1>2, <1>5, <2>2, <2>4, Stored
  <2> QED
    BY <2>2, <2>4, <2>5
<1>7. /\ before \in Seq(Byte) /\ Len(before) \in Nat
  <2>1. before \in Seq(Byte) /\ Len(before) = ItemLen(type, T, 1) + ItemLen(type, T, 2)
        /\ ItemLen(type, T, 1) \in Nat /\ ItemLen(type, T, 2) \in Nat
    BY <1>1, <1>2, ItemsAre
  <2> HIDE DEF before
  <2> QED
    BY <2>1
<1>8. /\ added \in Seq(Byte) /\ Len(added) \in Nat /\ Len(added) <= Len(code)
      /\ x # FreshSimple(type.items[i]) => added = code
  <2>1. Fits(type.items[i], U[i]) /\ IsSimple(type.items[i])
    BY <1>1, <1>4, <1>6 DEF x
  <2>2. /\ added \in Seq(Byte) /\ Len(added) = ItemLen(type, U, i)
        /\ ItemLen(type, U, i) \in Nat
        /\ U[i] = FreshSimple(type.items[i]) => ItemLen(type, U, i) = 0
        /\ U[i] # FreshSimple(type.items[i]) => added = code
    <3> HIDE DEF U
    <3>1. /\ EncodeItem(type, U, i) \in Seq(Byte)
          /\ Len(EncodeItem(type, U, i)) = ItemLen(type, U, i)
          /\ ItemLen(type, U, i) \in Nat
          /\ U[i] = FreshSimple(type.items[i]) => ItemLen(type, U, i) = 0
          /\ U[i] # FreshSimple(type.items[i]) =>
               EncodeItem(type, U, i) =
                 EncodeVarint(ItemKey(type, i)) \o EncodeSimple(type.items[i], U[i])
      BY ONLY <2>1, i \in {1, 2}, ItemIs
    <3> QED
      BY ONLY <1>6, <3>1
  <2> HIDE DEF added, U, code
  <2> QED
    BY <1>4, <1>6, <2>2
<1> HIDE DEF U, q, found, c, code, before, added, after, s
<1>9. Len(after) = Len(before) + Len(added) /\ after \in Seq(Byte)
  BY <1>6, <1>7, <1>8, ConcatProperties
<1>10. found \in NotCanonical .. Canonical
       /\ (how.min # Relaxed /\ found = Canonical => x # FreshSimple(type.items[i]))
       /\ (x # FreshSimple(type.items[i]) => found = Canonical)
  BY DEF found, Found, EmptyItem, NotCanonical, Canonical
<1>11. c \in NotCanonical .. Canonical
       /\ (c = Canonical <=> canon = Canonical /\ found = Canonical)
  BY <1>2, <1>10, LowerIs DEF c
<1>12. /\ s + Len(after) <= q /\ q \in s .. Len(wire)
       /\ i - 1 \in Nat \cup {-1} /\ i - 1 \in {-1, 0, 1}
  <2> DEFINE n == Len(code)
             m == Len(before)
             k == Len(added)
  <2>1. /\ m \in Nat /\ k \in Nat /\ n \in Nat /\ k <= n /\ Len(after) = m + k
        /\ q = pos + n /\ q <= Len(wire) /\ s + m <= pos
    BY <1>2, <1>4, <1>7, <1>8, <1>9
  <2>2. pos \in Nat /\ s <= pos /\ Len(wire) \in Nat
    BY <1>1, <1>2 DEF Between
  <2> HIDE DEF n, m, k
  <2>3. s + Len(after) <= q /\ q \in s .. Len(wire)
    BY ONLY <1>3, <2>1, <2>2
  <2> QED
    BY <2>3
<1>13. \A j \in {1, 2} : j - 1 > i - 1 => U[j] = FreshSimple(type.items[j])
  BY <1>5, <1>6
<1>14. ASSUME how.min # Relaxed, c = Canonical
       PROVE  Lies(after, s, wire) /\ q = s + Len(after)
  <2>1. Lies(before, s, wire) /\ pos = s + Len(before) /\ added = code
    <3>1. canon = Canonical /\ found = Canonical
      BY ONLY <1>11, <1>14
    <3>2. x # FreshSimple(type.items[i])
      BY ONLY <1>10, <1>14, <3>1
    <3> QED
      BY ONLY <1>2, <1>8, <1>14, <3>1, <3>2
  <2>2. Lies(added, s + Len(before), wire)
    BY <1>4, <2>1
  <2>3. Lies(before \o added, s, wire)
    BY <1>3, <1>7, <1>8, <2>1, <2>2, LiesBoth
  <2>4. q = s + Len(after)
    BY ONLY <1>3, <1>4, <1>7, <1>9, <2>1
  <2> QED
    BY <1>6, <2>3, <2>4
<1>15. ASSUME NEW v, IsValue(type, v), Lies(EncodeValue(type, v), 0, wire)
       PROVE  /\ c = Canonical /\ q = s + Len(after)
              /\ \A j \in {1, 2} : j - 1 <= i - 1 => U[j] = v[j]
  <2>1. PICK k \in {1, 2} :
          /\ KeyTag(Key) = k - 1
          /\ v[k] # FreshSimple(type.items[k])
          /\ DecodeCapped(type.items[k], Behind(Key), Cap(Key)).value = v[k]
          /\ \A j \in {1, 2} : j < k => T[j] = v[j]
    BY <1>15, Expected DEF T
  <2>2. k = i
    BY <2>1
  <2>3. v[i] = x /\ x # FreshSimple(type.items[i])
    BY <2>1, <2>2 DEF x
  <2>4. canon = Canonical /\ pos = s + Len(before)
    BY <1>15 DEF FieldsInv, Fielded, T, before, s
  <2>5. added = code /\ found = Canonical
    BY <1>8, <1>10, <2>3
  <2>6. q = s + Len(after)
    <3>1. q = (s + Len(before)) + Len(added)
      BY ONLY <1>4, <2>4, <2>5
    <3>2. Len(after) = Len(before) + Len(added)
      BY ONLY <1>9
    <3> QED
      BY ONLY <1>3, <1>7, <1>8, <3>1, <3>2
  <2>7. \A j \in {1, 2} : j - 1 <= i - 1 => U[j] = v[j]
    BY <1>6, <2>1, <2>2, <2>3
  <2> QED
    BY <1>11, <2>4, <2>5, <2>6, <2>7
<1> HIDE DEF Between
<1>16. Fielded(type, wire, how, U, q, end, i - 1, c)
  BY <1>2, <1>6, <1>11, <1>12, <1>13, <1>14, <1>15 DEF Fielded, s, after
<1> QED
  BY <1>16 DEF U, q, c, found, T, x

-----------------------------------------------------------------------------
(* The process.                                                            *)

(* Bytes that are copied are those of the region.                          *)
CopyInv ==
  LET region == Delimited(wire) IN
    /\ type.form \in {"bytes", "text"} /\ region.error = "none"
    /\ end = region.used + region.value
    /\ pos \in region.used .. end
    /\ value = SubSeq(wire, region.used + 1, pos)

(* The inductive invariant.                                                *)
ExactInv ==
  /\ type \in Types /\ wire \in Seq(Byte) /\ OriginInv
  /\ phase = "held" => IsValue(type, value)
  /\ phase \in {"held", "sent", "copying", "fields"} => error = "none"
  /\ phase \in {"held", "sent", "copying"} => canon = Canonical
  /\ phase = "copying" => CopyInv
  /\ phase = "fields" => FieldsInv
  /\ phase = "done" => Settled(type, wire, how, error, value, pos, canon)

(* The invariant says what was decoded.                                    *)
LEMMA ExactInvExact == ExactInv => ValuesExact
<1>1. CASE phase = "done"
  BY <1>1, SettledExact DEF ExactInv
<1>2. CASE phase # "done"
  BY <1>2 DEF ValuesExact
<1> QED
  BY <1>1, <1>2

(* It holds of the samples and of bytes that nothing encoded.              *)
LEMMA InitExact == Init => ExactInv
<1> SUFFICES ASSUME Init
             PROVE  ExactInv
  OBVIOUS
<1>1. PICK t \in Types :
        /\ type = t
        /\ \/ phase = "held" /\ value \in Samples[t] /\ wire = <<>>
           \/ phase = "sent" /\ wire \in Raw
  BY DEF Init
<1>2. wire \in Seq(Byte)
  BY <1>1, EmptySeq, ValuesAssumption
<1>3. origin = <<>> /\ canon = Canonical /\ error = "none"
  BY DEF Init
<1>4. phase = "held" => IsValue(type, value)
  BY <1>1, ValuesAssumption
<1>5. phase \in {"held", "sent"}
  BY <1>1
<1> QED
  BY <1>1, <1>2, <1>3, <1>4, <1>5 DEF ExactInv, OriginInv

(* A decoding that ends.                                                   *)
LEMMA FinishExact ==
  ASSUME ExactInv, NEW err, NEW val, NEW advanced, NEW canonicity,
         Finish(err, val, advanced, canonicity), type' \in Types,
         UNCHANGED <<wire, origin>>,
         Settled(type', wire, how', err, val, advanced, canonicity)
  PROVE  ExactInv'
<1>1. /\ phase' = "done" /\ error' = err /\ value' = val /\ pos' = advanced
      /\ canon' = canonicity
  BY DEF Finish
<1>2. Settled(type', wire', how', error', value', pos', canon')
  BY <1>1
<1>3. OriginInv' /\ wire' \in Seq(Byte)
  BY DEF ExactInv, OriginInv
<1> QED
  BY <1>1, <1>2, <1>3 DEF ExactInv

(* What is encoded lies at the start of the bytes.                         *)
LEMMA EncodeExact ==
  ASSUME ExactInv, Encode
  PROVE  ExactInv'
<1>1. PICK suffix \in Trailers : wire' = EncodeValue(type, value) \o suffix
  BY DEF Encode
<1> DEFINE code == EncodeValue(type, value)
<1>2. type \in Types /\ IsValue(type, value) /\ error = "none" /\ canon = Canonical
  BY DEF ExactInv, Encode
<1>3. code \in Seq(Byte)
  BY <1>2, TypesAre, ValueCode
<1>4. suffix \in Seq(Byte)
  BY <1>1, ValuesAssumption
<1> HIDE DEF code
<1>5. wire' = code \o suffix
  BY <1>1 DEF code
<1>6. /\ code \o suffix \in Seq(Byte) /\ Len(code \o suffix) = Len(code) + Len(suffix)
      /\ \A i \in 1 .. Len(code) : (code \o suffix)[i] = code[i]
      /\ Len(code) \in Nat /\ Len(suffix) \in Nat
  BY <1>3, <1>4, ConcatProperties
<1>7. Lies(code, 0, wire')
  <2>1. 0 + Len(code) <= Len(code \o suffix)
    BY <1>6
  <2>2. \A i \in 1 .. Len(code) : 0 + i = i
    BY <1>6
  <2> QED
    BY <1>5, <1>6, <2>1, <2>2 DEF Lies
<1>8. OriginInv'
  <2>1. origin' = <<[type |-> type, value |-> value]>>
    BY DEF Encode
  <2> QED
    BY <1>2, <1>7, <2>1 DEF OriginInv, code
<1>9. phase' = "sent" /\ UNCHANGED <<type, canon, error>>
  BY DEF Encode
<1> QED
  BY <1>2, <1>5, <1>6, <1>8, <1>9 DEF ExactInv

(* Damaged bytes are bytes, of which nothing is known.                     *)
LEMMA DamageExact ==
  ASSUME ExactInv, Damage
  PROVE  ExactInv'
<1>1. wire \in Seq(Byte) /\ type \in Types /\ error = "none" /\ canon = Canonical
  BY DEF ExactInv, Damage
<1>2. wire' \in Seq(Byte)
  <2>1. CASE \E n \in 0 .. Len(wire) - 1 : wire' = SubSeq(wire, 1, n)
    <3>1. PICK n \in 0 .. Len(wire) - 1 : wire' = SubSeq(wire, 1, n)
      BY <2>1
    <3>2. n \in Int /\ n <= Len(wire) /\ 0 \in Nat /\ 0 + 1 = 1
      BY <1>1, <3>1
    <3>3. SubSeq(wire, 0 + 1, n) \in Seq(Byte)
      BY ONLY <1>1, <3>2, SliceIs
    <3> QED
      BY <3>1, <3>2, <3>3
  <2>2. CASE \E i \in DOMAIN wire, byte \in {0, ContinueBit + 1} :
               wire' = [wire EXCEPT ![i] = byte]
    <3>1. {0, ContinueBit + 1} \subseteq Byte
      BY WireAssumption DEF Byte
    <3>2. PICK i \in DOMAIN wire, byte \in Byte : wire' = [wire EXCEPT ![i] = byte]
      BY <2>2, <3>1
    <3> QED
      BY <1>1, <3>2, ExceptSeq
  <2> QED
    BY <2>1, <2>2 DEF Damage
<1>3. origin' = <<>> /\ phase' = "sent" /\ UNCHANGED <<type, canon, error>>
  BY DEF Damage
<1> QED
  BY <1>1, <1>2, <1>3 DEF ExactInv, OriginInv

(* What was decoded without an error is a value of its type.               *)
LEMMA KeepExact ==
  ASSUME ExactInv, Keep
  PROVE  ExactInv'
<1>1. /\ phase' = "held" /\ wire' = <<>> /\ origin' = <<>> /\ canon' = Canonical
      /\ UNCHANGED <<type, value, error>> /\ error = "none"
  BY DEF Keep
<1>2. IsValue(type, value) /\ type \in Types
  BY <1>1 DEF ExactInv, Keep, Settled
<1> QED
  BY <1>1, <1>2, EmptySeq DEF ExactInv, OriginInv

(* A value that is decoded in one step.                                    *)
LEMMA DecodeAtOnceExact ==
  ASSUME ExactInv, DecodeAtOnce
  PROVE  ExactInv'
<1>1. PICK t \in Types, min \in {Relaxed, Canonical} :
        /\ t.form \notin Nested /\ type' = t
        /\ how' = [Relaxing EXCEPT !.min = min]
        /\ Finish(DecodeSimple(t, wire).error,
                  IF DecodeSimple(t, wire).error = "none"
                  THEN DecodeSimple(t, wire).value ELSE Fresh(t),
                  DecodeSimple(t, wire).used, Canonical)
  BY DEF DecodeAtOnce
<1> DEFINE decoded == DecodeSimple(t, wire)
           val == IF decoded.error = "none" THEN decoded.value ELSE Fresh(t)
<1>2. wire \in Seq(Byte) /\ IsType(t) /\ UNCHANGED <<wire, origin>>
  BY <1>1, TypesAre DEF ExactInv, DecodeAtOnce
<1>3. Settled(type', wire, how', decoded.error, val, decoded.used, Canonical)
  <2>1. decoded.error = "none" => val = decoded.value
    OBVIOUS
  <2> HIDE DEF val
  <2> QED
    BY <1>1, <1>2, <2>1, SimpleSettled
<1> QED
  BY <1>1, <1>2, <1>3, FinishExact

(* A string or bytes that are borrowed.                                    *)
LEMMA BorrowExact ==
  ASSUME ExactInv, Borrow
  PROVE  ExactInv'
<1>1. PICK t \in Types :
        /\ t.form \in {"bytes", "text"} /\ type' = t
        /\ Finish(DecodeRegion(t, wire).error,
                  IF DecodeRegion(t, wire).error = "none"
                  THEN DecodeRegion(t, wire).value ELSE Old(t),
                  DecodeRegion(t, wire).used, Canonical)
  BY DEF Borrow
<1> DEFINE decoded == DecodeRegion(t, wire)
           val == IF decoded.error = "none" THEN decoded.value ELSE Old(t)
<1>2. wire \in Seq(Byte) /\ IsType(t) /\ UNCHANGED <<wire, origin>>
  BY <1>1, TypesAre DEF ExactInv, Borrow
<1>3. t.form \notin Nested /\ decoded = DecodeSimple(t, wire)
  BY <1>1, <1>2, RegionForms
<1>4. Settled(type', wire, how', decoded.error, val, decoded.used, Canonical)
  <2>1. decoded.error = "none" => val = decoded.value
    OBVIOUS
  <2> HIDE DEF val, decoded
  <2> QED
    BY <1>1, <1>2, <1>3, <2>1, SimpleSettled
<1> QED
  BY <1>1, <1>2, <1>4, FinishExact

(* What the region of a string or of bytes is decoded as.                  *)
LEMMA RegionForm ==
  ASSUME NEW t, t.form \in {"bytes", "text"}, NEW raw
  PROVE  LET region == Delimited(raw)
             stop == region.used + region.value
             part == SubSeq(raw, region.used + 1, stop)
         IN /\ region.error # "none" => DecodeRegion(t, raw).error = region.error
            /\ region.error = "none" /\ t.form = "text" /\ ~ IsText(part) =>
                 DecodeRegion(t, raw).error = "InvalidValue"
            /\ region.error = "none" /\ ~ (t.form = "text" /\ ~ IsText(part)) =>
                 DecodeRegion(t, raw) = Parsed("none", part, stop)
BY DEF DecodeRegion, FromRegion, Parsed

(* A string or bytes that are copied chunk by chunk are the region.        *)
LEMMA CopyExact ==
  ASSUME ExactInv, BeginCopy \/ CopyChunk \/ EndCopy \/ Panic
  PROVE  ExactInv'
<1> DEFINE region == Delimited(wire)
           stop == region.used + region.value
<1>1. wire \in Seq(Byte) /\ type \in Types /\ OriginInv
  BY DEF ExactInv
<1>2. region.error = "none" =>
        region.used \in Nat /\ region.value \in Nat /\ stop <= Len(wire)
  BY <1>1, RegionRead
<1>3. CASE BeginCopy
  <2>1. PICK t \in Types :
          /\ t.form \in {"bytes", "text"} /\ type' = t
          /\ IF region.error # "none"
             THEN Finish(region.error, Old(t), region.used, Canonical)
             ELSE /\ phase' = "copying" /\ value' = <<>> /\ pos' = region.used
                  /\ end' = stop /\ UNCHANGED <<error, canon>>
    BY <1>3 DEF BeginCopy
  <2>2. UNCHANGED <<wire, origin>> /\ phase = "sent" /\ IsType(t)
    BY <1>3, TypesAre DEF BeginCopy
  <2>3. CASE region.error # "none"
    <3>1. /\ t.form \notin Nested
          /\ DecodeSimple(t, wire).error = region.error
      BY <2>1, <2>2, <2>3, RegionForms, RegionForm
    <3> HIDE DEF region
    <3>2. Settled(type', wire, how', region.error, Old(t), region.used, Canonical)
      BY <1>1, <2>1, <2>2, <2>3, <3>1, SimpleSettled
    <3> QED
      BY <2>1, <2>2, <2>3, <3>2, FinishExact
  <2>4. CASE region.error = "none"
    <3>1. SubSeq(wire, region.used + 1, region.used) = <<>>
      BY <1>1, <1>2, <2>4, SliceIs
    <3>2. region.used \in region.used .. stop
      BY <1>2, <2>4
    <3>3. CopyInv'
      BY <2>1, <2>2, <2>4, <3>1, <3>2 DEF CopyInv
    <3>4. error = "none" /\ canon = Canonical
      BY <2>2 DEF ExactInv
    <3> HIDE DEF region, stop
    <3> QED
      BY <1>1, <2>1, <2>2, <2>4, <3>3, <3>4 DEF ExactInv, OriginInv
  <2> QED
    BY <2>3, <2>4
<1>4. CASE CopyChunk
  <2>1. PICK n \in 1 .. end - pos :
          /\ value' = value \o SubSeq(wire, pos + 1, pos + n)
          /\ pos' = pos + n
    BY <1>4 DEF CopyChunk
  <2>2. /\ phase = "copying"
        /\ UNCHANGED <<type, origin, wire, how, phase, end, canon, error>>
    BY <1>4 DEF CopyChunk
  <2>3. CopyInv
    BY <2>2 DEF ExactInv
  <2> DEFINE s == region.used
             q == pos + n
  <2>4. /\ region.error = "none" /\ end = stop /\ pos \in s .. end
        /\ value = SubSeq(wire, s + 1, pos)
    BY <2>3 DEF CopyInv
  <2>5. s \in Nat /\ end \in Nat /\ end <= Len(wire) /\ Len(wire) \in Nat
    BY <1>1, <1>2, <2>4
  <2>6. pos \in Nat /\ s <= pos /\ n \in Nat /\ q \in Nat /\ pos <= q /\ q <= end
        /\ q - pos = n
    BY <2>1, <2>4, <2>5
  <2> HIDE DEF s, q
  <2>7. value' = SubSeq(wire, s + 1, pos) \o SubSeq(wire, pos + 1, q)
    BY <2>1, <2>4 DEF q
  <2>8. SubSeq(wire, s + 1, pos) \o SubSeq(wire, pos + 1, q) = SubSeq(wire, s + 1, q)
    <3>1. /\ SubSeq(wire, s + 1, pos) \in Seq(Byte)
          /\ Len(SubSeq(wire, s + 1, pos)) = pos - s
          /\ \A i \in 1 .. pos - s : SubSeq(wire, s + 1, pos)[i] = wire[s + i]
      BY ONLY <1>1, <2>5, <2>6, SliceIs
    <3>2. /\ SubSeq(wire, pos + 1, q) \in Seq(Byte)
          /\ Len(SubSeq(wire, pos + 1, q)) = q - pos
          /\ \A i \in 1 .. q - pos : SubSeq(wire, pos + 1, q)[i] = wire[pos + i]
      BY ONLY <1>1, <2>5, <2>6, SliceIs
    <3>3. /\ SubSeq(wire, s + 1, q) \in Seq(Byte)
          /\ Len(SubSeq(wire, s + 1, q)) = q - s
          /\ \A i \in 1 .. q - s : SubSeq(wire, s + 1, q)[i] = wire[s + i]
      BY ONLY <1>1, <2>5, <2>6, SliceIs
    <3> DEFINE x == SubSeq(wire, s + 1, pos)
               y == SubSeq(wire, pos + 1, q)
               z == SubSeq(wire, s + 1, q)
    <3> HIDE DEF x, y, z
    <3>4. /\ x \in Seq(Byte) /\ Len(x) = pos - s /\ \A i \in 1 .. pos - s : x[i] = wire[s + i]
          /\ y \in Seq(Byte) /\ Len(y) = q - pos /\ \A i \in 1 .. q - pos : y[i] = wire[pos + i]
          /\ z \in Seq(Byte) /\ Len(z) = q - s /\ \A i \in 1 .. q - s : z[i] = wire[s + i]
      BY <3>1, <3>2, <3>3 DEF x, y, z
    <3>5. /\ x \o y \in Seq(Byte) /\ Len(x \o y) = Len(x) + Len(y)
          /\ \A i \in 1 .. Len(x) : (x \o y)[i] = x[i]
          /\ \A i \in Len(x) + 1 .. Len(x) + Len(y) : (x \o y)[i] = y[i - Len(x)]
      <4>1. x \in Seq(Byte) /\ y \in Seq(Byte)
        BY <3>4
      <4> QED
        BY ONLY <4>1, ConcatProperties
    <3>6. Len(x \o y) = Len(z)
      BY ONLY <2>5, <2>6, <3>4, <3>5
    <3>7. ASSUME NEW i \in 1 .. Len(x \o y)
          PROVE  (x \o y)[i] = z[i]
      <4>1. i \in 1 .. q - s /\ z[i] = wire[s + i]
        BY ONLY <2>5, <2>6, <3>4, <3>6, i \in 1 .. Len(x \o y)
      <4>2. CASE i <= pos - s
        <5>1. i \in 1 .. pos - s /\ i \in 1 .. Len(x)
          BY ONLY <2>5, <2>6, <3>4, <4>1, <4>2
        <5> QED
          BY ONLY <3>4, <3>5, <4>1, <5>1
      <4>3. CASE i > pos - s
        <5>1. i - Len(x) \in 1 .. q - pos /\ i \in Len(x) + 1 .. Len(x) + Len(y)
          BY ONLY <2>5, <2>6, <3>4, <4>1, <4>3
        <5>2. pos + (i - Len(x)) = s + i
          BY ONLY <2>5, <2>6, <3>4, <4>1
        <5>3. y[i - Len(x)] = wire[s + i]
          BY ONLY <3>4, <5>1, <5>2
        <5> QED
          BY ONLY <3>5, <4>1, <5>1, <5>3
      <4> QED
        BY ONLY <2>5, <2>6, <4>1, <4>2, <4>3
    <3>8. x \o y = z
      BY ONLY <3>4, <3>5, <3>6, <3>7, SeqEqual
    <3> QED
      BY <3>8 DEF x, y, z
  <2>9. q \in s .. end
    BY <2>5, <2>6
  <2>10. CopyInv'
    BY <2>1, <2>2, <2>3, <2>7, <2>8, <2>9 DEF CopyInv, s, q
  <2>11. error = "none" /\ canon = Canonical
    BY <2>2 DEF ExactInv
  <2> QED
    BY <1>1, <2>2, <2>10, <2>11 DEF ExactInv, OriginInv
<1>5. CASE EndCopy
  <2>1. /\ phase = "copying" /\ pos = end /\ UNCHANGED <<type, wire, origin, how>>
        /\ IF type.form = "text" /\ ~ IsText(value)
           THEN Finish("InvalidValue", Guarded(type, value), pos, Canonical)
           ELSE Finish("none", value, pos, Canonical)
    BY <1>5 DEF EndCopy
  <2>2. /\ type.form \in {"bytes", "text"} /\ region.error = "none" /\ end = stop
        /\ value = SubSeq(wire, region.used + 1, stop)
    BY <2>1 DEF ExactInv, CopyInv
  <2>3. IsType(type) /\ type.form \notin Nested
        /\ DecodeSimple(type, wire) = DecodeRegion(type, wire)
    BY <1>1, <2>2, TypesAre, RegionForms
  <2> HIDE DEF region, stop
  <2>4. CASE type.form = "text" /\ ~ IsText(value)
    <3>1. DecodeRegion(type, wire).error = "InvalidValue"
      BY <2>2, <2>4, RegionForm DEF region, stop
    <3>2. Settled(type', wire, how', "InvalidValue", Guarded(type, value), pos, Canonical)
      BY <1>1, <2>1, <2>3, <3>1, SimpleSettled
    <3> QED
      BY <1>1, <2>1, <2>4, <3>2, FinishExact
  <2>5. CASE ~ (type.form = "text" /\ ~ IsText(value))
    <3>1. DecodeRegion(type, wire) = Parsed("none", value, pos)
      BY <2>1, <2>2, <2>5, RegionForm DEF region, stop
    <3>2. /\ DecodeSimple(type, wire).error = "none"
          /\ DecodeSimple(type, wire).value = value
          /\ DecodeSimple(type, wire).used = pos
      BY <2>3, <3>1 DEF Parsed
    <3>3. Settled(type', wire, how', "none", value, pos, Canonical)
      BY <1>1, <2>1, <2>3, <3>2, SimpleSettled
    <3> QED
      BY <1>1, <2>1, <2>5, <3>3, FinishExact
  <2> QED
    BY <2>4, <2>5
<1>6. CASE Panic
  <2>1. phase' = "panicked" /\ UNCHANGED <<type, wire, origin>>
    BY <1>6 DEF Panic
  <2> QED
    BY <1>1, <2>1 DEF ExactInv, OriginInv
<1> QED
  BY <1>3, <1>4, <1>5, <1>6

(* The loop over the fields begins.                                        *)
LEMMA EnterExact ==
  ASSUME ExactInv, phase = "sent", UNCHANGED <<wire, origin>>,
         NEW t \in Types, t.form \in Nested, type' = t,
         NEW d \in Decodings, how' = d, ~ d.limited,
         Delimited(wire).error = "none",
         d.min # Relaxed /\ ~ d.allowEmpty => Delimited(wire).value # 0,
         Enter(t, Delimited(wire))
  PROVE  ExactInv'
<1> DEFINE region == Delimited(wire)
<1>1. wire \in Seq(Byte) /\ OriginInv /\ error = "none" /\ canon = Canonical
  BY DEF ExactInv
<1>2. IsType(t) /\ d.min \in Relaxed .. Canonical
  BY TypesAre, ValuesAssumption
<1>3. Fielded(t, wire, d, Fresh(t), region.used, region.used + region.value, -1, Canonical)
  BY <1>1, <1>2, EnteredFields
<1>4. /\ phase' = "fields" /\ pos' = region.used /\ end' = region.used + region.value
      /\ last' = -1 /\ error' = error /\ canon' = canon
      /\ value' = Fresh(t) /\ taken' = IF t.form = "inclusive" THEN Fresh(t) ELSE <<>>
  BY DEF Enter
<1>5. Target' = Fresh(t)
  BY <1>4 DEF Target
<1> HIDE DEF region
<1>6. Fielded(type', wire', how', Target', pos', end', last', canon')
  BY <1>1, <1>3, <1>4, <1>5
<1>7. FieldsInv'
  BY <1>6 DEF FieldsInv
<1>8. OriginInv'
  BY <1>1 DEF OriginInv
<1> QED
  BY <1>1, <1>4, <1>7, <1>8 DEF ExactInv

(* A pair is entered, refused, or known to be empty.                       *)
LEMMA BeginExact ==
  ASSUME ExactInv, BeginFields \/ BeginDistinguished
  PROVE  ExactInv'
<1> DEFINE region == Delimited(wire)
<1>1. phase = "sent" /\ UNCHANGED <<wire, origin>> /\ wire \in Seq(Byte)
  BY DEF BeginFields, BeginDistinguished, ExactInv
<1>2. PICK t \in Types, d \in Decodings :
        /\ t.form \in Nested /\ type' = t /\ how' = d
        /\ \/ region.error # "none" /\ Finish(region.error, Fresh(t), region.used, Canonical)
           \/ /\ region.error = "none" /\ region.value = 0
              /\ d.min # Relaxed /\ ~ d.allowEmpty
              /\ Finish(CheckError(NotCanonical, d.min), Fresh(t), region.used, NotCanonical)
           \/ d.limited /\ Finish("RecursionLimitReached", Fresh(t), region.used, Canonical)
           \/ /\ region.error = "none" /\ ~ d.limited /\ Enter(t, region)
              /\ d.min # Relaxed /\ ~ d.allowEmpty => region.value # 0
  <2>1. CASE BeginFields
    <3>1. PICK t \in Types, d \in Decodings :
            /\ t.form \in Nested /\ d.min = Relaxed /\ type' = t /\ how' = d
            /\ IF region.error # "none"
               THEN NotEntered(t, region, region.error, Canonical)
               ELSE IF d.limited
               THEN NotEntered(t, region, "RecursionLimitReached", Canonical)
               ELSE Enter(t, region)
      BY <2>1 DEF BeginFields
    <3> HIDE DEF region
    <3> QED
      BY <3>1 DEF NotEntered
  <2>2. CASE BeginDistinguished
    <3>1. PICK t \in Types, d \in Decodings :
            /\ t.form \in Nested /\ d.min # Relaxed /\ type' = t /\ how' = d
            /\ IF region.error # "none"
               THEN NotEntered(t, region, region.error, Canonical)
               ELSE IF ~ d.allowEmpty /\ region.value = 0
               THEN NotEntered(t, region, CheckError(NotCanonical, d.min), NotCanonical)
               ELSE IF d.limited
               THEN NotEntered(t, region, "RecursionLimitReached", Canonical)
               ELSE Enter(t, region)
      BY <2>2 DEF BeginDistinguished
    <3> HIDE DEF region
    <3> QED
      BY <3>1 DEF NotEntered
  <2> QED
    BY <2>1, <2>2
<1>3. IsType(t)
  BY TypesAre
<1>4. CASE region.error # "none" /\ Finish(region.error, Fresh(t), region.used, Canonical)
  <2>1. Settled(type', wire, how', region.error, Fresh(t), region.used, Canonical)
    BY <1>1, <1>2, <1>3, <1>4, UndelimitedSettled
  <2> HIDE DEF region
  <2> QED
    BY <1>1, <1>2, <1>4, <2>1, FinishExact
<1>5. CASE /\ region.error = "none" /\ region.value = 0
           /\ d.min # Relaxed /\ ~ d.allowEmpty
           /\ Finish(CheckError(NotCanonical, d.min), Fresh(t), region.used, NotCanonical)
  <2>1. Settled(type', wire, how', CheckError(NotCanonical, d.min), Fresh(t), region.used,
                NotCanonical)
    BY <1>1, <1>2, <1>3, <1>5, EmptySettled
  <2> HIDE DEF region
  <2> QED
    BY <1>1, <1>2, <1>5, <2>1, FinishExact
<1>6. CASE d.limited /\ Finish("RecursionLimitReached", Fresh(t), region.used, Canonical)
  <2> HIDE DEF region
  <2>1. Settled(type', wire, how', "RecursionLimitReached", Fresh(t), region.used, Canonical)
    BY <1>2, <1>6, LimitedSettled
  <2> QED
    BY <1>1, <1>2, <1>6, <2>1, FinishExact
<1>7. CASE /\ region.error = "none" /\ ~ d.limited /\ Enter(t, region)
           /\ d.min # Relaxed /\ ~ d.allowEmpty => region.value # 0
  BY <1>1, <1>2, <1>7, EnterExact
<1> QED
  BY <1>2, <1>4, <1>5, <1>6, <1>7

(* Where something is refused no value lies.                               *)
LEMMA RefuseExact ==
  ASSUME ExactInv, phase = "fields", UNCHANGED <<type, wire, origin, how>>,
         NEW err, err # "none", NEW advanced, Refuse(err, advanced),
         \A v : ~ (IsValue(type, v) /\ Lies(EncodeValue(type, v), 0, wire))
  PROVE  ExactInv'
<1>1. Finish(err, value, advanced, canon) /\ type' \in Types
  BY DEF Refuse, ExactInv
<1>2. Settled(type, wire, how, err, value, advanced, canon)
  BY RefusedSettled
<1> QED
  BY <1>1, <1>2, FinishExact

(* One more turn of the loop.                                              *)
LEMMA TurnExact ==
  ASSUME ExactInv, phase = "fields", UNCHANGED <<type, wire, origin, how, end, phase, error>>,
         Fielded(type, wire, how, Target', pos', end, last', canon')
  PROVE  ExactInv'
<1>1. /\ type \in Types /\ wire \in Seq(Byte) /\ OriginInv /\ error = "none" /\ FieldsInv
  BY DEF ExactInv
<1>2. FieldsInv'
  BY <1>1 DEF FieldsInv
<1>3. OriginInv'
  BY <1>1 DEF OriginInv
<1> QED
  BY <1>1, <1>2, <1>3 DEF ExactInv

(* A pair that ends with its region is what lies there.                    *)
LEMMA EndFieldsExact ==
  ASSUME ExactInv, EndFields
  PROVE  ExactInv'
<1>1. /\ phase = "fields" /\ pos >= end /\ UNCHANGED <<type, wire, origin, how>>
      /\ IF pos > end THEN Finish("Truncated", value, pos, canon)
         ELSE Finish("none", Target, pos, canon)
  BY DEF EndFields
<1>2. type \in Types /\ wire \in Seq(Byte) /\ FieldsInv
  BY <1>1 DEF ExactInv
<1>3. Between /\ IsType(type) /\ type.form \in Nested
      /\ Fielded(type, wire, how, Target, pos, end, last, canon)
  BY <1>2, FieldsBetween DEF FieldsInv
<1>4. CASE pos > end
  <2>1. \A v : ~ (IsValue(type, v) /\ Lies(EncodeValue(type, v), 0, wire))
    <3>1. ~ (pos <= end)
      BY <1>3, <1>4 DEF Between
    <3> QED
      BY <1>2, <1>3, <3>1, GoesOn
  <2>2. Settled(type', wire, how', "Truncated", value, pos, canon)
    BY <1>1, <2>1, RefusedSettled
  <2> QED
    BY <1>1, <1>2, <1>4, <2>2, FinishExact
<1>5. CASE ~ (pos > end)
  <2>1. pos = end
    BY <1>1, <1>3, <1>5 DEF Between
  <2>2. Settled(type', wire, how', "none", Target, pos, canon)
    BY <1>1, <1>2, <1>3, <2>1, EndSettled
  <2> QED
    BY <1>1, <1>2, <1>5, <2>2, FinishExact
<1> QED
  BY <1>4, <1>5

(* What is skipped is within the bytes.                                    *)
LEMMA SkippedWithin ==
  ASSUME NEW raw \in Seq(Byte), NEW wiretype \in 0 .. 3, NEW cap,
         Skipped(wiretype, raw, cap).error = "none"
  PROVE  Skipped(wiretype, raw, cap).used \in 0 .. Len(raw)
<1> DEFINE varint == DecodeVarint(raw)
           width == FixedWidth[wiretype]
           used == CASE wiretype = Varint -> varint.used
                     [] wiretype = LengthDelimited -> varint.used + varint.value
                     [] OTHER -> FixedWidth[wiretype]
           skipped == Skipped(wiretype, raw, cap)
<1>1. varint.value \in Nat /\ varint.used \in Nat /\ Len(raw) \in Nat
  BY VarintRead
<1>2. skipped =
        IF wiretype \in {Varint, LengthDelimited} /\ varint.error # "none"
        THEN Parsed(IF varint.used > cap THEN "Truncated" ELSE varint.error,
                    0, varint.used)
        ELSE IF used > Len(raw) THEN Parsed("Truncated", 0, 0)
        ELSE Parsed("none", 0, used)
  BY DEF Skipped
<1>3. used \in Nat
  <2>1. CASE wiretype = Varint
    BY <1>1, <2>1 DEF Varint, LengthDelimited
  <2>2. CASE wiretype = LengthDelimited
    <3>1. used = varint.used + varint.value
      BY <2>2 DEF Varint, LengthDelimited
    <3> QED
      BY <1>1, <3>1
  <2>3. CASE wiretype # Varint /\ wiretype # LengthDelimited
    <3>1. used = FixedWidth[wiretype] /\ wiretype \in {2, 3}
      BY <2>3 DEF Varint, LengthDelimited
    <3> QED
      BY <3>1, WireAssumption
  <2> QED
    BY <2>1, <2>2, <2>3
<1> HIDE DEF varint, used, skipped
<1>4. /\ \A e, v, u : Parsed(e, v, u).error = e
      /\ \A e, v, u : Parsed(e, v, u).used = u
  BY DEF Parsed
<1>5. skipped.error = "none"
  BY DEF skipped
<1>6. ~ (used > Len(raw)) /\ skipped = Parsed("none", 0, used)
  BY <1>2, <1>4, <1>5
<1>7. skipped.used = used
  BY <1>4, <1>6
<1> QED
  BY <1>1, <1>3, <1>6, <1>7 DEF skipped

(* A field that is passed over changes no item, and is no longer canonical *)
(* where that matters.                                                     *)
LEMMA PassedOver ==
  ASSUME type \in Types, wire \in Seq(Byte), FieldsInv, pos < end,
         KeyTag(Key) \notin {0, 1},
         NEW c, \/ how.min = Relaxed /\ c = canon
                \/ c = Lower(canon, HasExtensions),
         Skipped(Key.value % 4, Behind(Key), Cap(Key)).error = "none"
  PROVE  Fielded(type, wire, how, Target,
                 pos + Key.used + Skipped(Key.value % 4, Behind(Key), Cap(Key)).used,
                 end, KeyTag(Key), c)
<1> DEFINE used == Skipped(Key.value % 4, Behind(Key), Cap(Key)).used
           s == Delimited(wire).used
           n == Len(EncodeItems(type, Target))
           q == pos + Key.used + used
<1>1. /\ Between /\ IsType(type) /\ type.form \in Nested
      /\ IsSimple(type.items[1]) /\ IsSimple(type.items[2])
  BY FieldsBetween DEF FieldsInv
<1>2. used \in 0 .. Len(Behind(Key)) /\ Len(Behind(Key)) = Len(wire) - (pos + Key.used)
      /\ Key.used \in Nat /\ KeyTag(Key) \in Nat /\ KeyTag(Key) >= last
  BY <1>1, KeyFacts, SkippedWithin
<1>3. /\ Delimited(wire).error = "none"
      /\ end = Delimited(wire).used + Delimited(wire).value
      /\ how.min \in Relaxed .. Canonical /\ ~ how.limited
      /\ how.min # Relaxed /\ ~ how.allowEmpty => Delimited(wire).value > 0
      /\ Pair2(type, Target) /\ pos \in s .. Len(wire) /\ canon \in NotCanonical .. Canonical
      /\ \A j \in {1, 2} : j - 1 > last => Target[j] = FreshSimple(type.items[j])
      /\ s + n <= pos
  BY DEF FieldsInv, Fielded
<1>4. s \in Nat /\ n \in Nat
  <2>1. s \in Nat
    BY <1>3, RegionRead
  <2>2. n = ItemLen(type, Target, 1) + ItemLen(type, Target, 2)
        /\ ItemLen(type, Target, 1) \in Nat /\ ItemLen(type, Target, 2) \in Nat
    BY <1>1, <1>3, ItemsAre
  <2> HIDE DEF n
  <2> QED
    BY <2>1, <2>2
<1> HIDE DEF used, s, n
<1>5. last \in Nat \cup {-1} /\ pos \in Nat /\ Len(wire) \in Nat
  BY <1>1 DEF Between
<1>6. q \in s .. Len(wire) /\ s + n <= q
  <2> DEFINE k == Key.used
  <2>1. /\ used \in Nat /\ used <= Len(wire) - (pos + k) /\ k \in Nat
        /\ q = pos + k + used
    BY <1>2, <1>5
  <2>2. s <= pos /\ s + n <= pos
    BY <1>3, <1>5
  <2> HIDE DEF k, q
  <2> QED
    BY ONLY <1>4, <1>5, <2>1, <2>2
<1>7. \A j \in {1, 2} : j - 1 > KeyTag(Key) => Target[j] = FreshSimple(type.items[j])
  BY <1>2, <1>3, <1>5
<1>8. c \in NotCanonical .. Canonical /\ (how.min # Relaxed => c # Canonical)
  <2>1. HasExtensions \in NotCanonical .. Canonical /\ HasExtensions # Canonical
    BY DEF NotCanonical, HasExtensions, Canonical
  <2>2. /\ Lower(canon, HasExtensions) \in NotCanonical .. Canonical
        /\ Lower(canon, HasExtensions) # Canonical
    BY <1>3, <2>1, LowerIs
  <2> QED
    BY <1>3, <2>2
<1>9. \A v : ~ (IsValue(type, v) /\ Lies(EncodeValue(type, v), 0, wire))
  <2>1. ASSUME NEW v, IsValue(type, v), Lies(EncodeValue(type, v), 0, wire)
        PROVE  FALSE
    <3>1. \E i \in {1, 2} : KeyTag(Key) = i - 1
      BY <2>1, Expected
    <3> QED
      BY <3>1
  <2> QED
    BY <2>1
<1> HIDE DEF q
<1>10. Fielded(type, wire, how, Target, q, end, KeyTag(Key), c)
  BY <1>2, <1>3, <1>6, <1>7, <1>8, <1>9 DEF Fielded, s, n
<1> QED
  BY <1>10 DEF q, used

(* One field more, or a refusal where no value lies.                       *)
LEMMA NextFieldExact ==
  ASSUME ExactInv, NextField
  PROVE  ExactInv'
<1>1. /\ phase = "fields" /\ pos < end /\ UNCHANGED <<type, wire, origin, how, end>>
      /\ \/ BadKey(Key) \/ TagOverflow(Key) \/ KnownField(Key)
         \/ UnknownField(Key) \/ UnknownDistinguished(Key)
  BY DEF NextField
<1>2. /\ type \in Types /\ wire \in Seq(Byte) /\ FieldsInv /\ error = "none"
      /\ canon \in NotCanonical .. Canonical
  BY <1>1 DEF ExactInv, FieldsInv, Fielded
<1>3. ASSUME NEW v, IsValue(type, v), Lies(EncodeValue(type, v), 0, wire)
      PROVE  /\ Key.error = "none"
             /\ \E i \in {1, 2} :
                  /\ KeyTag(Key) = i - 1 /\ i - 1 > last
                  /\ Key.value % 4 = WireTypeOf(type.items[i])
                  /\ v[i] # FreshSimple(type.items[i])
                  /\ DecodeCapped(type.items[i], Behind(Key), Cap(Key)).error = "none"
                  /\ DecodeCapped(type.items[i], Behind(Key), Cap(Key)).value = v[i]
  BY <1>1, <1>2, <1>3, Expected
<1> DEFINE Nothing == \A v : ~ (IsValue(type, v) /\ Lies(EncodeValue(type, v), 0, wire))
<1>4. ASSUME NEW err, err # "none", NEW advanced, Refuse(err, advanced), Nothing
      PROVE  ExactInv'
  BY <1>1, <1>4, RefuseExact
<1>5. CASE BadKey(Key)
  <2>1. PICK err, advanced : Refuse(err, advanced) /\ err # "none"
    BY <1>5 DEF BadKey
  <2>2. Nothing
    BY <1>3, <1>5 DEF BadKey
  <2> QED
    BY <1>4, <2>1, <2>2
<1>6. ASSUME KeyTag(Key) \notin {0, 1}
      PROVE  Nothing
  <2>1. ~ \E i \in {1, 2} : KeyTag(Key) = i - 1
    BY <1>6
  <2> QED
    BY <1>3, <2>1
<1>7. ASSUME NEW c, PassOver(Key, c), KeyTag(Key) \notin {0, 1},
             \/ how.min = Relaxed /\ c = canon
             \/ c = Lower(canon, HasExtensions)
      PROVE  ExactInv'
  <2> DEFINE skipped == Skipped(Key.value % 4, Behind(Key), Cap(Key))
  <2>1. IF skipped.error # "none" THEN Refuse(skipped.error, pos + Key.used)
        ELSE /\ canon' = c /\ pos' = pos + Key.used + skipped.used
             /\ last' = KeyTag(Key)
             /\ UNCHANGED <<phase, error, value, taken>>
    BY <1>7 DEF PassOver
  <2>2. CASE skipped.error # "none"
    <3> HIDE DEF skipped
    <3> QED
      BY <1>4, <1>6, <1>7, <2>1, <2>2
  <2>3. CASE skipped.error = "none"
    <3>1. Fielded(type, wire, how, Target, pos + Key.used + skipped.used, end,
                  KeyTag(Key), c)
      BY <1>1, <1>2, <1>7, <2>3, PassedOver
    <3> HIDE DEF skipped
    <3>2. Target' = Target
      BY <1>1, <2>1, <2>3 DEF Target
    <3>3. Fielded(type, wire, how, Target', pos', end, last', canon')
      BY <2>1, <2>3, <3>1, <3>2
    <3> QED
      BY <1>1, <2>1, <2>3, <3>3, TurnExact
  <2> QED
    BY <2>2, <2>3
<1>8. CASE UnknownField(Key)
  <2>1. KeyTag(Key) \notin {0, 1}
    BY <1>8, ValuesAssumption DEF UnknownField
  <2> QED
    BY <1>7, <1>8, <2>1 DEF UnknownField
<1>9. CASE UnknownDistinguished(Key)
  <2>1. KeyTag(Key) \notin {0, 1}
    BY <1>9, ValuesAssumption DEF UnknownDistinguished
  <2>2. CASE CheckError(HasExtensions, how.min) # "none"
    BY <1>4, <1>6, <1>9, <2>1, <2>2 DEF UnknownDistinguished
  <2>3. CASE ~ (CheckError(HasExtensions, how.min) # "none")
    BY <1>7, <1>9, <2>1, <2>3 DEF UnknownDistinguished
  <2> QED
    BY <2>2, <2>3
<1>10. CASE KnownField(Key)
  <2>1. Key.error = "none" /\ KeyTag(Key) \in {0, 1}
    BY <1>10 DEF KnownField
  <2>2. PICK i \in {1, 2} : i = KeyTag(Key) + 1
    BY <2>1
  <2>3. KeyTag(Key) = i - 1
    BY <2>1, <2>2
  <2> DEFINE item == type.items[i]
             read == DecodeCapped(item, Behind(Key), Cap(Key))
             found == Found(item, read.value)
             advanced == pos + Key.used + read.used
  <2>4. IF KeyTag(Key) = last THEN Refuse("UnexpectedlyRepeated", pos + Key.used)
        ELSE IF Key.value % 4 # WireTypeOf(item) THEN Refuse("WrongWireType", pos + Key.used)
        ELSE TakeItem(Key, item, read)
    BY <1>10, <2>2 DEF KnownField
  <2>5. ASSUME NEW v, IsValue(type, v), Lies(EncodeValue(type, v), 0, wire)
        PROVE  /\ KeyTag(Key) # last /\ Key.value % 4 = WireTypeOf(item)
               /\ read.error = "none" /\ read.value # FreshSimple(item)
    <3>1. PICK k \in {1, 2} :
            /\ KeyTag(Key) = k - 1 /\ k - 1 > last
            /\ Key.value % 4 = WireTypeOf(type.items[k])
            /\ v[k] # FreshSimple(type.items[k])
            /\ DecodeCapped(type.items[k], Behind(Key), Cap(Key)).error = "none"
            /\ DecodeCapped(type.items[k], Behind(Key), Cap(Key)).value = v[k]
      BY <1>3, <2>5
    <3>2. k = i
      BY <2>3, <3>1
    <3>3. KeyTag(Key) # last
      <4>1. last \in Nat \cup {-1}
        BY <1>2 DEF FieldsInv, Fielded
      <4> QED
        BY <3>1, <4>1
    <3> QED
      BY <3>1, <3>2, <3>3
  <2>6. CASE KeyTag(Key) = last
    BY <1>4, <2>4, <2>5, <2>6
  <2>7. CASE KeyTag(Key) # last /\ Key.value % 4 # WireTypeOf(item)
    BY <1>4, <2>4, <2>5, <2>7
  <2>8. CASE KeyTag(Key) # last /\ ~ (Key.value % 4 # WireTypeOf(item))
    <3>1. IF read.error # "none" THEN Refuse(read.error, advanced)
          ELSE IF CheckError(found, how.min) # "none"
          THEN Refuse(CheckError(found, how.min), advanced)
          ELSE /\ Store(i, read.value)
               /\ canon' = Lower(canon, found)
               /\ pos' = advanced /\ last' = KeyTag(Key)
               /\ UNCHANGED <<phase, error>>
      BY <2>2, <2>4, <2>8 DEF TakeItem
    <3>2. CASE read.error # "none"
      <4>1. Nothing
        BY <2>5, <3>2
      <4> HIDE DEF read
      <4> QED
        BY <1>4, <3>1, <3>2, <4>1
    <3>3. CASE read.error = "none" /\ CheckError(found, how.min) # "none"
      <4>1. found # Canonical
        <5>1. how.min \in Relaxed .. Canonical
          BY <1>2 DEF FieldsInv, Fielded
        <5>2. CheckError(Canonical, how.min) = "none"
          BY <5>1 DEF CheckError, Relaxed, Canonical
        <5> QED
          BY <3>3, <5>2
      <4>2. read.value = FreshSimple(item)
        BY <4>1 DEF Found, EmptyItem
      <4>3. Nothing
        BY <2>5, <4>2
      <4> HIDE DEF read, found
      <4> QED
        BY <1>4, <3>1, <3>3, <4>3
    <3>4. CASE read.error = "none" /\ ~ (CheckError(found, how.min) # "none")
      <4>1. Fielded(type, wire, how, [Target EXCEPT ![i] = read.value], advanced, end,
                    i - 1, Lower(canon, found))
        BY <1>1, <1>2, <2>1, <2>3, <2>8, <3>4, ItemStored
      <4> HIDE DEF read, found, advanced
      <4>2. Target' = [Target EXCEPT ![i] = read.value]
        BY <1>1, <3>1, <3>4 DEF Target, Store
      <4>3. Fielded(type, wire, how, Target', pos', end, last', canon')
        BY <2>3, <3>1, <3>4, <4>1, <4>2
      <4> QED
        BY <1>1, <3>1, <3>4, <4>3, TurnExact
    <3> QED
      BY <3>2, <3>3, <3>4
  <2> QED
    BY <2>6, <2>7, <2>8
<1>11. CASE TagOverflow(Key)
  <2>1. KeyTag(Key) > MaxTag /\ Refuse("TagOverflowed", pos + Key.used)
    BY <1>11 DEF TagOverflow
  <2>2. KeyTag(Key) \notin {0, 1}
    BY <2>1, ValuesAssumption
  <2>3. "TagOverflowed" # "none"
    OBVIOUS
  <2> QED
    BY <1>4, <1>6, <2>1, <2>2, <2>3
<1> QED
  BY <1>1, <1>5, <1>8, <1>9, <1>10, <1>11

(* Every step keeps the invariant.                                         *)
LEMMA NextExact == ExactInv /\ [Next]_vars => ExactInv'
<1> SUFFICES ASSUME ExactInv, [Next]_vars
             PROVE  ExactInv'
  OBVIOUS
<1>1. CASE UNCHANGED vars
  BY <1>1 DEF vars, ExactInv, OriginInv, CopyInv, FieldsInv, Target
<1>2. CASE Next
  BY <1>2, EncodeExact, DamageExact, KeepExact, DecodeAtOnceExact, BorrowExact, CopyExact,
     BeginExact, NextFieldExact, EndFieldsExact DEF Next
<1> QED
  BY <1>1, <1>2

(* Whatever is encoded, damaged and decoded, what decoding ends with is    *)
(* settled by what lies in the bytes.                                      *)
THEOREM ValuesExactInvariant == Spec => []ExactInv
<1>1. Init => ExactInv
  BY InitExact
<1>2. ExactInv /\ [Next]_vars => ExactInv'
  BY NextExact
<1> QED
  BY <1>1, <1>2, PTL DEF Spec

(* What one type encodes every type that widens it decodes as the          *)
(* corresponding value, in exactly these bytes; only the encoding of a     *)
(* value is called canonical, and no encoding is refused: for numbers of   *)
(* every width and sign, byte strings, text, pairs and ranges.             *)
THEOREM ValuesAreExact == Spec => []ValuesExact
<1>1. ExactInv => ValuesExact
  BY ExactInvExact
<1> QED
  BY <1>1, ValuesExactInvariant, PTL
=============================================================================
