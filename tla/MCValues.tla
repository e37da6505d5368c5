------------------------------ MODULE MCValues ------------------------------
(***************************************************************************)
(* Bytes of four bits and varints of at most four bytes.  u8 has the range *)
(* of a byte, u16 of two and u64 of the longest varint.                    *)
(***************************************************************************)
EXTENDS Values

MCFixedWidth == ThirtyTwoBit :> 2 @@ SixtyFourBit :> 3

Number(wiretype, size, signed, nonzero) ==
  [form |-> "number", wire |-> wiretype, size |-> size, signed |-> signed,
   nonzero |-> nonzero]

Bool == Number(Varint, 2, FALSE, FALSE)
U8 == Number(Varint, 16, FALSE, FALSE)
I8 == Number(Varint, 16, TRUE, FALSE)
U16 == Number(Varint, 256, FALSE, FALSE)
I16 == Number(Varint, 256, TRUE, FALSE)
NonZeroU8 == Number(Varint, 16, FALSE, TRUE)
NonZeroI8 == Number(Varint, 16, TRUE, TRUE)
U64 == Number(Varint, VarintRange, FALSE, FALSE)
I64 == Number(Varint, VarintRange, TRUE, FALSE)
FixedU32 == Number(ThirtyTwoBit, 256, FALSE, FALSE)
FixedI32 == Number(ThirtyTwoBit, 256, TRUE, FALSE)
FixedNonZeroI32 == Number(ThirtyTwoBit, 256, TRUE, TRUE)
FixedU64 == Number(SixtyFourBit, 4096, FALSE, FALSE)
Octets == [form |-> "octets", wire |-> ThirtyTwoBit]
Array == [form |-> "array", len |-> 2]
ByteVector == [form |-> "bytes"]
Text == [form |-> "text"]
Pair(first, second) == [form |-> "pair", items |-> <<first, second>>]
Inclusive(first, second) == [form |-> "inclusive", items |-> <<first, second>>]

MCTypes ==
  {Bool, U8, I8, U16, I16, NonZeroU8, NonZeroI8, U64, I64, FixedU32, FixedI32,
   FixedNonZeroI32, FixedU64, Octets, Array, ByteVector, Text, Pair(I8, I8),
   Inclusive(I8, I8), Pair(U16, Text), Pair(Octets, FixedU32)}

(* Numbers around the ends of their ranges and of those of the others, and *)
(* around the limits of the varints' lengths.                              *)
NumberSamples(t) ==
  LET low == IF t.signed THEN -(t.size \div 2) ELSE 0
      high == IF t.signed THEN (t.size \div 2) - 1 ELSE t.size - 1
      limits == {low, 0, high} \cup {-36, 36, 72, 292, 8, 16, 128}
      near == UNION {{n - 1, n, n + 1} : n \in limits}
  IN {n \in near : low <= n /\ n <= high /\ ~ (t.nonzero /\ n = 0)}

Strings == {<<>>, <<0>>, <<7, 1>>, <<12, 8>>, <<13, 11, 3>>}

SimpleSamples(t) ==
  CASE t.form = "number" -> NumberSamples(t)
    [] t.form \in {"octets", "array"} -> {<<0, 0>>, <<0, 9>>, <<15, 1>>}
    [] t.form = "bytes" -> Strings \cup {<<8>>, <<12, 12>>, <<0, 8, 15>>}
    [] OTHER -> Strings

(* The first three of what there is, so that the pairs stay few.           *)
Few(t) ==
  IF t.form = "number" THEN SimpleSamples(t) \cap {-8, -1, 0, 1, 7, 255}
  ELSE SimpleSamples(t) \cap {<<>>, <<12, 8>>, <<0, 0>>, <<15, 1>>}

MCSamples ==
  [t \in MCTypes |->
     IF t.form \in {"pair", "inclusive"} THEN Few(t.items[1]) \X Few(t.items[2])
     ELSE SimpleSamples(t)]

(* A nested value with any fields or none, and the longest varint.         *)
MCRaw ==
  {<<n>> \o fields : n \in {3, 4}, fields \in [1 .. 4 -> {0, 1, 2, 4, 12}]}
    \cup {<<0>>, <<0, 1, 12>>}
    \cup {<<15, 15, 15, largest>> : largest \in {6, 7, 8, 15}}

MCDecodings ==
  [min : {Relaxed}, allowEmpty : {TRUE}, limited : BOOLEAN]
    \cup [min : NotCanonical .. Canonical, allowEmpty : BOOLEAN, limited : {FALSE}]
    \cup [min : {Canonical}, allowEmpty : {FALSE}, limited : {TRUE}]

MCTrailers == {<<>>, <<1, 9>>}
=============================================================================
