------------------------------- MODULE Values -------------------------------
(***************************************************************************)
(* The value encodings of src/encoding: varint.rs, fixed.rs,               *)
(* plain_bytes.rs, general.rs, tuple.rs, underived.rs and                  *)
(* range_as_tuple.rs.  A value of one type is encoded, the bytes arrive,   *)
(* perhaps damaged, and are decoded as a value of the same or of another   *)
(* type, which may be encoded again.  Strings are copied into a vector     *)
(* that is not yet text, from a Buf that may panic; pairs and ranges are   *)
(* decoded field by field.                                                 *)
(***************************************************************************)
EXTENDS Wire, Canonicity, FiniteSets, SequencesExt

CONSTANTS
  Types,      (* the types, each a record with a form                      *)
  Samples,    (* [Types -> the values that are encoded]                    *)
  Raw,        (* bytes that nothing encoded                                *)
  Trailers,   (* what may follow a value in its buffer                     *)
  Decodings,  (* the ways a nested value is decoded: the minimum, whether  *)
              (* it may be empty, and whether the recursion limit is met   *)
  Hops,       (* how often a value is encoded                              *)
  MaxTag      (* the largest tag                                           *)

(* Forms: a "number" has a wire type, the size of its range, whether it is *)
(* signed and whether zero is excluded; "octets" is a fixed array of       *)
(* bytes; "bytes", "array" and "text" are length-delimited; a "pair" or    *)
(* "inclusive" range has two items of the other forms.                     *)
Nested == {"pair", "inclusive"}

VARIABLES
  type,     (* the type of the value                                       *)
  value,    (* the value that is held or decoded into                      *)
  taken,    (* the parts an inclusive range is taken into                  *)
  origin,   (* history: <<the type and value>> the bytes encode, or <<>>   *)
  wire,     (* the bytes                                                   *)
  how,      (* [min, allowEmpty, limited] of the decoding                  *)
  phase,    (* "held", "sent", "copying", "fields", "done", "panicked"     *)
  pos,      (* how far the Buf is advanced                                 *)
  end,      (* the end of the region being decoded                         *)
  last,     (* the tag of the last key, or -1                              *)
  canon,    (* the canonicity so far                                       *)
  error,    (* what decoding returned                                      *)
  hops

vars == <<type, value, taken, origin, wire, how, phase, pos, end, last, canon,
          error, hops>>

-----------------------------------------------------------------------------
(* Numbers.                                                                *)

Base == 2 * ContinueBit

(* u64_to_signed and its inverse, as arithmetic.                           *)
ZigZag(number) == IF number >= 0 THEN 2 * number ELSE -2 * number - 1

UnZigZag(unsigned) ==
  IF unsigned % 2 = 0 THEN unsigned \div 2 ELSE -(unsigned \div 2) - 1

(* What a byte counts for when n bytes come before it.                     *)
Place[n \in Nat] == IF n = 0 THEN 1 ELSE Place[n - 1] * Base

LittleEndian(unsigned, width) ==
  [i \in 1 .. width |-> (unsigned \div Place[i - 1]) % Base]

(* What the first bytes, so many of them, add up to.                       *)
PlaceSums(octets) ==
  LET partial[n \in 0 .. Len(octets)] ==
        IF n = 0 THEN 0 ELSE partial[n - 1] + octets[n] * Place[n - 1]
  IN partial

FromLittleEndian(octets) == PlaceSums(octets)[Len(octets)]

(* A fixed number is in two's complement.                                  *)
EncodeNumber(t, number) ==
  IF t.wire = Varint
  THEN EncodeVarint(IF t.signed THEN ZigZag(number) ELSE number)
  ELSE LittleEndian(number % t.size, FixedWidth[t.wire])

Signed(t, unsigned) ==
  IF ~ t.signed THEN unsigned
  ELSE IF t.wire = Varint THEN UnZigZag(unsigned)
  ELSE IF 2 * unsigned >= t.size THEN unsigned - t.size ELSE unsigned

Parsed(err, val, used) == [error |-> err, value |-> val, used |-> used]

(* Mutant of NumberFrom: the range is not checked, the value is cut.       *)
NumberFromCut(t, unsigned, used) ==
  LET number == Signed(t, unsigned % t.size)
  IN IF t.nonzero /\ number = 0 THEN Parsed("InvalidValue", number, used)
     ELSE Parsed("none", number, used)

(* What an unsigned varint or fixed number says.                           *)
NumberFrom(t, unsigned, used) ==
  LET number == Signed(t, unsigned)
  IN IF unsigned >= t.size THEN Parsed("OutOfDomainValue", number, used)
     ELSE IF t.nonzero /\ number = 0 THEN Parsed("InvalidValue", number, used)
     ELSE Parsed("none", number, used)

VarintNumber(t, bytes) ==
  LET Read(varint) ==
        IF varint.error # "none" THEN varint
        ELSE NumberFrom(t, varint.value, varint.used)
  IN Read(DecodeVarint(bytes))

FixedNumber(t, bytes) ==
  LET width == FixedWidth[t.wire]
  IN IF Len(bytes) < width THEN Parsed("Truncated", 0, 0)
     ELSE NumberFrom(t, FromLittleEndian(SubSeq(bytes, 1, width)), width)

-----------------------------------------------------------------------------
(* Bytes and text.                                                         *)

(* UTF-8 on a small scale: a character is a byte without the continuation  *)
(* bit, or a byte of the highest quarter and one of the third.             *)
IsLead(byte) == byte >= ContinueBit + ContinueBit \div 2
IsTail(byte) == byte >= ContinueBit /\ ~ IsLead(byte)
IsText(bytes) ==
  \A i \in DOMAIN bytes :
    /\ IsLead(bytes[i]) => i < Len(bytes) /\ IsTail(bytes[i + 1])
    /\ IsTail(bytes[i]) => i > 1 /\ IsLead(bytes[i - 1])

(* take_length_delimited, within a cap at the end of the bytes.            *)
Delimited(bytes) ==
  LET Length(varint) ==
        IF varint.error # "none" THEN varint
        ELSE IF varint.value > Len(bytes) - varint.used
        THEN Parsed("Truncated", 0, varint.used)
        ELSE varint
  IN Length(DecodeVarint(bytes))

(* A decoded region of bytes as a value of the type.                       *)
FromRegion(t, region, used) ==
  IF \/ t.form = "array" /\ Len(region) # t.len
     \/ t.form = "text" /\ ~ IsText(region)
  THEN Parsed("InvalidValue", region, used)
  ELSE Parsed("none", region, used)

-----------------------------------------------------------------------------
(* Values that are not nested.                                             *)

WireTypeOf(t) ==
  IF t.form \in {"number", "octets"} THEN t.wire ELSE LengthDelimited

EncodeSimple(t, val) ==
  CASE t.form = "number" -> EncodeNumber(t, val)
    [] t.form = "octets" -> val
    [] OTHER -> EncodeVarint(Len(val)) \o val

DecodeOctets(t, bytes) ==
  LET width == FixedWidth[t.wire]
  IN IF Len(bytes) < width THEN Parsed("Truncated", <<>>, 0)
     ELSE Parsed("none", SubSeq(bytes, 1, width), width)

DecodeRegion(t, bytes) ==
  LET region == Delimited(bytes)
      stop == region.used + region.value
  IN IF region.error # "none" THEN region
     ELSE FromRegion(t, SubSeq(bytes, region.used + 1, stop), stop)

DecodeSimple(t, bytes) ==
  CASE t.form = "number" /\ t.wire = Varint -> VarintNumber(t, bytes)
    [] t.form = "number" /\ t.wire # Varint -> FixedNumber(t, bytes)
    [] t.form = "octets" -> DecodeOctets(t, bytes)
    [] OTHER -> DecodeRegion(t, bytes)

(* The empty state, and what is made to be overwritten: a number that is   *)
(* never zero has only that.                                               *)
FreshSimple(t) ==
  CASE t.form = "number" -> IF t.nonzero THEN 1 ELSE 0
    [] t.form = "octets" -> [i \in 1 .. FixedWidth[t.wire] |-> 0]
    [] t.form = "array" -> [i \in 1 .. t.len |-> 0]
    [] OTHER -> <<>>

Fresh(t) ==
  IF t.form \in Nested THEN <<FreshSimple(t.items[1]), FreshSimple(t.items[2])>>
  ELSE FreshSimple(t)

-----------------------------------------------------------------------------
(* Pairs, as messages with the tags 0 and 1.                               *)

Present(t, val) == {i \in {1, 2} : val[i] # FreshSimple(t.items[i])}

(* The key of an item comes after tag 0, whether that is the start or the  *)
(* item before it.                                                         *)
EncodeItem(t, val, i) ==
  IF i \notin Present(t, val) THEN <<>>
  ELSE EncodeVarint(4 * (i - 1) + WireTypeOf(t.items[i]))
         \o EncodeSimple(t.items[i], val[i])

EncodeItems(t, val) == EncodeItem(t, val, 1) \o EncodeItem(t, val, 2)

EncodeValue(t, val) ==
  IF t.form \in Nested
  THEN EncodeVarint(Len(EncodeItems(t, val))) \o EncodeItems(t, val)
  ELSE EncodeSimple(t, val)

SimpleLen(t, val) ==
  CASE t.form = "number" /\ t.wire = Varint ->
         EncodedLenVarint(IF t.signed THEN ZigZag(val) ELSE val)
    [] t.form = "number" /\ t.wire # Varint -> FixedWidth[t.wire]
    [] t.form = "octets" -> FixedWidth[t.wire]
    [] OTHER -> EncodedLenVarint(Len(val)) + Len(val)

(* The keys are counted as one byte each, without writing them.            *)
ItemLen(t, val, i) ==
  IF i \notin Present(t, val) THEN 0 ELSE 1 + SimpleLen(t.items[i], val[i])

ValueEncodedLen(t, val) ==
  IF t.form \in Nested
  THEN LET len == ItemLen(t, val, 1) + ItemLen(t, val, 2)
       IN EncodedLenVarint(len) + len
  ELSE SimpleLen(t, val)

-----------------------------------------------------------------------------
(* Types and their values.                                                 *)

(* A number's range fits its wire type: as much as a varint can say, or    *)
(* all that a fixed width can.                                             *)
IsSimple(t) ==
  /\ t.form \in {"number", "octets", "array", "bytes", "text"}
  /\ t.form = "number" =>
       /\ t.signed \in BOOLEAN /\ t.nonzero \in BOOLEAN
       /\ t.size \in Nat /\ t.size >= 2 /\ t.size % 2 = 0
       /\ t.nonzero => t.size > 2
       /\ \/ t.wire = Varint /\ t.size <= VarintRange
          \/ /\ t.wire \in {ThirtyTwoBit, SixtyFourBit}
             /\ t.size = Place[FixedWidth[t.wire]]
  /\ t.form = "octets" => t.wire \in {ThirtyTwoBit, SixtyFourBit}
  /\ t.form = "array" => t.len \in Nat /\ t.len < VarintRange

IsType(t) ==
  IF t.form \in Nested THEN IsSimple(t.items[1]) /\ IsSimple(t.items[2])
  ELSE IsSimple(t)

(* The values of a simple type: a string is text.                          *)
Lowest(t) == IF t.signed THEN -(t.size \div 2) ELSE 0

Fits(t, val) ==
  IF t.form = "number"
  THEN val \in Lowest(t) .. Lowest(t) + t.size - 1 /\ (t.nonzero => val # 0)
  ELSE /\ val \in Seq(Byte)
       /\ t.form = "octets" => Len(val) = FixedWidth[t.wire]
       /\ t.form # "octets" => Len(val) < VarintRange
       /\ t.form = "array" => Len(val) = t.len
       /\ t.form = "text" => IsText(val)

(* The bytes of all there is are fewer than a varint can count.            *)
IsValue(t, val) ==
  IF t.form \in Nested
  THEN /\ val = <<val[1], val[2]>>
       /\ Fits(t.items[1], val[1]) /\ Fits(t.items[2], val[2])
       /\ Len(EncodeItems(t, val)) < VarintRange
  ELSE Fits(t, val)

(* What a program encodes is a value of its type.                          *)
ASSUME ValuesAssumption ==
  /\ \A t \in Types : IsType(t) /\ \A val \in Samples[t] : IsValue(t, val)
  /\ Raw \subseteq Seq(Byte) /\ Trailers \subseteq Seq(Byte)
  /\ MaxTag \in Nat /\ MaxTag >= 1
  /\ \A d \in Decodings :
       d.min \in Relaxed .. Canonical /\ d.allowEmpty \in BOOLEAN

-----------------------------------------------------------------------------
Relaxing == [min |-> Relaxed, allowEmpty |-> TRUE, limited |-> FALSE]

Init ==
  /\ \E t \in Types :
       /\ type = t
       /\ \/ /\ phase = "held" /\ value \in Samples[t]
             /\ wire = <<>>
          \/ /\ phase = "sent" /\ t.form = "text" /\ value = Fresh(t)
             /\ wire \in Raw
  /\ origin = <<>> /\ taken = <<>>
  /\ how = Relaxing
  /\ pos = 0 /\ end = 0 /\ last = -1
  /\ canon = Canonical /\ error = "none"
  /\ hops = 0

Encode ==
  /\ phase = "held" /\ hops < Hops
  /\ \E suffix \in Trailers : wire' = EncodeValue(type, value) \o suffix
  /\ origin' = <<[type |-> type, value |-> value]>>
  /\ phase' = "sent"
  /\ hops' = hops + 1
  /\ UNCHANGED <<type, value, taken, how, pos, end, last, canon, error>>

(* The end of the bytes is lost, or a byte is another one.                 *)
Damage ==
  /\ phase = "sent" /\ origin # <<>>
  /\ \/ \E n \in 0 .. Len(wire) - 1 : wire' = SubSeq(wire, 1, n)
     \/ \E i \in DOMAIN wire, byte \in {0, ContinueBit + 1} :
          wire' = [wire EXCEPT ![i] = byte]
  /\ origin' = <<>>
  /\ hops' = Hops
  /\ UNCHANGED <<type, value, taken, how, phase, pos, end, last, canon, error>>

(* A decoded value, or the error.                                          *)
Finish(err, val, advanced, canonicity) ==
  /\ phase' = "done"
  /\ error' = err
  /\ value' = val
  /\ pos' = advanced
  /\ canon' = canonicity
  /\ taken' = <<>>

(* The values that are decoded in one step; the simple ones are canonical  *)
(* whenever they are decoded.  One that is refused leaves what was there.  *)
DecodeAtOnce ==
  /\ phase = "sent"
  /\ \E t \in Types, min \in {Relaxed, Canonical} :
       /\ t.form \notin Nested \cup {"bytes", "text"}
       /\ type' = t
       /\ how' = [Relaxing EXCEPT !.min = min]
       /\ LET decoded == DecodeSimple(t, wire)
          IN Finish(decoded.error,
                    IF decoded.error = "none" THEN decoded.value ELSE Fresh(t),
                    decoded.used, Canonical)
  /\ UNCHANGED <<origin, wire, end, last, hops>>

(* What is decoded into: a program decodes again into what it has.  A Cow  *)
(* that borrows is made to own it, and borrows again what is decoded.      *)
Old(t) == IF t = type THEN value ELSE Fresh(t)

(* What is borrowed is checked where it lies.                              *)
Borrow ==
  /\ phase = "sent"
  /\ \E t \in Types :
       /\ t.form \in {"bytes", "text"}
       /\ type' = t
       /\ how' = Relaxing
       /\ LET decoded == DecodeRegion(t, wire)
          IN Finish(decoded.error,
                    IF decoded.error = "none" THEN decoded.value ELSE Old(t),
                    decoded.used, Canonical)
  /\ UNCHANGED <<origin, wire, end, last, hops>>

-----------------------------------------------------------------------------
(* Decoding owned strings and vectors of bytes: the value that is there is *)
(* cleared and takes chunk after chunk.                                    *)

BeginCopy ==
  /\ phase = "sent"
  /\ \E t \in Types, min \in {Relaxed, Canonical} :
       /\ t.form \in {"bytes", "text"}
       /\ type' = t
       /\ how' = [Relaxing EXCEPT !.min = min]
       /\ LET region == Delimited(wire)
          IN IF region.error # "none"
             THEN Finish(region.error, Old(t), region.used, Canonical) /\ UNCHANGED end
             ELSE /\ phase' = "copying"
                  /\ value' = <<>>
                  /\ pos' = region.used
                  /\ end' = region.used + region.value
                  /\ UNCHANGED <<error, canon, taken>>
  /\ UNCHANGED <<origin, wire, last, hops>>

CopyChunk ==
  /\ phase = "copying" /\ pos < end
  /\ \E n \in 1 .. end - pos :
       /\ value' = value \o SubSeq(wire, pos + 1, pos + n)
       /\ pos' = pos + n
  /\ UNCHANGED <<type, taken, origin, wire, how, phase, end, last, canon, error, hops>>

(* Mutant of Guarded: nothing is dropped.                                  *)
GuardForgotten(t, val) == val

(* What the drop guard of a string leaves of it.                           *)
Guarded(t, val) == IF t.form = "text" THEN <<>> ELSE val

EndCopy ==
  /\ phase = "copying" /\ pos = end
  /\ IF type.form = "text" /\ ~ IsText(value)
     THEN Finish("InvalidValue", Guarded(type, value), pos, Canonical)
     ELSE Finish("none", value, pos, Canonical)
  /\ UNCHANGED <<type, origin, wire, how, end, last, hops>>

(* The Buf panics between two chunks; what was decoded into may live on.   *)
Panic ==
  /\ phase = "copying"
  /\ phase' = "panicked"
  /\ value' = Guarded(type, value)
  /\ UNCHANGED <<type, taken, origin, wire, how, pos, end, last, canon, error, hops>>

-----------------------------------------------------------------------------
(* Decoding pairs and ranges field by field.                               *)

(* An inclusive range is taken apart, and put back only when it is whole.  *)
Target == IF type.form = "inclusive" THEN taken ELSE value

Enter(t, region) ==
  /\ phase' = "fields"
  /\ value' = Fresh(t)
  /\ taken' = IF t.form = "inclusive" THEN Fresh(t) ELSE <<>>
  /\ pos' = region.used
  /\ end' = region.used + region.value
  /\ last' = -1
  /\ UNCHANGED <<error, canon>>

NotEntered(t, region, err, canonicity) ==
  /\ Finish(err, Fresh(t), region.used, canonicity)
  /\ UNCHANGED <<end, last>>

BeginFields ==
  /\ phase = "sent"
  /\ \E t \in Types, d \in Decodings :
       /\ t.form \in Nested /\ d.min = Relaxed
       /\ type' = t /\ how' = d
       /\ LET region == Delimited(wire)
          IN IF region.error # "none"
             THEN NotEntered(t, region, region.error, Canonical)
             ELSE IF d.limited
             THEN NotEntered(t, region, "RecursionLimitReached", Canonical)
             ELSE Enter(t, region)
  /\ UNCHANGED <<origin, wire, hops>>

(* An empty value has no bytes, which is known before it is decoded.       *)
BeginDistinguished ==
  /\ phase = "sent"
  /\ \E t \in Types, d \in Decodings :
       /\ t.form \in Nested /\ d.min # Relaxed
       /\ type' = t /\ how' = d
       /\ LET region == Delimited(wire)
          IN IF region.error # "none"
             THEN NotEntered(t, region, region.error, Canonical)
             ELSE IF ~ d.allowEmpty /\ region.value = 0
             THEN NotEntered(t, region, CheckError(NotCanonical, d.min), NotCanonical)
             ELSE IF d.limited
             THEN NotEntered(t, region, "RecursionLimitReached", Canonical)
             ELSE Enter(t, region)
  /\ UNCHANGED <<origin, wire, hops>>

(* A value after the key, in a Buf that goes on behind the region: varints *)
(* and octets are read to where they end, fixed numbers within the region. *)
(* A region of their own that goes past it is refused before it is looked  *)
(* into; the length itself is a varint that keeps its error.               *)
DecodeCapped(t, bytes, cap) ==
  LET bounded == t.form = "number" /\ t.wire # Varint
      decoded == DecodeSimple(t, IF bounded THEN SubSeq(bytes, 1, cap) ELSE bytes)
      over == decoded.used > cap
      region == Delimited(bytes)
  IN IF over /\ t.form = "number" /\ decoded.error = "InvalidVarint"
     THEN Parsed("Truncated", 0, decoded.used)
     ELSE IF over /\ WireTypeOf(t) = LengthDelimited /\ region.error = "none"
     THEN Parsed("Truncated", 0, region.used)
     ELSE decoded

(* skip_field, one field of it: those that repeat the tag come back to it. *)
Skipped(wiretype, bytes, cap) ==
  LET varint == DecodeVarint(bytes)
      used == CASE wiretype = Varint -> varint.used
                [] wiretype = LengthDelimited -> varint.used + varint.value
                [] OTHER -> FixedWidth[wiretype]
  IN IF wiretype \in {Varint, LengthDelimited} /\ varint.error # "none"
     THEN Parsed(IF varint.used > cap THEN "Truncated" ELSE varint.error, 0, varint.used)
     ELSE IF used > Len(bytes) THEN Parsed("Truncated", 0, 0)
     ELSE Parsed("none", 0, used)

Refuse(err, advanced) ==
  Finish(err, value, advanced, canon) /\ UNCHANGED last

(* The next key and what is behind it.                                     *)
Key == DecodeVarint(SubSeq(wire, pos + 1, Len(wire)))
KeyTag(key) == (IF last = -1 THEN 0 ELSE last) + key.value \div 4
Behind(key) == SubSeq(wire, pos + key.used + 1, Len(wire))
Cap(key) == end - pos - key.used

BadKey(key) ==
  /\ key.error # "none"
  /\ Refuse(IF Cap(key) < 0 THEN "Truncated" ELSE key.error, pos + key.used)

TagOverflow(key) ==
  /\ key.error = "none" /\ KeyTag(key) > MaxTag
  /\ Refuse("TagOverflowed", pos + key.used)

Store(i, val) ==
  IF type.form = "inclusive"
  THEN taken' = [taken EXCEPT ![i] = val] /\ UNCHANGED value
  ELSE value' = [value EXCEPT ![i] = val] /\ UNCHANGED taken

(* An item that holds its empty value should not have been there.          *)
EmptyItem(item, val) == val = FreshSimple(item)

Found(item, val) ==
  IF how.min # Relaxed /\ EmptyItem(item, val) THEN NotCanonical ELSE Canonical

(* The item a key announces, decoded from what is behind the key.          *)
TakeItem(key, item, decoded) ==
  LET advanced == pos + key.used + decoded.used
      found == Found(item, decoded.value)
  IN IF decoded.error # "none" THEN Refuse(decoded.error, advanced)
     ELSE IF CheckError(found, how.min) # "none"
     THEN Refuse(CheckError(found, how.min), advanced)
     ELSE /\ Store(KeyTag(key) + 1, decoded.value)
          /\ canon' = Lower(canon, found)
          /\ pos' = advanced
          /\ last' = KeyTag(key)
          /\ UNCHANGED <<phase, error>>

KnownField(key) ==
  /\ key.error = "none" /\ KeyTag(key) \in {0, 1}
  /\ LET item == type.items[KeyTag(key) + 1]
     IN IF KeyTag(key) = last THEN Refuse("UnexpectedlyRepeated", pos + key.used)
        ELSE IF key.value % 4 # WireTypeOf(item)
        THEN Refuse("WrongWireType", pos + key.used)
        ELSE TakeItem(key, item, DecodeCapped(item, Behind(key), Cap(key)))

(* A field of an unknown tag is passed over.                               *)
PassOver(key, canonicity) ==
  LET Over(skipped) ==
        IF skipped.error # "none" THEN Refuse(skipped.error, pos + key.used)
        ELSE /\ canon' = canonicity
             /\ pos' = pos + key.used + skipped.used
             /\ last' = KeyTag(key)
             /\ UNCHANGED <<phase, error, value, taken>>
  IN Over(Skipped(key.value % 4, Behind(key), Cap(key)))

UnknownField(key) ==
  /\ how.min = Relaxed
  /\ key.error = "none" /\ KeyTag(key) \in 2 .. MaxTag
  /\ PassOver(key, canon)

UnknownDistinguished(key) ==
  /\ how.min # Relaxed
  /\ key.error = "none" /\ KeyTag(key) \in 2 .. MaxTag
  /\ IF CheckError(HasExtensions, how.min) # "none"
     THEN Refuse(CheckError(HasExtensions, how.min), pos + key.used)
     ELSE PassOver(key, Lower(canon, HasExtensions))

(* One turn of the loop over the fields.                                   *)
NextField ==
  LET Take(key) ==
        \/ BadKey(key) \/ TagOverflow(key) \/ KnownField(key)
        \/ UnknownField(key) \/ UnknownDistinguished(key)
  IN /\ phase = "fields" /\ pos < end
     /\ Take(Key)
     /\ UNCHANGED <<type, origin, wire, how, end, hops>>

EndFields ==
  /\ phase = "fields" /\ pos >= end
  /\ IF pos > end THEN Finish("Truncated", value, pos, canon)
     ELSE Finish("none", Target, pos, canon)
  /\ UNCHANGED <<type, origin, wire, how, end, last, hops>>

(* What was decoded is the program's own value from here on.               *)
Keep ==
  /\ phase = "done" /\ error = "none" /\ hops < Hops
  /\ phase' = "held"
  /\ wire' = <<>> /\ origin' = <<>> /\ how' = Relaxing
  /\ pos' = 0 /\ end' = 0 /\ last' = -1 /\ canon' = Canonical
  /\ UNCHANGED <<type, value, taken, error, hops>>

Next ==
  \/ Encode \/ Damage \/ DecodeAtOnce \/ Borrow
  \/ BeginCopy \/ CopyChunk \/ EndCopy \/ Panic
  \/ BeginFields \/ BeginDistinguished \/ NextField \/ EndFields
  \/ Keep

Spec == Init /\ [][Next]_vars

-----------------------------------------------------------------------------
Consumed == SubSeq(wire, 1, pos)

(* The types whose values another type has too, with the same encoding:    *)
(* the table "Compatible Widening" of the README.                          *)
Widens(from, to) ==
  \/ from = to
  \/ /\ from.form = "number" /\ to.form = "number" /\ from.wire = to.wire
     /\ from.nonzero \/ ~ to.nonzero
     /\ from.wire = Varint \/ from.size = to.size
     /\ \/ from.size = 2 /\ ~ from.signed
        \/ from.signed = to.signed /\ from.size <= to.size
  \/ from.form = "text" /\ to.form = "bytes"
  \/ from.form \in Nested /\ to.form \in Nested /\ from.items = to.items

(* true is 1 among the unsigned numbers and -1 among the signed ones.      *)
Corresponding(from, to, val) ==
  IF from.form = "number" /\ ~ from.signed /\ to.signed THEN -val ELSE val

(* A value that one type encodes and another that widens it decodes is the *)
(* corresponding one, is encoded in the same bytes, as many as were        *)
(* measured, and is canonical unless an empty one may not be there.  What  *)
(* is decoded of any bytes is called canonical only if they are its        *)
(* encoding, and bytes that encode a value are not refused.                *)
ValuesExact ==
  phase = "done" =>
    LET exact == Consumed = EncodeValue(type, value)
        allowed == how.allowEmpty \/ value # Fresh(type)
        isCanonical == type.form \notin Nested \/ (how.min # Relaxed /\ canon = Canonical)
    IN /\ error = "none" =>
            /\ isCanonical => exact /\ ValueEncodedLen(type, value) = pos
            /\ type.form \in Nested /\ how.min # Relaxed /\ exact /\ allowed
                 => canon = Canonical
            /\ type.form \in Nested /\ ~ allowed /\ how.min # Relaxed
                 => canon # Canonical
       /\ origin # <<>> /\ Widens(origin[1].type, type) /\ ~ how.limited =>
            \/ /\ error = "none" /\ exact
               /\ value = Corresponding(origin[1].type, type, origin[1].value)
            \/ type.form \in Nested /\ ~ how.allowEmpty
               /\ origin[1].value = Fresh(type) /\ how.min # Relaxed
       /\ error # "none" /\ type.form \notin Nested =>
            \A sample \in Samples[type] : ~ IsPrefix(EncodeValue(type, sample), wire)

(* A string never holds bytes that are not text where the program can see  *)
(* it: not after a failed decode, and not after a Buf that panicked while  *)
(* it was copied, although the bytes are put in before they are checked.   *)
StringsStayText ==
  /\ type.form = "text" /\ phase # "copying" => IsText(value)
  /\ type.form \in Nested =>
       \A i \in {1, 2} : type.items[i].form = "text" => IsText(value[i])
=============================================================================
