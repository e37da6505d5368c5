------------------------------ MODULE Encoding ------------------------------
(***************************************************************************)
(* Encoding a message three times over, as the derived raw_encode,         *)
(* raw_prepend and raw_encoded_len do: forwards with a TagWriter, from the *)
(* back with a TagRevWriter, and only counted with a RuntimeTagMeasurer.   *)
(* The length of a nested message is known beforehand when encoding        *)
(* forwards, and measured afterwards when encoding from the back.          *)
(***************************************************************************)
EXTENDS Decoder, SequencesExt

(* The tags of a value's fields, in the order they are encoded in.         *)
SortedTags(value) == SetToSortSeq(DOMAIN value, <)

(* The calls of encode_field or prepend_field a field's encoder makes.     *)
FieldCalls(tag, field, value) ==
  IF field.card = "unpacked"
  THEN [i \in 1 .. Len(value) |->
          [tag |-> tag, packed |-> FALSE, item |-> field.item, value |-> value[i]]]
  ELSE <<[tag |-> tag, packed |-> field.card = "packed", item |-> field.item,
          value |-> value]>>

Calls(type, value) ==
  FlattenSeq([i \in DOMAIN SortedTags(value) |->
                LET tag == SortedTags(value)[i]
                IN FieldCalls(tag, Messages[type][tag], value[tag])])

WireTypeOfCall(call) ==
  IF call.packed THEN LengthDelimited ELSE WireTypeOf(call.item)

EncodeKey(delta, wire) == EncodeVarint(4 * delta + wire)

-----------------------------------------------------------------------------
(* raw_encoded_len.                                                        *)

RECURSIVE EncodedLen(_, _)

ValueEncodedLen(item, value) ==
  CASE item = "varint" -> EncodedLenVarint(value[1])
    [] item = "fixed" -> FixedWidth[ThirtyTwoBit]
    [] OTHER -> LET inner == EncodedLen(item, value)
                IN EncodedLenVarint(inner) + inner

ManyValuesEncodedLen(item, values) ==
  FoldLeft(LAMBDA len, value : len + ValueEncodedLen(item, value), 0, values)

(* Mutant of FieldEncodedLen: the last tag is not remembered.              *)
FieldLenFromStart(tm, tag, field, value) ==
  LET many == ManyValuesEncodedLen(field.item, value)
      body == CASE field.card = "unpacked" -> many + Len(value) - 1
                [] field.card = "packed" -> EncodedLenVarint(many) + many
                [] OTHER -> ValueEncodedLen(field.item, value)
  IN [last |-> 0,
      len |-> tm.len + EncodedLenVarint(4 * (tag - tm.last)) + body]

(* What a field adds to the measurer, of the last tag and the length.      *)
FieldEncodedLen(tm, tag, field, value) ==
  LET many == ManyValuesEncodedLen(field.item, value)
      body == CASE field.card = "unpacked" -> many + Len(value) - 1
                [] field.card = "packed" -> EncodedLenVarint(many) + many
                [] OTHER -> ValueEncodedLen(field.item, value)
  IN [last |-> tag,
      len |-> tm.len + EncodedLenVarint(4 * (tag - tm.last)) + body]

EncodedLen(type, value) ==
  FoldLeft(LAMBDA tm, tag :
             FieldEncodedLen(tm, tag, Messages[type][tag], value[tag]),
           [last |-> 0, len |-> 0], SortedTags(value)).len

-----------------------------------------------------------------------------
(* raw_encode: the writer has the last tag and what is written.            *)

RECURSIVE Encode(_, _)

EncodeItem(item, value) ==
  CASE item = "varint" -> EncodeVarint(value[1])
    [] item = "fixed" -> value
    [] OTHER -> EncodeVarint(EncodedLen(item, value)) \o Encode(item, value)

EncodeItems(item, values) ==
  FlattenSeq([i \in 1 .. Len(values) |-> EncodeItem(item, values[i])])

EncodeValue(call) ==
  IF call.packed
  THEN EncodeVarint(ManyValuesEncodedLen(call.item, call.value))
         \o EncodeItems(call.item, call.value)
  ELSE EncodeItem(call.item, call.value)

EncodeField(tw, call) ==
  [last |-> call.tag,
   buf |-> tw.buf \o EncodeKey(call.tag - tw.last, WireTypeOfCall(call)) \o EncodeValue(call)]

Encode(type, value) ==
  FoldLeft(EncodeField, [last |-> 0, buf |-> <<>>], Calls(type, value)).buf

-----------------------------------------------------------------------------
(* raw_prepend: the writer has the key of the field in front, which is     *)
(* written when the field before it begins or the message is done.         *)

RECURSIVE Prepend(_, _)

Measured(bytes) == EncodeVarint(Len(bytes)) \o bytes

PrependItem(item, value) ==
  CASE item = "varint" -> EncodeVarint(value[1])
    [] item = "fixed" -> value
    [] OTHER -> Measured(Prepend(item, value))

PrependItems(item, values) ==
  FoldRight(LAMBDA value, buf : PrependItem(item, value) \o buf, values, <<>>)

PrependValue(call) ==
  IF call.packed THEN Measured(PrependItems(call.item, call.value))
  ELSE PrependItem(call.item, call.value)

(* begin_field and the value.                                              *)
PrependField(call, tw) ==
  [tag |-> call.tag,
   wire |-> WireTypeOfCall(call),
   buf |-> PrependValue(call)
             \o (IF tw.tag = NoTag THEN <<>> ELSE EncodeKey(tw.tag - call.tag, tw.wire))
             \o tw.buf]

(* finalize.                                                               *)
Finalize(tw) == IF tw.tag = NoTag THEN <<>> ELSE EncodeKey(tw.tag, tw.wire) \o tw.buf

Prepend(type, value) ==
  Finalize(FoldRight(PrependField, Calls(type, value),
                     [tag |-> NoTag, wire |-> Varint, buf |-> <<>>]))
=============================================================================
