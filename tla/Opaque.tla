------------------------------- MODULE Opaque -------------------------------
(***************************************************************************)
(* OpaqueMessage (src/encoding/opaque.rs): a message decoded without a     *)
(* schema, a map from each tag to the values of its fields in the order    *)
(* they came.  A value is known by its wire type only.  What is decoded    *)
(* stands in the buffer of the decoder, whose capped reads it uses.        *)
(***************************************************************************)
EXTENDS Encoding

-----------------------------------------------------------------------------
(* One value.                                                              *)

(* OpaqueValue::decode_value: the value at a position and where it ends.   *)
OpaqueValueAt(wire, p, extra) ==
  LET number == CappedVarint(p, extra)
      region == LengthDelimitedAt(p, extra)
      regionEnd == Len(input) - region.extra
      fixedEnd == p + FixedWidth[wire]
      Read(data, next) ==
        [error |-> "none", value |-> [wire |-> wire, data |-> data], next |-> next]
      Refused(error) == [error |-> error]
  IN CASE wire = Varint ->
            IF number.error # "none" THEN Refused(number.error)
            ELSE Read(number.value, p + number.used)
       [] wire = LengthDelimited ->
            IF region.error # "none" THEN Refused(region.error)
            ELSE Read(SubSeq(input, region.begin + 1, regionEnd), regionEnd)
       [] OTHER ->
            IF BeforeCap(p, extra) < FixedWidth[wire] THEN Refused("Truncated")
            ELSE Read(SubSeq(input, p + 1, fixedEnd), fixedEnd)

(* OpaqueValue::encode_value, and prepend_value, whose length is what it   *)
(* has just written.                                                       *)
EncodeOpaque(value) ==
  CASE value.wire = Varint -> EncodeVarint(value.data)
    [] value.wire = LengthDelimited -> EncodeVarint(Len(value.data)) \o value.data
    [] OTHER -> value.data

OpaqueValueEncodedLen(value) ==
  CASE value.wire = Varint -> EncodedLenVarint(value.data)
    [] value.wire = LengthDelimited ->
         EncodedLenVarint(Len(value.data)) + Len(value.data)
    [] OTHER -> FixedWidth[value.wire]

-----------------------------------------------------------------------------
(* The message.                                                            *)

(* Mutant of Insert: a value replaces the one its tag had.                 *)
InsertReplacing(message, tag, value) == (tag :> <<value>>) @@ message

Insert(message, tag, value) ==
  IF tag \in DOMAIN message THEN [message EXCEPT ![tag] = Append(@, value)]
  ELSE (tag :> <<value>>) @@ message

(* raw_decode_field for every key up to the end of the region: neither a   *)
(* repeated tag nor the recursion limit is looked at.                      *)
RECURSIVE MergeOpaque(_, _, _, _)
MergeOpaque(p, extra, tag, message) ==
  LET key == KeyAt(p, [extra |-> extra, tag |-> tag])
      read == OpaqueValueAt(key.wire, p + key.used, extra)
      Refused(error) == [error |-> error, message |-> message]
  IN IF Remaining(p) < extra THEN Refused("Truncated")
     ELSE IF Remaining(p) = extra THEN [error |-> "none", message |-> message]
     ELSE IF key.error # "none" THEN Refused(key.error)
     ELSE IF read.error # "none" THEN Refused(read.error)
     ELSE MergeOpaque(read.next, extra, key.tag,
                      Insert(message, key.tag, read.value))

(* OpaqueMessage::iter: the entries of the map in the order of their tags, *)
(* flattened to the values each tag has.                                   *)
Fields(message) ==
  LET tags == SetToSortSeq(DOMAIN message, <)
      Of(tag) == [k \in DOMAIN message[tag] |->
                    [tag |-> tag, value |-> message[tag][k]]]
  IN FlattenSeq([i \in DOMAIN tags |-> Of(tags[i])])

(* raw_encode, raw_prepend and raw_encoded_len.                            *)
EncodeOpaqueMessage(message) ==
  LET Write(tw, field) ==
        [last |-> field.tag,
         buf |-> tw.buf \o EncodeKey(field.tag - tw.last, field.value.wire)
                   \o EncodeOpaque(field.value)]
  IN FoldLeft(Write, [last |-> 0, buf |-> <<>>], Fields(message)).buf

PrependOpaqueMessage(message) ==
  LET Write(field, tw) ==
        [tag |-> field.tag,
         wire |-> field.value.wire,
         buf |-> EncodeOpaque(field.value)
                   \o (IF tw.tag = NoTag THEN <<>>
                       ELSE EncodeKey(tw.tag - field.tag, tw.wire))
                   \o tw.buf]
  IN Finalize(FoldRight(Write, Fields(message),
                        [tag |-> NoTag, wire |-> Varint, buf |-> <<>>]))

OpaqueEncodedLen(message) ==
  LET Measure(tm, field) ==
        [last |-> field.tag,
         len |-> tm.len + EncodedLenVarint(4 * (field.tag - tm.last))
                   + OpaqueValueEncodedLen(field.value)]
  IN FoldLeft(Measure, [last |-> 0, len |-> 0], Fields(message)).len

-----------------------------------------------------------------------------
(* The documentation of OpaqueMessage: it decodes any potentially valid    *)
(* message and re-encodes the exact same bytes.  Whatever a message type   *)
(* accepts is decoded, and what is decoded is written as the bytes it was  *)
(* decoded from, forwards and from the back, and measured to be as long.   *)
OpaqueReencodes ==
  LET opaque == MergeOpaque(0, 0, 0, <<>>)
  IN /\ outcome = "ok" => opaque.error = "none"
     /\ outcome # "none" /\ opaque.error = "none" =>
          /\ EncodeOpaqueMessage(opaque.message) = input
          /\ PrependOpaqueMessage(opaque.message) = input
          /\ OpaqueEncodedLen(opaque.message) = Len(input)
=============================================================================
