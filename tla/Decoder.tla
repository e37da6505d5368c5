------------------------------ MODULE Decoder ------------------------------
(***************************************************************************)
(* Decoding a message, as merge and merge_distinguished of                 *)
(* src/encoding/message.rs do it with the field decoders the derive macro  *)
(* chooses.  The buffer is one sequence of bytes with a read position, and *)
(* the nested calls are a stack of frames.  A frame's region ends where    *)
(* `extra` bytes of the buffer remain (struct Capped); reading does not    *)
(* stop there, only the loops look whether they have come too far.         *)
(*                                                                         *)
(* A message value is a function from the tags of its fields that are not  *)
(* empty to their values.  A scalar is a sequence too, of a varint's       *)
(* number or of a fixed value's bytes, so that <<>> is what every field    *)
(* has before it is decoded.                                               *)
(***************************************************************************)
EXTENDS Wire, Canonicity, FiniteSets, TLC

CONSTANTS
  Inputs,          (* the encodings given to the decoder                   *)
  Messages,        (* message types: the fields' card and item, by tag     *)
  Oneofs,          (* the tags of each oneof of each message type          *)
  Roots,           (* the types decoded                                    *)
  Restrictions,    (* the minimum canonicities asked for, or Relaxed       *)
  TagLimit,        (* 2^32, the tags that exist                            *)
  RecursionLimit

(* The kinds of field: a value left out when empty, an Option, vectors     *)
(* that encode packed or as repeated fields, and the variants of a oneof,  *)
(* of one value or with fields of their own, the region of a message.      *)
Variants == {"variant", "struct"}
Explicit == {"optional"} \cup Variants
Card == {"plain", "packed", "unpacked"} \cup Explicit
Scalar == {"varint", "fixed"}
Item == Scalar \cup DOMAIN Messages

ASSUME DecoderAssumption ==
  /\ Inputs \subseteq Seq(Byte)
  /\ Roots \subseteq DOMAIN Messages
  /\ \A type \in DOMAIN Messages :
       /\ DOMAIN Messages[type] \subseteq 0 .. TagLimit - 1
       /\ \A tag \in DOMAIN Messages[type] :
            Messages[type][tag] \in [card : Card, item : Item]
       /\ UNION Oneofs[type] =
            {tag \in DOMAIN Messages[type] : Messages[type][tag].card \in Variants}
  /\ Restrictions \subseteq {Relaxed, NotCanonical, HasExtensions, Canonical}
  /\ TagLimit \in Nat \ {0} /\ RecursionLimit \in Nat

VARIABLES
  input,
  pos,      (* the bytes of the buffer already advanced past               *)
  stack,    (* the frames of the calls being made, the outermost first     *)
  outcome   (* "none" while decoding, then "ok" or the kind of the error   *)

vars == <<input, pos, stack, outcome>>

WireTypeOf(item) ==
  CASE item = "varint" -> Varint
    [] item = "fixed" -> ThirtyTwoBit
    [] OTHER -> LengthDelimited

-----------------------------------------------------------------------------
(* Frames.  `at` is what the frame's function is about to do; `min` the    *)
(* minimum of its context and `depth` how often it may still recurse.      *)

NoTag == -1

LoopFrame(at, type, extra, min, depth) ==
  [at |-> at, type |-> type, extra |-> extra, min |-> min, depth |-> depth,
   tag |-> 0, last |-> NoTag, value |-> <<>>, canon |-> Canonical]

(* The loop over the fields of a message, and the one over the fields of a *)
(* variant.                                                                *)
Loops == {"message", "struct"}
MessageFrame(type, extra, min, depth) ==
  LoopFrame("message", type, extra, min, depth)

(* A single value of a field or collection is to be decoded.               *)
ValueFrame(item, allowEmpty, extra, min, depth) ==
  [at |-> "value", item |-> item, allowEmpty |-> allowEmpty, extra |-> extra,
   min |-> min, depth |-> depth]

(* A collection, in the given representation.  `usual` when it is the one  *)
(* that the field encodes with.                                            *)
CollectionFrame(repr, item, usual, extra, min, depth) ==
  [at |-> repr, item |-> item, usual |-> usual, extra |-> extra, min |-> min,
   depth |-> depth, value |-> <<>>, canon |-> Canonical]

SkipFrame(wire, extra) == [at |-> "skip", wire |-> wire, extra |-> extra]

Top == stack[Len(stack)]
Below == SubSeq(stack, 1, Len(stack) - 1)
Call(frame) == stack' = Append(stack, frame)

(* An error unwinds every call; the frames are left as they were.          *)
Fail(kind) ==
  /\ outcome' = kind
  /\ UNCHANGED <<input, pos, stack>>

-----------------------------------------------------------------------------
(* struct Capped.  These read from position p of the buffer.               *)

Remaining(p) == Len(input) - p
BeforeCap(p, extra) == IF Remaining(p) > extra THEN Remaining(p) - extra ELSE 0

VarintAt(p) == DecodeVarint(SubSeq(input, p + 1, Len(input)))

(* Capped::decode_varint, which hides from its caller that an invalid      *)
(* varint was read past the cap.                                           *)
CappedVarint(p, extra) ==
  LET Seen(v) ==
        IF v.error = "InvalidVarint" /\ Remaining(p + v.used) < extra
        THEN [v EXCEPT !.error = "Truncated"] ELSE v
  IN Seen(VarintAt(p))

(* Mutant of LengthDelimitedAt: only the end of the buffer is looked at.   *)
LengthDelimitedUncapped(p, extra) ==
  LET len == VarintAt(p)
      begin == p + len.used
      left == Remaining(begin)
  IN [error |-> IF len.error # "none" THEN len.error
                ELSE IF len.value > left THEN "Truncated" ELSE "none",
      begin |-> begin,
      extra |-> left - len.value]

(* take_length_delimited: where the region begins, and its own cap.        *)
LengthDelimitedAt(p, extra) ==
  LET len == VarintAt(p)
      begin == p + len.used
      left == Remaining(begin)
  IN [error |-> IF len.error # "none" THEN len.error
                ELSE IF len.value > left \/ left - len.value < extra THEN "Truncated"
                ELSE "none",
      begin |-> begin,
      extra |-> left - len.value]

(* peek_repeated_field: whether a key that repeats the tag is next.        *)
RepeatsAt(p, extra) == BeforeCap(p, extra) > 0 /\ input[p + 1] < 4

(* TagReader::decode_key.                                                  *)
KeyAt(p, frame) ==
  LET Read(key) ==
        LET tag == frame.tag + key.value \div 4
        IN [error |-> IF key.error # "none" THEN key.error
                      ELSE IF tag >= TagLimit THEN "TagOverflowed"
                      ELSE "none",
            tag |-> tag,
            wire |-> key.value % 4,
            used |-> key.used]
  IN Read(CappedVarint(p, frame.extra))

-----------------------------------------------------------------------------
Init ==
  /\ input \in Inputs
  /\ pos = 0
  /\ \E root \in Roots, min \in Restrictions :
       stack = <<MessageFrame(root, 0, min, RecursionLimit)>>
  /\ outcome = "none"

(* The function of the top frame returns a value of that canonicity, for   *)
(* its caller to put in its place.                                         *)
Returns(value, canon) ==
  LET caller == Below[Len(Below)]
      Empty == value = <<>> /\ Messages[caller.type][caller.tag].card \notin Explicit
      kept == IF caller.at \notin Loops THEN Append(caller.value, value)
              ELSE IF Empty THEN caller.value
              ELSE (caller.tag :> value) @@ caller.value
  IN stack' = [Below EXCEPT ![Len(Below)].value = kept,
                            ![Len(Below)].canon = Lower(caller.canon, canon)]

-----------------------------------------------------------------------------
(* The loop of a message, at its top.                                      *)

AtMessage == Top.at \in Loops
Key == KeyAt(pos, Top)
Known == Key.tag \in DOMAIN Messages[Top.type]
Field == Messages[Top.type][Key.tag]

(* A variant of the oneof that has this field is there already.            *)
Conflicting ==
  \E oneof \in Oneofs[Top.type] :
    Key.tag \in oneof /\ oneof \cap DOMAIN Top.value # {}

(* Any other field is seen to be repeated by its tag.                      *)
Duplicated == Field.card \notin Variants /\ Key.tag = Top.last

(* has_remaining(), in the loops of messages and of packed collections.    *)
OverCap ==
  /\ Top.at \in Loops \cup {"packed"}
  /\ Remaining(pos) < Top.extra
  /\ Fail("Truncated")

(* Mutant of MessageEnd: a region read past its end is done as well.       *)
MessageEndBehind ==
  /\ AtMessage
  /\ Remaining(pos) <= Top.extra
  /\ IF Below = <<>>
     THEN outcome' = "ok" /\ UNCHANGED stack
     ELSE Returns(Top.value, Top.canon) /\ UNCHANGED outcome
  /\ UNCHANGED <<input, pos>>

MessageEnd ==
  /\ AtMessage
  /\ Remaining(pos) = Top.extra
  /\ IF Below = <<>>
     THEN outcome' = "ok" /\ UNCHANGED stack
     ELSE Returns(Top.value, Top.canon) /\ UNCHANGED outcome
  /\ UNCHANGED <<input, pos>>

BadKey ==
  /\ AtMessage
  /\ Remaining(pos) > Top.extra
  /\ Key.error # "none"
  /\ Fail(Key.error)

(* The frame of a message that has read the key of its next field.         *)
AfterKey == [Top EXCEPT !.tag = Key.tag, !.last = Key.tag]

GoodKey ==
  /\ AtMessage
  /\ Remaining(pos) > Top.extra
  /\ Key.error = "none"

UnknownField ==
  /\ GoodKey
  /\ ~Known
  /\ IF CheckError(HasExtensions, Top.min) # "none"
     THEN Fail(CheckError(HasExtensions, Top.min))
     ELSE /\ pos' = pos + Key.used
          /\ stack' = Below \o
               <<[AfterKey EXCEPT !.canon = Lower(@, HasExtensions)],
                 SkipFrame(Key.wire, Top.extra)>>
          /\ UNCHANGED <<input, outcome>>

RepeatedField ==
  /\ GoodKey
  /\ Known
  /\ Duplicated
  /\ Fail("UnexpectedlyRepeated")

(* The Option or the derived enum that a oneof is refuses a second variant.*)
ConflictingField ==
  /\ GoodKey
  /\ Known
  /\ Conflicting
  /\ Fail(IF Key.tag \in DOMAIN Top.value THEN "UnexpectedlyRepeated"
          ELSE "ConflictingFields")

(* Mutant of NewField: what a oneof holds already is not looked at.        *)
NewFieldOrVariant == GoodKey /\ Known /\ ~Duplicated

NewField == GoodKey /\ Known /\ ~Duplicated /\ ~Conflicting

(* A field that is one value.                                              *)
SingleField ==
  /\ NewField
  /\ Field.card \in {"plain", "optional", "variant"}
  /\ IF Key.wire # WireTypeOf(Field.item)
     THEN Fail("WrongWireType")
     ELSE /\ pos' = pos + Key.used
          /\ stack' = Below \o
               <<AfterKey,
                 ValueFrame(Field.item, Field.card \in Explicit, Top.extra, Top.min,
                            Top.depth)>>
          /\ UNCHANGED <<input, outcome>>

(* The fields of a variant are decoded by a loop of their own, which gets  *)
(* the context as it is.                                                   *)
StructVariant ==
  LET region == LengthDelimitedAt(pos + Key.used, Top.extra)
  IN /\ NewField
     /\ Field.card = "struct"
     /\ IF Key.wire # LengthDelimited THEN Fail("WrongWireType")
        ELSE IF region.error # "none" THEN Fail(region.error)
        ELSE /\ pos' = region.begin
             /\ stack' = Below \o
                  <<AfterKey,
                    LoopFrame("struct", Field.item, region.extra, Top.min, Top.depth)>>
             /\ UNCHANGED <<input, outcome>>

(* The representation a collection's first key announces; the one that is  *)
(* not the field's own is decoded relaxed, if it is tolerated at all.      *)
Packed ==
  /\ Key.wire = LengthDelimited
  /\ Field.card = "packed" \/ WireTypeOf(Field.item) # LengthDelimited
Usual == Packed <=> Field.card = "packed"
CollectionMin == IF Usual THEN Top.min ELSE Relaxed

Collection ==
  /\ NewField
  /\ Field.card \in {"packed", "unpacked"}

ForeignCollection ==
  /\ Collection
  /\ ~Usual
  /\ CheckError(NotCanonical, Top.min) # "none"
  /\ Fail(CheckError(NotCanonical, Top.min))

PackedCollection ==
  LET region == LengthDelimitedAt(pos + Key.used, Top.extra)
      size == Remaining(region.begin) - region.extra
  IN /\ Collection
     /\ Packed
     /\ Usual \/ CheckError(NotCanonical, Top.min) = "none"
     /\ IF region.error # "none"
        THEN Fail(region.error)
        ELSE IF Field.item = "fixed" /\ size % FixedWidth[ThirtyTwoBit] # 0
        THEN Fail("Truncated")
        ELSE /\ pos' = region.begin
             /\ stack' = Below \o
                  <<AfterKey,
                    CollectionFrame("packed", Field.item, Usual, region.extra,
                                    CollectionMin, Top.depth)>>
             /\ UNCHANGED <<input, outcome>>

UnpackedCollection ==
  /\ Collection
  /\ ~Packed
  /\ Usual \/ CheckError(NotCanonical, Top.min) = "none"
  /\ IF Key.wire # WireTypeOf(Field.item)
     THEN Fail("WrongWireType")
     ELSE /\ pos' = pos + Key.used
          /\ stack' = Below \o
               <<AfterKey,
                 CollectionFrame("unpacked", Field.item, Usual, Top.extra,
                                 CollectionMin, Top.depth),
                 ValueFrame(Field.item, TRUE, Top.extra, CollectionMin, Top.depth)>>
          /\ UNCHANGED <<input, outcome>>

-----------------------------------------------------------------------------
(* Single values.                                                          *)

AtValue(items) == Top.at = "value" /\ Top.item \in items

(* Mutant of ReturnsScalar: empty values lower the canonicity without a    *)
(* check of the minimum.                                                   *)
ReturnsUnchecked(value, empty, next) ==
  LET canon == IF empty /\ ~Top.allowEmpty THEN NotCanonical ELSE Canonical
  IN /\ pos' = next
     /\ Returns(IF empty /\ ~Top.allowEmpty THEN <<>> ELSE value, canon)
     /\ UNCHANGED <<input, outcome>>

(* A field that is left out when empty may not be there and be empty.      *)
ReturnsScalar(value, empty, next) ==
  LET canon == IF empty /\ ~Top.allowEmpty THEN NotCanonical ELSE Canonical
  IN IF CheckError(canon, Top.min) # "none"
     THEN Fail(CheckError(canon, Top.min))
     ELSE /\ pos' = next
          /\ Returns(IF empty /\ ~Top.allowEmpty THEN <<>> ELSE value, canon)
          /\ UNCHANGED <<input, outcome>>

VarintValue ==
  LET v == CappedVarint(pos, Top.extra)
  IN /\ AtValue({"varint"})
     /\ IF v.error # "none" THEN Fail(v.error)
        ELSE ReturnsScalar(<<v.value>>, v.value = 0, pos + v.used)

FixedValue ==
  LET width == FixedWidth[ThirtyTwoBit]
      bytes == SubSeq(input, pos + 1, pos + width)
  IN /\ AtValue({"fixed"})
     /\ IF BeforeCap(pos, Top.extra) < width THEN Fail("Truncated")
        ELSE ReturnsScalar(bytes, \A i \in 1 .. width : bytes[i] = 0, pos + width)

(* Mutant of MessageValue: the nested message gets the context as it is.   *)
MessageSameDepth ==
  LET region == LengthDelimitedAt(pos, Top.extra)
  IN /\ AtValue(DOMAIN Messages)
     /\ IF Top.depth = 0 THEN Fail("RecursionLimitReached")
        ELSE IF region.error # "none" THEN Fail(region.error)
        ELSE /\ pos' = region.begin
             /\ stack' = Append(Below,
                  MessageFrame(Top.item, region.extra, Top.min, Top.depth))
             /\ UNCHANGED <<input, outcome>>

MessageValue ==
  LET region == LengthDelimitedAt(pos, Top.extra)
      refused == /\ Top.min # Relaxed /\ ~Top.allowEmpty
                 /\ Remaining(region.begin) = region.extra
  IN /\ AtValue(DOMAIN Messages)
     /\ IF Top.depth = 0 THEN Fail("RecursionLimitReached")
        ELSE IF region.error # "none" THEN Fail(region.error)
        ELSE IF refused /\ CheckError(NotCanonical, Top.min) # "none"
        THEN Fail(CheckError(NotCanonical, Top.min))
        ELSE /\ pos' = region.begin
             /\ IF refused THEN Returns(<<>>, NotCanonical)
                ELSE stack' = Append(Below,
                       MessageFrame(Top.item, region.extra, Top.min, Top.depth - 1))
             /\ UNCHANGED <<input, outcome>>

-----------------------------------------------------------------------------
(* Collections.                                                            *)

CallItem ==
  Call(ValueFrame(Top.item, TRUE, Top.extra, Top.min, Top.depth))

(* Mutant of ReturnsCollection: whichever representation it was decoded    *)
(* from.                                                                   *)
ReturnsAnyway(canon) == Returns(Top.value, canon)

ReturnsCollection(canon) ==
  Returns(Top.value, IF Top.usual THEN canon ELSE NotCanonical)

PackedItem ==
  /\ Top.at = "packed"
  /\ Remaining(pos) > Top.extra
  /\ CallItem
  /\ UNCHANGED <<input, pos, outcome>>

(* An empty collection is not canonical.                                   *)
PackedEnd ==
  LET canon == IF Top.value = <<>> THEN NotCanonical ELSE Top.canon
  IN /\ Top.at = "packed"
     /\ Remaining(pos) = Top.extra
     /\ IF CheckError(canon, Top.min) # "none"
        THEN Fail(CheckError(canon, Top.min))
        ELSE ReturnsCollection(canon) /\ UNCHANGED <<input, pos, outcome>>

UnpackedItem ==
  /\ Top.at = "unpacked"
  /\ RepeatsAt(pos, Top.extra)
  /\ IF input[pos + 1] # WireTypeOf(Top.item)
     THEN Fail("WrongWireType")
     ELSE /\ pos' = pos + 1
          /\ CallItem
          /\ UNCHANGED <<input, outcome>>

UnpackedEnd ==
  /\ Top.at = "unpacked"
  /\ ~RepeatsAt(pos, Top.extra)
  /\ ReturnsCollection(Top.canon)
  /\ UNCHANGED <<input, pos, outcome>>

-----------------------------------------------------------------------------
(* skip_field: a value of the wire type of its key is passed over, and the *)
(* next one if its key repeats the tag.                                    *)

PastEnd(len, p) == len > Remaining(p)

SkipValue ==
  LET v == CappedVarint(pos, Top.extra)
      fixed == Top.wire \in DOMAIN FixedWidth
      begin == IF fixed THEN pos ELSE pos + v.used
      len == IF fixed THEN FixedWidth[Top.wire]
             ELSE IF Top.wire = LengthDelimited THEN v.value ELSE 0
      next == begin + len
  IN /\ Top.at = "skip"
     /\ IF ~fixed /\ v.error # "none" THEN Fail(v.error)
        ELSE IF PastEnd(len, begin) THEN Fail("Truncated")
        ELSE /\ IF RepeatsAt(next, Top.extra)
                THEN /\ pos' = next + 1
                     /\ stack' = Append(Below, SkipFrame(input[next + 1], Top.extra))
                ELSE pos' = next /\ stack' = Below
             /\ UNCHANGED <<input, outcome>>

Step ==
  \/ OverCap \/ MessageEnd \/ BadKey \/ UnknownField \/ RepeatedField
  \/ ConflictingField \/ SingleField \/ StructVariant
  \/ ForeignCollection \/ PackedCollection \/ UnpackedCollection
  \/ VarintValue \/ FixedValue \/ MessageValue
  \/ PackedItem \/ PackedEnd \/ UnpackedItem \/ UnpackedEnd
  \/ SkipValue

(* The call has returned.                                                  *)
Returned == outcome # "none" /\ UNCHANGED vars

Next == (outcome = "none" /\ Step) \/ Returned

Spec == Init /\ [][Next]_vars

-----------------------------------------------------------------------------
(* Properties                                                              *)

(* The cap of a nested call is never behind the cap of its caller, however *)
(* far reading has gone past either of them.  take_length_delimited checks *)
(* it with the remaining bytes only.                                       *)
CapsNested ==
  \A i, j \in 1 .. Len(stack) : i <= j => stack[i].extra <= stack[j].extra

(* Reading never advances past the end of the buffer, where Buf::advance   *)
(* panics.  The checks before it differ by kind of value, and most of them *)
(* are not those of the cap.                                               *)
StaysInBuffer == pos \in 0 .. Len(input)

(* Reading and the regions read from stay in the buffer and in each other, *)
(* whatever lengths the input holds (encoding/mod.rs:1017-1034, 1139).     *)
ReadsInBounds == StaysInBuffer /\ CapsNested

HasCanon(frame) == frame.at \in Loops \cup {"packed", "unpacked"}

(* No call goes on with a canonicity below the minimum it was asked for:   *)
(* each place that lowers it has turned that into an error already, which  *)
(* is what the debug assertion at the end of merge_distinguished relies on.*)
RespectsMinimum ==
  \A i \in 1 .. Len(stack) : HasCanon(stack[i]) => stack[i].canon >= stack[i].min

(* What a call may still recurse is the limit less the messages it is      *)
(* nested in, through variants, collections and either kind of context.    *)
DepthAccounted ==
  \A i \in 1 .. Len(stack) :
    stack[i].at # "skip" =>
      stack[i].depth + Cardinality({j \in 2 .. i : stack[j].at = "message"})
        = RecursionLimit
=============================================================================
