----------------------------- MODULE FieldOrder -----------------------------
(***************************************************************************)
(* The derive macro's field order (src/bilrost-derive/src/field/mod.rs):   *)
(* fields are parsed and given tags, then one scan over them in the order  *)
(* of their first tags cuts them into chunks.  A chunk is emitted as it is *)
(* or, where a oneof's tags interleave with others, sorted at run time by  *)
(* the tags its parts have then.  What is encoded must be ascending for    *)
(* every value of the message: the writer of keys panics otherwise.        *)
(***************************************************************************)
EXTENDS Attributes

CONSTANTS
  Declarations,   (* the structs, variants and enums that may be declared  *)
  ShortDelta      (* the keys of smaller distances fit one byte, 32        *)

(* A field as it is understood.                                            *)
Declared == [kind : {"Value", "Oneof", "Ignored"}, tags : SUBSET Tag,
             init : {"empty", "mode", "expr"}]

ASSUME FieldOrderAssumption ==
  /\ MaxTag \in Nat
  /\ RangeLimit \in Nat /\ ShortDelta \in Nat
  /\ \A d \in Declarations :
       /\ d.kind \in {"struct", "variant", "oneof", "enumeration"}
       /\ d.kind \in {"struct", "variant"} => d.fields \in Seq(Seq(Seq(Attribute)))
       /\ d.kind = "variant" => Given(BilrostAttrs(d.attrs), "message")

VARIABLES
  declared,      (* what the macro is applied to                           *)
  phase,         (* "attributes", "parse", "scan", and "done", "derived"   *)
                 (* (an enum), or "refused" with an error                  *)
  reserved,      (* the reserved tags                                      *)
  nextTag,       (* the tag a value without one gets; MaxTag + 1 is None   *)
  fields,        (* the fields that are still to be parsed, or scanned     *)
  parsed,        (* the fields parsed so far, with their tags              *)
  ignored,       (* the ignored fields parsed so far                       *)
  chunks,        (* the chunks made so far                                 *)
  group,         (* current_sort_group                                     *)
  contiguous,    (* current_contiguous_group                               *)
  oneofTags      (* sort_group_oneof_tags                                  *)

scanned == <<chunks, group, contiguous, oneofTags>>
vars == <<declared, phase, reserved, nextTag, fields, parsed, ignored, scanned>>

FirstTag(field) == CHOOSE t \in field.tags : \A u \in field.tags : t <= u
LastTag(field) == CHOOSE t \in field.tags : \A u \in field.tags : t >= u

(* The members of a set by their keys, which differ.                       *)
InOrder(S, key) ==
  [i \in 1 .. Cardinality(S) |->
     CHOOSE j \in S : Cardinality({k \in S : key[k] < key[j]}) = i - 1]

-----------------------------------------------------------------------------
(* Parsing.                                                                *)

Init ==
  /\ declared \in Declarations
  /\ phase = "attributes"
  /\ reserved = {}
  /\ nextTag = 0
  /\ fields = <<>>
  /\ parsed = <<>>
  /\ ignored = <<>>
  /\ chunks = <<>>
  /\ group = <<>>
  /\ contiguous = <<>>
  /\ oneofTags = {}

attributes == BilrostAttrs(declared.attrs)

(* What declares fields: a struct, or a variant marked as a message.       *)
AttributesRefused ==
  IF declared.kind = "struct"
  THEN AttrsRefused(declared.attrs) \/ StructRefused(attributes)
  ELSE VariantRefused([attrs |-> declared.attrs, fields |-> declared.fields])

Refuse ==
  /\ phase' = "refused"
  /\ UNCHANGED <<declared, reserved, nextTag, fields, parsed, ignored, scanned>>

(* Tuple structs number their fields from 0, others from 1.                *)
ReadAttributes ==
  /\ phase = "attributes" /\ declared.kind \in {"struct", "variant"}
  /\ IF AttributesRefused THEN Refuse
     ELSE /\ phase' = "parse"
          /\ reserved' = ReservedTags(attributes)
          /\ nextTag' = IF declared.tuple THEN 0 ELSE 1
          /\ fields' = declared.fields
          /\ UNCHANGED <<declared, parsed, ignored, scanned>>

(* Oneofs and enumerations are derived from their variants at once.        *)
EnumRefused ==
  IF declared.kind = "enumeration" THEN EnumerationRefused(declared.variants)
  ELSE DeriveOneofRefused(declared.attrs, declared.variants)

DeriveEnum ==
  /\ phase = "attributes" /\ declared.kind \in {"oneof", "enumeration"}
  /\ phase' = IF EnumRefused THEN "refused" ELSE "derived"
  /\ UNCHANGED <<declared, reserved, nextTag, fields, parsed, ignored, scanned>>

(* An ignored field has no tags and does not count.                        *)
AddField(field) ==
  /\ IF field.kind = "Ignored"
     THEN ignored' = Append(ignored, field) /\ UNCHANGED <<parsed, nextTag>>
     ELSE /\ parsed' = Append(parsed, field)
          /\ nextTag' = LastTag(field) + 1
          /\ UNCHANGED ignored
  /\ fields' = Tail(fields)
  /\ UNCHANGED <<declared, phase, reserved, scanned>>

(* A field is refused for its attributes, or for want of a tag.            *)
ParseField ==
  /\ phase = "parse" /\ fields # <<>>
  /\ IF FieldRefused(Head(fields), nextTag) THEN Refuse
     ELSE AddField(FieldOf(Head(fields), nextTag))

HasReservedTag == \E i \in 1 .. Len(parsed) : parsed[i].tags \cap reserved # {}

HasDuplicateTag ==
  \E i, j \in 1 .. Len(parsed) :
    i # j /\ parsed[i].tags \cap parsed[j].tags # {}

(* A distinguished message has no ignored fields; those of variants are    *)
(* looked at when the whole oneof is derived.                              *)
DistinguishedIgnores ==
  /\ declared.kind = "struct" /\ Given(attributes, "distinguished")
  /\ ignored # <<>>

FieldsRefused == HasReservedTag \/ HasDuplicateTag \/ DistinguishedIgnores

StartScan ==
  /\ phase = "parse" /\ fields = <<>>
  /\ IF FieldsRefused THEN Refuse
     ELSE /\ phase' = "scan"
          /\ LET all == 1 .. Len(parsed)
                 order == InOrder(all, [i \in all |-> FirstTag(parsed[i])])
             IN fields' = [i \in all |-> parsed[order[i]]]
          /\ UNCHANGED <<declared, reserved, nextTag, parsed, ignored, scanned>>

-----------------------------------------------------------------------------
(* The scan.  A chunk is a field that is always in order or a group whose  *)
(* parts are sorted; a part is a run of fields or one oneof.               *)

Contiguous(run) == [kind |-> "Contiguous", fields |-> run]
OneofPart(field) == [kind |-> "OneofPart", fields |-> <<field>>]
AlwaysOrdered(field) ==
  [kind |-> "AlwaysOrdered", parts |-> <<Contiguous(<<field>>)>>]
SortGroup(parts) == [kind |-> "SortGroup", parts |-> parts]

This == Head(fields)
NextStartsBelow(tag) == Len(fields) > 1 /\ FirstTag(fields[2]) < tag

(* This field has a tag above the first one of the field after it.         *)
Overlaps == NextStartsBelow(LastTag(This))

(* A oneof of the group being built has a tag above this field's first.    *)
InSortGroup == \E t \in oneofTags : t > FirstTag(This)

OneofTagWithin(low, high) == \E t \in oneofTags : low <= t /\ t <= high

Flushed(parts, run) ==
  IF run = <<>> THEN parts ELSE Append(parts, Contiguous(run))

(* The group ends with the last field that starts below its greatest tag.  *)
GroupEnds(tags) == tags # {} /\ ~ \E t \in tags : NextStartsBelow(t)

(* The end of a turn: the group is pushed if it is complete.               *)
Settle(parts, run, tags) ==
  /\ IF GroupEnds(tags)
     THEN /\ chunks' = Append(chunks, SortGroup(Flushed(parts, run)))
          /\ group' = <<>> /\ contiguous' = <<>> /\ oneofTags' = {}
     ELSE /\ group' = parts /\ contiguous' = run /\ oneofTags' = tags
          /\ UNCHANGED chunks
  /\ fields' = Tail(fields)
  /\ UNCHANGED <<declared, phase, reserved, nextTag, parsed, ignored>>

Scanning == phase = "scan" /\ fields # <<>>

(* Another field's tags lie between those of this one.                     *)
AddOverlapping ==
  /\ Scanning /\ InSortGroup /\ Overlaps
  /\ Settle(Append(Flushed(group, contiguous), OneofPart(This)), <<>>,
            oneofTags \cup This.tags)

(* An earlier oneof's tag lies between the tags of this one.               *)
Interleaved == OneofTagWithin(FirstTag(This), LastTag(This))

AddInterleaved ==
  /\ Scanning /\ InSortGroup /\ ~ Overlaps /\ Interleaved
  /\ Settle(Append(Flushed(group, contiguous), OneofPart(This)), <<>>,
            oneofTags)

(* Mutant: the range looked at is that of the previous field.              *)
SplitsRunLate ==
  /\ contiguous # <<>>
  /\ LET previous == contiguous[Len(contiguous)]
     IN OneofTagWithin(FirstTag(previous), LastTag(previous))

(* A oneof may be emitted between the previous field of the run and this.  *)
SplitsRun ==
  /\ contiguous # <<>>
  /\ OneofTagWithin(LastTag(contiguous[Len(contiguous)]), FirstTag(This))

AddContiguous ==
  /\ Scanning /\ InSortGroup /\ ~ Overlaps /\ ~ Interleaved
  /\ IF SplitsRun
     THEN Settle(Flushed(group, contiguous), <<This>>, oneofTags)
     ELSE Settle(group, Append(contiguous, This), oneofTags)

StartGroup ==
  /\ Scanning /\ ~ InSortGroup /\ Overlaps
  /\ Settle(Append(group, OneofPart(This)), contiguous, This.tags)

AddAlwaysOrdered ==
  /\ Scanning /\ ~ InSortGroup /\ ~ Overlaps
  /\ chunks' = Append(chunks, AlwaysOrdered(This))
  /\ fields' = Tail(fields)
  /\ UNCHANGED <<declared, phase, reserved, nextTag, parsed, ignored, group,
                 contiguous, oneofTags>>

EndScan ==
  /\ phase = "scan" /\ fields = <<>>
  /\ phase' = "done"
  /\ UNCHANGED <<declared, reserved, nextTag, fields, parsed, ignored, scanned>>

Next ==
  \/ ReadAttributes \/ DeriveEnum \/ ParseField \/ StartScan
  \/ AddOverlapping \/ AddInterleaved \/ AddContiguous
  \/ StartGroup \/ AddAlwaysOrdered \/ EndScan

Spec == Init /\ [][Next]_vars

-----------------------------------------------------------------------------
(* What the generated code emits for a message in which exactly the fields *)
(* with the tags in set are not empty.                                     *)

Tags(fs) == UNION {fs[i].tags : i \in 1 .. Len(fs)}

(* Of a oneof at most one variant is set.                                  *)
Instances ==
  {set \in SUBSET Tags(parsed) :
     \A i \in 1 .. Len(parsed) : Cardinality(parsed[i].tags \cap set) <= 1}

EmittedBy(run, set) ==
  FlattenSeq([i \in 1 .. Len(run) |-> SetToSeq(run[i].tags \cap set)])

(* A run is sorted by the first tag it could emit, a oneof by the tag of   *)
(* the variant that is set.                                                *)
SortTag(part, set) ==
  IF part.kind = "Contiguous" THEN FirstTag(part.fields[1])
  ELSE FirstTag([tags |-> part.fields[1].tags \cap set])

Invoked(parts, set) ==
  {p \in 1 .. Len(parts) :
     parts[p].kind = "Contiguous" \/ parts[p].fields[1].tags \cap set # {}}

EncodedChunk(chunk, set) ==
  LET invoked == Invoked(chunk.parts, set)
      order == InOrder(invoked, [p \in invoked |-> SortTag(chunk.parts[p], set)])
  IN FlattenSeq([i \in 1 .. Len(order) |->
                   EmittedBy(chunk.parts[order[i]].fields, set)])

Encoded(set) ==
  FlattenSeq([i \in 1 .. Len(chunks) |-> EncodedChunk(chunks[i], set)])

(* The prepending code takes chunks, parts and the fields of a run from    *)
(* the last to the first.                                                  *)
PrependedChunk(chunk, set) ==
  LET invoked == Invoked(chunk.parts, set)
      order == InOrder(invoked, [p \in invoked |-> -SortTag(chunk.parts[p], set)])
  IN FlattenSeq([i \in 1 .. Len(order) |->
                   EmittedBy(Reverse(chunk.parts[order[i]].fields), set)])

Prepended(set) ==
  LET last == Reverse(chunks)
  IN FlattenSeq([i \in 1 .. Len(last) |-> PrependedChunk(last[i], set)])

-----------------------------------------------------------------------------
(* Lengths of keys: a key takes one byte if the tags since the last field  *)
(* number less than ShortDelta, 32, and more otherwise.                    *)

KeyLength(delta) == IF delta < ShortDelta THEN 1 ELSE 2

(* TagWriter::encode_key: each tag less the one before.                    *)
WrittenKeys(tags) ==
  [i \in 1 .. Len(tags) |->
     KeyLength(tags[i] - (IF i = 1 THEN 0 ELSE tags[i - 1]))]

(* TagRevWriter: a key is written when the next field begins, less its tag,*)
(* and the last one when the message is finalized.                         *)
PrependedKeys(tags) ==
  [i \in 1 .. Len(tags) |->
     KeyLength(tags[i] - (IF i = Len(tags) THEN 0 ELSE tags[i + 1]))]

(* tag_measurer: whether the trivial one is chosen, for tags all small.    *)
Trivial(tags) == tags # {} /\ \A t \in tags : t < ShortDelta

(* TrivialTagMeasurer::key_len, or RuntimeTagMeasurer's, which subtracts   *)
(* as the writer does.                                                     *)
MeasuredKeys(trivial, tags) ==
  IF trivial THEN [i \in 1 .. Len(tags) |-> 1] ELSE WrittenKeys(tags)

(* encoded_len of the fields of a struct or a variant.  The measurer is    *)
(* chosen at the end of the scan by the fields the scan has left, which    *)
(* are none, so that it is never the trivial one.                          *)
FieldKeys(set) == MeasuredKeys(Trivial(Tags(fields)), Encoded(set))

(* raw_encoded_len of a oneof that is a message, with these tags, when the *)
(* variant with this tag is set.                                           *)
OneofKeys(tags, tag) == MeasuredKeys(Trivial(tags), <<tag>>)

(* Mutant: a variant's fields go on with the measurer of the oneof.        *)
VariantKeysShared(tags, set) ==
  MeasuredKeys(Trivial(tags), <<VariantTag(declared)>> \o Encoded(set))

(* When it is a message variant, its fields are measured anew within.      *)
VariantKeys(tags, set) ==
  OneofKeys(tags, VariantTag(declared)) \o FieldKeys(set)

-----------------------------------------------------------------------------
(* Properties.                                                             *)

(* Whichever fields are set, and whichever variants of oneofs, what is     *)
(* encoded is every set tag once, ascending, so that TagWriter's           *)
(* subtraction in encode_key never fails and no field is lost; prepending  *)
(* goes through the same fields in exactly the opposite order, so that     *)
(* TagRevWriter's subtraction never fails and the bytes agree.  On the way *)
(* process_sort_groups asks every OneofPart for its current tag, which     *)
(* panics for a field that is not a oneof.                                 *)
EncodesAscending ==
  /\ phase = "done" =>
       \A set \in Instances :
         LET tags == Encoded(set) IN
           /\ {tags[i] : i \in 1 .. Len(tags)} = set
           /\ \A i \in 1 .. Len(tags) - 1 : tags[i] < tags[i + 1]
           /\ Prepended(set) = Reverse(tags)
  /\ \A c \in 1 .. Len(chunks) : \A p \in 1 .. Len(chunks[c].parts) :
       LET part == chunks[c].parts[p]
       IN part.kind = "OneofPart" => part.fields[1].kind = "Oneof"

(* encoded_len counts the keys that are written: whichever measurer the    *)
(* macro chooses for a oneof that is a message, for the key of its variant *)
(* and the keys of the variant's fields within, whatever tags its other    *)
(* variants have; and so whether they are written forwards or backwards,   *)
(* where the distance of a key is known one field later.                   *)
MeasuresKeys ==
  /\ phase = "done" =>
       \A set \in Instances :
         LET written == WrittenKeys(Encoded(set)) IN
           /\ FieldKeys(set) = written
           /\ PrependedKeys(Prepended(set)) = Reverse(written)
           /\ declared.kind = "variant" =>
                \A others \in SUBSET Tag :
                  LET tag == VariantTag(declared) IN
                    VariantKeys(others \cup {tag}, set)
                      = WrittenKeys(<<tag>>) \o written
  /\ phase = "derived" /\ declared.kind = "oneof" =>
       LET tags == VariantTags(declared.variants) IN
         \A tag \in tags : OneofKeys(tags, tag) = WrittenKeys(<<tag>>)
=============================================================================
