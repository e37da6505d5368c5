------------------------------ MODULE Derived -------------------------------
(***************************************************************************)
(* The code the derive macros generate (src/bilrost-derive/src/lib.rs): a  *)
(* message's empty, is_empty, clear and decoding of a field by its tag,    *)
(* the same for a oneof and for a message derived from a oneof, and the    *)
(* numbers of an enumeration.  A message is the set of the tags that have  *)
(* a value, and what its ignored fields hold.                              *)
(***************************************************************************)
EXTENDS FieldOrder

-----------------------------------------------------------------------------
(* Initial values.                                                         *)

(* init_mode, for a field without an expression of its own.                *)
DefaultPerField ==
  declared.kind = "variant" \/ Given(attributes, "default_per_field")

(* The rest of a struct is taken from an expression or from its Default.   *)
UpdateExpression ==
  IF Given(attributes, "default") THEN "default expression"
  ELSE "Default of the struct"

(* IgnoredField::initialize, or the field of the struct update.            *)
Initial(field) ==
  CASE field.init = "expr" -> "own expression"
    [] field.init # "expr" /\ DefaultPerField -> "Default of its type"
    [] OTHER -> UpdateExpression

(* self_where: the implementation needs Self: Default.                     *)
RequiresDefault ==
  /\ ~ DefaultPerField /\ ~ Given(attributes, "default")
  /\ \E i \in 1 .. Len(ignored) : ignored[i].init = "mode"

Empty ==
  [set |-> {}, ignored |-> [i \in 1 .. Len(ignored) |-> Initial(ignored[i])]]
IsEmpty(message) == message.set = {}

(* Mutant: what is ignored is set back as well.                            *)
ClearAll(message) == Empty

Clear(message) == [message EXCEPT !.set = {}]

-----------------------------------------------------------------------------
(* Decoding a field.                                                       *)

Answer(message, outcome) == [message |-> message, outcome |-> outcome]
With(message, tag) == Answer([message EXCEPT !.set = @ \cup {tag}], "ok")

(* MessageField::decode.                                                   *)
DecodeValue(message, tag, duplicated) ==
  IF duplicated THEN Answer(message, "UnexpectedlyRepeated")
  ELSE With(message, tag)

(* The guard of Oneof::oneof_decode_field, which reads no value once one   *)
(* of the oneof's variants is set.                                         *)
DecodeOneof(message, tags, tag) ==
  CASE message.set \cap tags = {} -> With(message, tag)
    [] message.set \cap tags = {tag} -> Answer(message, "UnexpectedlyRepeated")
    [] OTHER -> Answer(message, "ConflictingFields")

Owners(tag) == {i \in 1 .. Len(parsed) : tag \in parsed[i].tags}

DecodeOwned(message, tag, duplicated) ==
  LET field == parsed[CHOOSE i \in Owners(tag) : TRUE] IN
    IF field.kind = "Value" THEN DecodeValue(message, tag, duplicated)
    ELSE DecodeOneof(message, field.tags, tag)

(* raw_decode_field: an arm for the tags of each field, and one to skip.   *)
RawDecodeField(message, tag, duplicated) ==
  IF Owners(tag) = {} THEN Answer(message, "ok")
  ELSE DecodeOwned(message, tag, duplicated)

RawDecodeFieldDistinguished(message, tag, duplicated) ==
  IF Owners(tag) = {} THEN Answer(message, "HasExtensions")
  ELSE DecodeOwned(message, tag, duplicated)

(* The same for a message that is a oneof.                                 *)
FieldTags == VariantTags(declared.variants)

OneofDecodeField(message, tag) ==
  IF tag \in FieldTags THEN DecodeOneof(message, FieldTags, tag)
  ELSE Answer(message, "ok")

OneofDecodeFieldDistinguished(message, tag) ==
  IF tag \in FieldTags THEN DecodeOneof(message, FieldTags, tag)
  ELSE Answer(message, "HasExtensions")

DecodeField(message, tag, duplicated, distinguished) ==
  IF declared.kind = "oneof"
  THEN IF distinguished THEN OneofDecodeFieldDistinguished(message, tag)
       ELSE OneofDecodeField(message, tag)
  ELSE IF distinguished
       THEN RawDecodeFieldDistinguished(message, tag, duplicated)
       ELSE RawDecodeField(message, tag, duplicated)

(* The fields of an encoding are decoded until one is an error; the        *)
(* canonicity is the least of all.                                         *)
Errors == {"UnexpectedlyRepeated", "ConflictingFields"}
Merge(message, tags, distinguished) ==
  LET Step(state, tag) ==
        IF state.outcome \in Errors THEN state
        ELSE LET answer == DecodeField(state.message, tag, state.last = tag,
                                       distinguished)
             IN [message |-> answer.message, last |-> tag,
                 outcome |-> IF answer.outcome = "ok" THEN state.outcome
                             ELSE answer.outcome]
  IN FoldLeft(Step, [message |-> message, last |-> -1, outcome |-> "ok"], tags)

-----------------------------------------------------------------------------
(* What is encoded: the fields of the message, or the variant that is set. *)

IsMessage ==
  \/ phase = "done"
  \/ /\ phase = "derived" /\ declared.kind = "oneof"
     /\ ~ DeriveMessageRefused(declared.attrs, declared.variants)

OneofEncoded(set) == SetToSeq(set)

Values ==
  IF declared.kind = "oneof"
  THEN {{}} \cup {{t} : t \in FieldTags} ELSE Instances
EncodedOf(set) ==
  IF declared.kind = "oneof" THEN OneofEncoded(set) ELSE Encoded(set)

-----------------------------------------------------------------------------
(* Enumerations.                                                           *)

ToNumber(variants, i) == NumberOf(variants[i])

WithNumber(variants, n) ==
  {i \in 1 .. Len(variants) : NumberOf(variants[i]) = n}

(* decode_value: the variant, or none where the value is out of domain.    *)
DecodeNumber(variants, n) ==
  IF n \in Tag THEN WithNumber(variants, n) ELSE {}

-----------------------------------------------------------------------------
(* Properties.                                                             *)

InUse(set) ==
  [set |-> set, ignored |-> [i \in 1 .. Len(ignored) |-> "in use"]]

(* Fields that come in an order the reader of keys can give, two of them.  *)
Pairs == {p \in Tag \X Tag : p[1] <= p[2]}

(* The tags of which a message may have at most one.                       *)
Exclusive ==
  IF declared.kind = "oneof" THEN {FieldTags}
  ELSE {parsed[i].tags : i \in 1 .. Len(parsed)}

(* Decoding what a message encodes into an empty one gives the message,    *)
(* its ignored fields as they are initialised; into a cleared one, as they *)
(* were.  A message is empty exactly if nothing is encoded, and needs its  *)
(* type's Default exactly if an empty one takes a field from it.           *)
DecodesEncoding ==
  IsMessage =>
    /\ \A set \in Values, distinguished \in BOOLEAN :
         LET fresh == Merge(Empty, EncodedOf(set), distinguished)
             reused == Merge(Clear(InUse(set)), EncodedOf(set), distinguished)
         IN /\ fresh.outcome = "ok" /\ reused.outcome = "ok"
            /\ fresh.message = [Empty EXCEPT !.set = set]
            /\ reused.message = InUse(set)
            /\ IsEmpty(InUse(set)) <=> EncodedOf(set) = <<>>
    /\ RequiresDefault <=>
         \E i \in 1 .. Len(ignored) :
           Empty.ignored[i] = "Default of the struct"

(* Two fields in a row are refused exactly if they are the same one or two *)
(* variants of one oneof, wherever its tags lie; what is not refused is    *)
(* kept, and only a distinguished message tells that a tag is not known.   *)
RefusesRepeats ==
  IsMessage =>
    \A p \in Pairs, distinguished \in BOOLEAN :
      LET merged == Merge(Empty, p, distinguished)
          known == {p[1], p[2]} \cap UNION Exclusive
      IN /\ merged.outcome \in Errors <=>
              \E tags \in Exclusive : {p[1], p[2]} \subseteq tags
         /\ merged.outcome \notin Errors =>
              /\ merged.message.set = known
              /\ merged.outcome = "HasExtensions" <=>
                   distinguished /\ {p[1], p[2]} # known

(* An enumeration decodes every number of its variants to that variant and *)
(* refuses every other one up to the largest varint; its empty variant is  *)
(* the one with the number 0.                                              *)
EnumerationsExact ==
  phase = "derived" /\ declared.kind = "enumeration" =>
    LET variants == declared.variants IN
      /\ \A n \in 0 .. 2 * MaxTag + 1 : \A i \in 1 .. Len(variants) :
           i \in DecodeNumber(variants, n) <=> ToNumber(variants, i) = n
      /\ ZeroVariants(variants) # {} =>
           WithNumber(variants, 0) = {ForOverwrite(variants)}

(* The generated decoders do all of that, whatever they are derived for.   *)
DerivedDecodes == DecodesEncoding /\ RefusesRepeats /\ EnumerationsExact

-----------------------------------------------------------------------------
(* What may be declared, told without the order the macro looks in.        *)

Names(attrs) == {attrs[i].name : i \in 1 .. Len(attrs)}

Covered(item) ==
  {t \in Tag : RangeOf(item)[1] <= t /\ t <= RangeOf(item)[2]}

(* A list of tags names each tag once, in ranges that are not too long.    *)
LegalList(arg, limit) ==
  /\ arg \notin {<<>>, NoItems}
  /\ \A i \in 1 .. Len(arg) :
       /\ arg[i].form # "text" /\ {arg[i].low, arg[i].high} \subseteq Tag
       /\ Cardinality(Covered(arg[i])) \in 1 .. limit - 1
  /\ \A i, j \in 1 .. Len(arg) :
       i # j => Covered(arg[i]) \cap Covered(arg[j]) = {}

(* The arguments each attribute takes.                                     *)
LegalArgument(attr) ==
  CASE attr.name = "tag" ->
         \E t \in Tag : attr.arg = <<Number(t)>>
    [] attr.name = "oneof" -> LegalList(attr.arg, RangeLimit)
    [] attr.name = "reserved_tags" ->
         attr.arg = NoItems \/ LegalList(attr.arg, NoLimit)
    [] attr.name \in {"encoding", "enumeration", "default"} ->
         attr.arg \notin {<<>>, NoItems}
    [] attr.name = "ignore" -> attr.arg # NoItems
    [] OTHER -> attr.arg = <<>>

Legal(groups, allowed) ==
  LET attrs == BilrostAttrs(groups) IN
    /\ ~ AttrsRefused(groups)
    /\ Cardinality(Names(attrs)) = Len(attrs)
    /\ Names(attrs) \in allowed
    /\ \A i \in 1 .. Len(attrs) : LegalArgument(attrs[i])

ValueNames == {"tag", "enumeration", "encoding", "recurses"}
FieldNames == {{"ignore"}, {"oneof"}} \cup SUBSET ValueNames
StructNames ==
  {names \in SUBSET {"reserved_tags", "distinguished", "borrowed_only",
                     "default_per_field", "default"} :
     ~ {"default_per_field", "default"} \subseteq names}

Has(i, name) == name \in Names(BilrostAttrs(declared.fields[i]))
Counts(i) == ~ Has(i, "ignore")
Tagged(i) == Has(i, "tag") \/ Has(i, "oneof")
OwnTags(i) == FieldOf(declared.fields[i], 0).tags

(* A value without a tag is numbered on from the last field with one.      *)
NumberedTags(i) ==
  LET tagged == {j \in 1 .. i - 1 : Tagged(j)}
      last == CHOOSE j \in tagged : \A k \in tagged : k <= j
      low == IF tagged = {} THEN 0 ELSE last
      first == IF tagged # {} THEN LastTag([tags |-> OwnTags(last)]) + 1
               ELSE IF declared.tuple THEN 0 ELSE 1
  IN {first + Cardinality({j \in low + 1 .. i - 1 : Counts(j)})}

TagsOfField(i) ==
  IF ~ Counts(i) THEN {} ELSE IF Tagged(i) THEN OwnTags(i) ELSE NumberedTags(i)

LegalFields(attrs) ==
  LET all == 1 .. Len(declared.fields) IN
    /\ \A i \in all : Legal(declared.fields[i], FieldNames)
    /\ \A i \in all :
         /\ TagsOfField(i) \subseteq Tag \ ReservedTags(attrs)
         /\ \A j \in all \ {i} : TagsOfField(i) \cap TagsOfField(j) = {}
    /\ "distinguished" \in Names(attrs) => \A i \in all : Counts(i)

VariantNames ==
  {{"tag", "message"}, {"tag", "message", "reserved_tags"}}
LegalStruct ==
  IF declared.kind = "struct"
  THEN Legal(declared.attrs, StructNames) /\ LegalFields(attributes)
  ELSE /\ Legal(declared.attrs, VariantNames) /\ LegalFields(attributes)
       /\ \A i \in 1 .. Len(declared.fields) : ~ Has(i, "enumeration")

LegalVariant(variant) ==
  LET attrs == BilrostAttrs(variant.attrs) IN
    \/ variant.fields = <<>> /\ Legal(variant.attrs, {{}, {"empty"}})
    \/ /\ Legal(variant.attrs, VariantNames)
       /\ ~ \E i \in 1 .. Len(variant.fields) :
             HasEnumerationType(variant.fields[i])
    \/ /\ Len(variant.fields) = 1
       /\ Legal(variant.attrs,
                {{"tag"} \cup s : s \in SUBSET {"encoding", "recurses"}})

LegalOneof ==
  LET variants == declared.variants
      numbered == {i \in 1 .. Len(variants) :
                     \E j \in 1 .. Len(BilrostAttrs(variants[i].attrs)) :
                       BilrostAttrs(variants[i].attrs)[j].name = "tag"}
  IN /\ Legal(declared.attrs,
             SUBSET {"reserved_tags", "distinguished", "borrowed_only"})
     /\ \A i \in 1 .. Len(variants) : LegalVariant(variants[i])
     /\ Cardinality(numbered) >= Len(variants) - 1
     /\ Cardinality({VariantTag(variants[i]) : i \in numbered})
          = Cardinality(numbered)
     /\ \A i \in numbered :
          /\ VariantTag(variants[i]) \notin ReservedTags(attributes)
          /\ Given(attributes, "distinguished") =>
               ~ HasIgnoredFields(variants[i])

(* A struct, a message variant or a oneof is accepted exactly if every     *)
(* attribute is one that is known there, given once and well formed, and   *)
(* the tags, given, listed or numbered, fit a u32, are free and differ.    *)
AcceptsExactly ==
  /\ declared.kind \in {"struct", "variant"} =>
       /\ phase \in {"scan", "done"} => LegalStruct
       /\ phase = "refused" => ~ LegalStruct
  /\ declared.kind = "oneof" =>
       /\ phase = "derived" => LegalOneof
       /\ phase = "refused" => ~ LegalOneof
=============================================================================
