----------------------------- MODULE Attributes -----------------------------
(***************************************************************************)
(* The attributes of the derive macros (src/bilrost-derive/src/attrs.rs    *)
(* and field/*.rs): what a bilrost(..) attribute is read as, which lists   *)
(* of tags are valid, and what a field, a variant of a oneof, a oneof and  *)
(* an enumeration are understood as.  Every error the macros report has    *)
(* the same outcome, a declaration that is refused, so what is refused and *)
(* what is understood are separate operators.                              *)
(***************************************************************************)
EXTENDS Integers, Sequences, FiniteSets, SequencesExt

CONSTANTS
  MaxTag,         (* the largest tag, u32::MAX                             *)
  RangeLimit      (* a oneof's ranges of tags are shorter than this, 100   *)

Tag == 0 .. MaxTag
NoLimit == MaxTag + 2

(* An item of an attribute's arguments: a number, a range, an expression.  *)
Item(form, low, high) == [form |-> form, low |-> low, high |-> high]
Number(n) == Item("single", n, n)
Text == Item("text", 0, 0)

(* What name() gives: a list without an item.                              *)
NoItems == <<Item("none", 1, 0)>>

(* An attribute; a word has no arguments.  A literal is what stands alone  *)
(* in bilrost(1).                                                          *)
Attr(name, arg) == [name |-> name, arg |-> arg]

Argument ==
  [form : {"single", "to", "from", "dash", "text", "none"}, low : Nat, high : Nat]
Attribute ==
  [name : {"ignore", "oneof", "tag", "enumeration", "encoding", "recurses",
           "reserved_tags", "distinguished", "borrowed_only",
           "default_per_field", "default", "message", "empty", "literal",
           "other"},
   arg : Seq(Argument)]

-----------------------------------------------------------------------------
(* Reading attributes.                                                     *)

IsShorthand(group) == Len(group) = 1 /\ group[1].name = "literal"

(* bilrost_attrs: every bilrost(..) is a list of attributes or one literal *)
(* that stands for a tag; a literal among others does not parse.           *)
AttrsRefused(groups) ==
  \E i \in 1 .. Len(groups) :
    /\ ~ IsShorthand(groups[i])
    /\ \E j \in 1 .. Len(groups[i]) : groups[i][j].name = "literal"

BilrostAttrs(groups) ==
  FlattenSeq([i \in 1 .. Len(groups) |->
    IF IsShorthand(groups[i]) THEN <<Attr("tag", groups[i][1].arg)>>
    ELSE groups[i]])

Named(attrs, name) == {i \in 1 .. Len(attrs) : attrs[i].name = name}
Given(attrs, name) == Named(attrs, name) # {}
The(attrs, name) == attrs[CHOOSE i \in Named(attrs, name) : TRUE].arg

(* set_option, set_bool: an attribute is given once at most.               *)
Repeated(attrs, name) == Cardinality(Named(attrs, name)) > 1

(* tag_attr: one number that fits a u32.                                   *)
TagRefused(arg) ==
  \/ Len(arg) # 1
  \/ arg[1].form # "single" \/ arg[1].low \notin Tag

(* word_attr, named_attr.                                                  *)
WordRefused(arg) == arg # <<>>
NamedRefused(arg) == arg \in {<<>>, NoItems}

-----------------------------------------------------------------------------
(* Lists of tags.                                                          *)

RangeOf(item) ==
  CASE item.form = "to" -> <<0, item.high>>
    [] item.form = "from" -> <<item.low, MaxTag>>
    [] OTHER -> <<item.low, item.high>>

RangesOf(arg) == [i \in 1 .. Len(arg) |-> RangeOf(arg[i])]

Precedes(r, s) == r[1] < s[1] \/ (r[1] = s[1] /\ r[2] < s[2])

(* Mutant: ranges that share one tag are taken for distinct.               *)
InvalidTouching(ranges, limit) ==
  LET sorted == SortSeq(ranges, Precedes) IN
    \/ \E i \in 1 .. Len(ranges) :
         ranges[i][1] > ranges[i][2] \/ ranges[i][2] - ranges[i][1] + 1 >= limit
    \/ \E i \in 1 .. Len(ranges) - 1 : sorted[i][2] > sorted[i + 1][1]

(* TagList::validate: no range is empty or too long; sorted, each one ends *)
(* below the next.                                                         *)
Invalid(ranges, limit) ==
  LET sorted == SortSeq(ranges, Precedes) IN
    \/ \E i \in 1 .. Len(ranges) :
         ranges[i][1] > ranges[i][2] \/ ranges[i][2] - ranges[i][1] + 1 >= limit
    \/ \E i \in 1 .. Len(ranges) - 1 : sorted[i][2] >= sorted[i + 1][1]

(* tag_list_attr; a word, text or a number that is no u32 does not parse;  *)
(* a list may be empty.                                                    *)
TagListRefused(arg, limit) ==
  /\ arg # NoItems
  /\ \/ arg = <<>>
     \/ \E i \in 1 .. Len(arg) :
          arg[i].form = "text" \/ ~ {arg[i].low, arg[i].high} \subseteq Tag
     \/ Invalid(RangesOf(arg), limit)

(* TagList::iter_tags.                                                     *)
TagsOf(arg) == UNION {RangeOf(arg[i])[1] .. RangeOf(arg[i])[2] :
                        i \in 1 .. Len(arg)}

ReservedRefused(attrs) ==
  \/ Repeated(attrs, "reserved_tags")
  \/ \E i \in Named(attrs, "reserved_tags") :
       TagListRefused(attrs[i].arg, NoLimit)

ReservedTags(attrs) ==
  IF Given(attrs, "reserved_tags") THEN TagsOf(The(attrs, "reserved_tags"))
  ELSE {}

-----------------------------------------------------------------------------
(* Fields of messages.  A field is understood as                           *)
(*   [kind |-> "Value", tags |-> {tag}],  [kind |-> "Oneof", tags |-> tags] *)
(* or an ignored one, which has no tags and an initial value.              *)

Unknown(attrs, known) == \E i \in 1 .. Len(attrs) : attrs[i].name \notin known

(* IgnoredField::new: the attribute stands alone; a word or an expression. *)
IgnoredRefused(attrs) == Len(attrs) > 1 \/ The(attrs, "ignore") = NoItems

(* OneofInclusion::new; last_tag panics when the list is empty.            *)
OneofRefused(attrs) ==
  \/ Len(attrs) > 1
  \/ The(attrs, "oneof") = NoItems
  \/ TagListRefused(The(attrs, "oneof"), RangeLimit)

(* ValueField::new.                                                        *)
ValueFieldRefused(attrs, known) ==
  \/ Unknown(attrs, known \cup {"encoding", "recurses"})
  \/ Repeated(attrs, "encoding") \/ Repeated(attrs, "recurses")
  \/ \E i \in Named(attrs, "encoding") : NamedRefused(attrs[i].arg)
  \/ \E i \in Named(attrs, "recurses") : WordRefused(attrs[i].arg)

TagAttrRefused(attrs) ==
  \/ Repeated(attrs, "tag")
  \/ \E i \in Named(attrs, "tag") : TagRefused(attrs[i].arg)

(* MessageField::new: without a tag it takes the inferred one, if any.     *)
ValueRefused(attrs, inferred) ==
  \/ TagAttrRefused(attrs)
  \/ Repeated(attrs, "enumeration")
  \/ \E i \in Named(attrs, "enumeration") : NamedRefused(attrs[i].arg)
  \/ ValueFieldRefused(attrs, {"tag", "enumeration"})
  \/ ~ Given(attrs, "tag") /\ inferred \notin Tag

(* Field::new.                                                             *)
FieldRefused(groups, inferred) ==
  LET attrs == BilrostAttrs(groups) IN
    \/ AttrsRefused(groups)
    \/ IF Given(attrs, "ignore") THEN IgnoredRefused(attrs)
       ELSE IF Given(attrs, "oneof") THEN OneofRefused(attrs)
       ELSE ValueRefused(attrs, inferred)

FieldOf(groups, inferred) ==
  LET attrs == BilrostAttrs(groups) IN
    CASE Given(attrs, "ignore") ->
           [kind |-> "Ignored", tags |-> {},
            init |-> IF The(attrs, "ignore") = <<>> THEN "mode" ELSE "expr"]
      [] ~ Given(attrs, "ignore") /\ Given(attrs, "oneof") ->
           [kind |-> "Oneof", tags |-> TagsOf(The(attrs, "oneof")),
            init |-> "empty"]
      [] OTHER ->
           [kind |-> "Value", init |-> "empty",
            tags |-> IF Given(attrs, "tag") THEN {The(attrs, "tag")[1].low}
                     ELSE {inferred}]

HasEnumerationType(groups) == Given(BilrostAttrs(groups), "enumeration")
IsIgnoredField(groups) == Given(BilrostAttrs(groups), "ignore")

-----------------------------------------------------------------------------
(* The attributes of a message, struct or variant.                         *)

Words(attrs, names) ==
  \E n \in names :
    Repeated(attrs, n) \/ \E i \in Named(attrs, n) : WordRefused(attrs[i].arg)

(* try_message.                                                            *)
StructRefused(attrs) ==
  \/ ReservedRefused(attrs)
  \/ Words(attrs, {"distinguished", "borrowed_only", "default_per_field"})
  \/ Repeated(attrs, "default")
  \/ \E i \in Named(attrs, "default") : NamedRefused(attrs[i].arg)
  \/ Given(attrs, "default_per_field") /\ Given(attrs, "default")
  \/ Unknown(attrs, {"reserved_tags", "distinguished", "borrowed_only",
                     "default_per_field", "default"})

-----------------------------------------------------------------------------
(* Oneofs: the variants of an enum, each with the attributes of its fields.*)

(* A variant that is, or may be, the empty one: no attributes but "empty". *)
LooksEmpty(attrs) == ~ \E i \in 1 .. Len(attrs) : attrs[i].name # "empty"

(* A value variant has one field, whose attributes are the variant's.      *)
ValueVariantRefused(attrs, fields) ==
  Len(fields) # 1 \/ ValueFieldRefused(attrs, {"tag"})

(* A message variant's fields are those of a message, without methods.     *)
MessageVariantRefused(attrs, fields) ==
  \/ ReservedRefused(attrs)
  \/ Unknown(attrs, {"tag", "message", "reserved_tags"})
  \/ \E i \in 1 .. Len(fields) : HasEnumerationType(fields[i])

(* OneofVariant::new.                                                      *)
VariantRefused(variant) ==
  LET attrs == BilrostAttrs(variant.attrs)  fields == variant.fields IN
    \/ AttrsRefused(variant.attrs)
    \/ TagAttrRefused(attrs) \/ Words(attrs, {"message", "empty"})
    \/ IF LooksEmpty(attrs) THEN fields # <<>>
       ELSE \/ Given(attrs, "empty")
            \/ ~ Given(attrs, "tag")
            \/ IF Given(attrs, "message")
               THEN MessageVariantRefused(attrs, fields)
               ELSE ValueVariantRefused(attrs, fields)

IsEmptyVariant(variant) == LooksEmpty(BilrostAttrs(variant.attrs))
VariantTag(variant) == The(BilrostAttrs(variant.attrs), "tag")[1].low
HasIgnoredFields(variant) ==
  /\ Given(BilrostAttrs(variant.attrs), "message")
  /\ \E i \in 1 .. Len(variant.fields) : IsIgnoredField(variant.fields[i])

EmptyVariants(variants) ==
  {i \in 1 .. Len(variants) : IsEmptyVariant(variants[i])}
VariantTags(variants) ==
  {VariantTag(variants[i]) :
     i \in (1 .. Len(variants)) \ EmptyVariants(variants)}

(* preprocess_oneof.                                                       *)
OneofDeclRefused(groups, variants) ==
  LET attrs == BilrostAttrs(groups) IN
    \/ AttrsRefused(groups)
    \/ ReservedRefused(attrs)
    \/ Words(attrs, {"distinguished", "borrowed_only"})
    \/ Unknown(attrs, {"reserved_tags", "distinguished", "borrowed_only"})
    \/ \E i \in 1 .. Len(variants) : VariantRefused(variants[i])
    \/ Cardinality(EmptyVariants(variants)) > 1
    \/ /\ Given(attrs, "distinguished")
       /\ \E i \in 1 .. Len(variants) : HasIgnoredFields(variants[i])
    \/ VariantTags(variants) \cap ReservedTags(attrs) # {}

(* try_oneof: sorted, no two tags that follow each other are equal.        *)
DuplicateVariants(variants) ==
  \E i, j \in (1 .. Len(variants)) \ EmptyVariants(variants) :
    i # j /\ VariantTag(variants[i]) = VariantTag(variants[j])

(* Oneof is derived, and Message in terms of it.                           *)
DeriveOneofRefused(groups, variants) ==
  OneofDeclRefused(groups, variants) \/ DuplicateVariants(variants)
DeriveMessageRefused(groups, variants) ==
  OneofDeclRefused(groups, variants) \/ EmptyVariants(variants) = {}

-----------------------------------------------------------------------------
(* Enumerations: each variant has the expressions of its bilrost           *)
(* attributes and the discriminant it may have in the enum; an expression  *)
(* has a value, is spelled "0" or otherwise, and may be a pattern or not.  *)

(* variant_attr: one attribute at most, which must be a pattern too.       *)
VariantAttrRefused(exprs) ==
  Len(exprs) > 1 \/ \E i \in 1 .. Len(exprs) : ~ exprs[i].pattern

(* The attribute comes before the discriminant.                            *)
Discriminants(variant) == variant.exprs \o variant.discriminant
NumberOf(variant) == Discriminants(variant)[1].value

(* try_enumeration; the compiler refuses a match with unreachable arms or  *)
(* with an arm that is no pattern.                                         *)
EnumerationRefused(variants) ==
  \/ variants = <<>>
  \/ \E i \in 1 .. Len(variants) :
       \/ variants[i].fields # <<>>
       \/ VariantAttrRefused(variants[i].exprs)
       \/ Discriminants(variants[i]) = <<>>
       \/ ~ Discriminants(variants[i])[1].pattern
  \/ \E i, j \in 1 .. Len(variants) :
       i # j /\ NumberOf(variants[i]) = NumberOf(variants[j])

(* The variant for which EmptyState is implemented, if any, is what an     *)
(* enumeration is before it is overwritten, otherwise the first one.       *)
ZeroVariants(variants) ==
  {i \in 1 .. Len(variants) : Discriminants(variants[i])[1].spelled = "0"}
ForOverwrite(variants) ==
  IF ZeroVariants(variants) = {} THEN 1
  ELSE CHOOSE i \in ZeroVariants(variants) :
         \A j \in ZeroVariants(variants) : i <= j
=============================================================================
