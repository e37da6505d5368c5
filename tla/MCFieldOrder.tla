---------------------------- MODULE MCFieldOrder ----------------------------
(***************************************************************************)
(* Every way to divide seven tags between fields; short lists of fields    *)
(* with missing, repeated, reserved and largest tags; attributes that are  *)
(* repeated, mixed and ill-formed; oneofs and enumerations of two and      *)
(* three variants.                                                         *)
(***************************************************************************)
EXTENDS Derived

MCMaxTag == 7

Struct(attrs, tuple, fs) ==
  [kind |-> "struct", attrs |-> attrs, tuple |-> tuple, fields |-> fs]

Word(name) == Attr(name, <<>>)
With1(name, item) == Attr(name, <<item>>)
TagAttr(t) == With1("tag", Number(t))
Dash(a, b) == Item("dash", a, b)

(* The tags of a set, each by itself.                                      *)
Listed(ts) ==
  LET rank(t) == Cardinality({u \in ts : u <= t})
  IN [i \in 1 .. Cardinality(ts) |->
        Number(CHOOSE t \in ts : rank(t) = i)]

(* The divisions of the tags below n into fields, in order of first tags.  *)
Divisions ==
  LET div[n \in 0 .. MCMaxTag] ==
        IF n = 0 THEN {<<>>}
        ELSE UNION {
          {[d EXCEPT ![i] = @ \cup {n - 1}] : i \in 1 .. Len(d)} \cup
          {Append(d, {n - 1})} : d \in div[n - 1]}
  IN div[MCMaxTag]

Plain(tags) ==
  IF Cardinality(tags) = 1 THEN <<<<TagAttr(CHOOSE t \in tags : TRUE)>>>>
  ELSE <<<<Attr("oneof", Listed(tags))>>>>

Divided ==
  {Struct(<<>>, FALSE, [i \in 1 .. Len(d) |-> Plain(d[i])]) : d \in Divisions}

SomeTags == {1, 2, MCMaxTag}
Items ==
  {<<>>, <<<<Word("ignore")>>>>}
  \cup {<<<<TagAttr(t)>>>> : t \in SomeTags}
  \cup {<<<<Attr("oneof", Listed(ts))>>>> : ts \in (SUBSET SomeTags) \ {{}}}

Reserving == {<<>>, <<<<With1("reserved_tags", Number(2))>>>>}
Short ==
  {Struct(r, tuple, fs) : r \in Reserving, tuple \in BOOLEAN,
     fs \in UNION {[1 .. n -> Items] : n \in 0 .. 3}}

(* Attributes, well formed and not, alone, in pairs and apart.             *)
SomeAttrs ==
  {Word("ignore"), With1("ignore", Text), TagAttr(3), TagAttr(MCMaxTag + 1),
   Word("tag"), With1("tag", Text), With1("literal", Number(3)),
   With1("encoding", Text), Word("encoding"), Word("recurses"),
   With1("recurses", Text), With1("enumeration", Text), Word("other"),
   With1("oneof", Dash(2, 4)), With1("oneof", Dash(4, 2)),
   With1("oneof", Dash(0, 5)), With1("oneof", Item("from", 6, 0)),
   With1("oneof", Text), Word("oneof"),
   Attr("oneof", <<Dash(2, 4), Number(4)>>),
   Attr("oneof", <<Number(5), Item("to", 0, 1)>>),
   Attr("oneof", <<Dash(3, 5), Dash(2, 4)>>),
   Attr("oneof", <<Number(MCMaxTag + 1)>>),
   Attr("oneof", NoItems), Attr("ignore", NoItems), Attr("tag", NoItems),
   Attr("encoding", NoItems)}
Grouped(a, b) == {<<<<a>>>>, <<<<a, b>>>>, <<<<a>>, <<b>>>>}
FieldAttrs == UNION {Grouped(a, b) : a, b \in SomeAttrs}

StructAttrs ==
  {Word("distinguished"), Word("borrowed_only"), Word("default_per_field"),
   With1("distinguished", Text), With1("default", Text), Word("default"),
   With1("reserved_tags", Dash(1, 2)),
   Attr("reserved_tags", <<Item("to", 0, 3), Number(3)>>),
   With1("reserved_tags", Item("from", 4, 0)), Word("other"),
   Attr("reserved_tags", NoItems), Word("reserved_tags"),
   With1("literal", Number(1))}
OnStruct == {<<>>} \cup UNION {Grouped(a, b) : a, b \in StructAttrs}

FewFields ==
  {<<>>, <<<<>>>>, <<<<<<Word("ignore")>>>>>>,
   <<<<<<TagAttr(4)>>>>, <<<<With1("ignore", Text)>>>>, <<>>>>,
   <<<<<<With1("enumeration", Text)>>>>>>}

Attributed ==
  {Struct(<<>>, FALSE, <<f>>) : f \in FieldAttrs} \cup
  {Struct(a, FALSE, fs) : a \in OnStruct, fs \in FewFields}

(* Variants.                                                               *)
VariantAttrs ==
  {Word("message"), Word("empty"), TagAttr(3), With1("literal", Number(3)),
   With1("encoding", Text), With1("reserved_tags", Number(1)), Word("other"),
   With1("message", Text)}
OnVariant ==
  {<<>>} \cup UNION {Grouped(a, b) : a, b \in VariantAttrs} \cup
  {<<<<TagAttr(3), Word("message"), a>>>> : a \in VariantAttrs}

MessageVariants ==
  {[kind |-> "variant", attrs |-> <<<<TagAttr(3), Word("message")>> \o a>>,
    tuple |-> tuple, fields |-> fs] :
     a \in {<<>>, <<With1("reserved_tags", Number(1))>>},
     tuple \in BOOLEAN, fs \in FewFields}

Variant(attrs, fs) == [attrs |-> attrs, fields |-> fs]
SomeVariants ==
  {Variant(<<>>, <<>>), Variant(<<<<Word("empty")>>>>, <<>>),
   Variant(<<<<TagAttr(3)>>>>, <<<<>>>>),
   Variant(<<<<TagAttr(0)>>>>, <<<<>>>>),
   Variant(<<<<TagAttr(5), Word("message")>>>>, <<<<<<Word("ignore")>>>>>>)}
OnOneof ==
  {<<>>, <<<<Word("distinguished")>>>>, <<<<Word("borrowed_only")>>>>,
   <<<<Attr("reserved_tags", NoItems)>>>>,
   <<<<With1("reserved_tags", Number(3))>>>>, <<<<Word("other")>>>>,
   <<<<Word("distinguished")>>, <<Word("distinguished")>>>>}
Enum(attrs, vs) == [kind |-> "oneof", attrs |-> attrs, variants |-> vs]
Oneofs ==
  {Enum(<<>>, <<Variant(a, fs)>>) :
     a \in OnVariant, fs \in {<<>>, <<<<>>>>, <<<<>>, <<>>>>,
                             <<<<<<With1("enumeration", Text)>>>>>>}} \cup
  {Enum(a, vs) : a \in OnOneof,
     vs \in UNION {[1 .. n -> SomeVariants] : n \in 0 .. 3}}

(* Enumerations; ZERO is a constant that is 0, and a range is no pattern   *)
(* of a single variant.                                                    *)
Expr(value, spelled, pattern) ==
  [value |-> value, spelled |-> spelled, pattern |-> pattern]
Exprs ==
  {Expr(0, "0", TRUE), Expr(0, "ZERO", TRUE), Expr(1, "1", TRUE),
   Expr(MCMaxTag, "MAX", TRUE), Expr(3, "1 + 2", FALSE)}
OfEnumeration ==
  {[exprs |-> es, discriminant |-> d, fields |-> fs] :
     es \in {<<>>} \cup {<<e>> : e \in Exprs} \cup
           {<<Expr(1, "1", TRUE), Expr(2, "2", TRUE)>>},
     d \in {<<>>, <<Expr(0, "0", TRUE)>>, <<Expr(3, "1 + 2", FALSE)>>},
     fs \in {<<>>, <<<<>>>>}}
Enumerations ==
  {[kind |-> "enumeration", variants |-> vs] :
     vs \in UNION {[1 .. n -> OfEnumeration] : n \in 0 .. 2}}

MCDeclarations ==
  Divided \cup Short \cup Attributed \cup MessageVariants \cup Oneofs
  \cup Enumerations
=============================================================================
