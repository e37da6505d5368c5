------------------------------ MODULE Grammar ------------------------------
(***************************************************************************)
(* What bytes are a message, by region: each length-delimited value is cut *)
(* out before it is looked at, so that nothing in it can be read past its  *)
(* end.  Decoding reads from one buffer with soft caps instead, and is to  *)
(* tell the same bytes apart.                                              *)
(***************************************************************************)
EXTENDS Decoder

From(bytes, n) == SubSeq(bytes, n + 1, Len(bytes))

(* The bytes of the value of that wire type that these bytes start with,   *)
(* one more than there are when it does not fit.                           *)
SizeOf(wire, bytes) ==
  LET v == DecodeVarint(bytes)
      size == CASE wire \in DOMAIN FixedWidth -> FixedWidth[wire]
                [] wire = LengthDelimited -> v.used + v.value
                [] OTHER -> v.used
      good == wire \in DOMAIN FixedWidth \/ v.error = "none"
  IN IF good /\ size <= Len(bytes) THEN size ELSE Len(bytes) + 1

Fits(wire, bytes) == SizeOf(wire, bytes) <= Len(bytes)
First(wire, bytes) == SubSeq(bytes, 1, SizeOf(wire, bytes))
Rest(wire, bytes) == From(bytes, SizeOf(wire, bytes))

(* What a length-delimited value delimits.                                 *)
Body(value) == From(value, DecodeVarint(value).used)

RECURSIVE IsMessage(_, _, _), IsPacked(_, _)

IsItem(item, value) ==
  item \in DOMAIN Messages => IsMessage(item, Body(value), 0)

IsPacked(item, bytes) ==
  LET wire == WireTypeOf(item)
  IN bytes # <<>> =>
       /\ Fits(wire, bytes)
       /\ IsItem(item, First(wire, bytes))
       /\ IsPacked(item, Rest(wire, bytes))

(* A known field's value is looked into as what its wire type announces.   *)
IsField(field, wire, value) ==
  IF wire = LengthDelimited /\ \/ field.card = "packed"
                               \/ /\ field.card = "unpacked"
                                  /\ WireTypeOf(field.item) # LengthDelimited
  THEN IsPacked(field.item, Body(value))
  ELSE wire = WireTypeOf(field.item) => IsItem(field.item, value)

(* The fields of a message, one by one, after that tag.                    *)
IsMessage(type, bytes, last) ==
  LET key == DecodeVarint(bytes)
      tag == last + key.value \div 4
      wire == key.value % 4
      rest == From(bytes, key.used)
  IN bytes # <<>> =>
       /\ key.error = "none"
       /\ tag < TagLimit
       /\ Fits(wire, rest)
       /\ tag \in DOMAIN Messages[type] =>
            IsField(Messages[type][tag], wire, First(wire, rest))
       /\ IsMessage(type, Rest(wire, rest), tag)

-----------------------------------------------------------------------------
(* The tags of the fields of a message.                                    *)
RECURSIVE TagsOf(_, _)
TagsOf(bytes, last) ==
  LET key == DecodeVarint(bytes)
      tag == last + key.value \div 4
  IN IF bytes = <<>> THEN <<>>
     ELSE <<tag>> \o TagsOf(Rest(key.value % 4, From(bytes, key.used)), tag)

(* Fields of which a message has at most one.                              *)
Exclusive(type) ==
  Oneofs[type] \cup
    {{tag} : tag \in {t \in DOMAIN Messages[type] :
                       Messages[type][t].card \in {"plain", "optional"}}}

IsSetOnce(type, bytes) ==
  LET tags == TagsOf(bytes, 0)
  IN \A group \in Exclusive(type) :
       Cardinality({i \in DOMAIN tags : tags[i] \in group}) <= 1
=============================================================================
