----------------------------- MODULE MCDecoder -----------------------------
(***************************************************************************)
(* Bytes of four bits and varints of up to two: a key of one byte has a    *)
(* delta of 0 or 1, and 15 15 is more than a varint holds.  Five message   *)
(* types have a field of every kind, nested, optional and repeated         *)
(* messages, and one that contains itself; a grove has no field 0, and     *)
(* most of a choice is one oneof.                                          *)
(***************************************************************************)
EXTENDS Opaque, Grammar

MCFixedWidth == ThirtyTwoBit :> 2 @@ SixtyFourBit :> 3

MCMessages ==
  [leaf  |-> 0 :> [card |-> "plain", item |-> "varint"]
          @@ 1 :> [card |-> "plain", item |-> "fixed"],
   tree  |-> 0 :> [card |-> "unpacked", item |-> "varint"]
          @@ 1 :> [card |-> "plain", item |-> "tree"],
   grove |-> 1 :> [card |-> "unpacked", item |-> "leaf"]
          @@ 2 :> [card |-> "packed", item |-> "fixed"],
   mixed |-> 0 :> [card |-> "packed", item |-> "varint"]
          @@ 1 :> [card |-> "optional", item |-> "leaf"]
          @@ 3 :> [card |-> "optional", item |-> "fixed"],
   choice |-> 0 :> [card |-> "variant", item |-> "varint"]
           @@ 1 :> [card |-> "struct", item |-> "tree"]
           @@ 2 :> [card |-> "variant", item |-> "leaf"]
           @@ 3 :> [card |-> "plain", item |-> "varint"]]

MCOneofs ==
  [type \in DOMAIN MCMessages |-> IF type = "choice" THEN {{0, 1, 2}} ELSE {}]

-----------------------------------------------------------------------------
(* Some values of each type, by their fields' values, as deep as the       *)
(* recursion limit lets be decoded.                                        *)

Joined(P, Q) == {p @@ q : p \in P, q \in Q}

Leaves == Joined({<<>>} \cup {0 :> <<n>> : n \in {1, 7, 8, 72}},
                 {<<>>} \cup {1 :> f : f \in {<<0, 9>>, <<15, 1>>}})
Buds == Joined({<<>>, 0 :> <<8>>}, {<<>>, 1 :> <<0, 9>>})
Numbers == {<<<<0>>>>, <<<<9>>, <<0>>>>, <<<<8>>, <<1>>, <<71>>>>}
Saplings == {<<>>} \cup {0 :> ns : ns \in Numbers}
Trees == Saplings \cup Joined(Saplings, {1 :> t : t \in Saplings \ {<<>>}})
Groves == Joined({<<>>} \cup {1 :> ls : ls \in UNION {[1 .. n -> Buds] : n \in {1, 2}}},
                 {<<>>, 2 :> <<<<0, 0>>>>, 2 :> <<<<1, 0>>, <<0, 0>>>>})
Mixes == Joined({<<>>} \cup {0 :> ns : ns \in Numbers},
                Joined({<<>>} \cup {1 :> l : l \in Buds},
                       {<<>>, 3 :> <<0, 0>>, 3 :> <<0, 9>>}))
Picks == Joined({<<>>, 0 :> <<0>>, 0 :> <<9>>} \cup {1 :> t : t \in Saplings}
                     \cup {2 :> l : l \in Buds},
                {<<>>, 3 :> <<7>>})

Values == [leaf |-> Leaves, tree |-> Trees, grove |-> Groves, mixed |-> Mixes,
           choice |-> Picks]

(* What those values encode as.                                            *)
Encoded == [type \in DOMAIN Values |->
              [v \in Values[type] |-> Encode(type, v)]]

UpTo(n, bytes) == UNION {[1 .. k -> bytes] : k \in 0 .. n}

MCInputs == UpTo(4, {0, 1, 2, 4, 5, 6, 15}) \cup
  UNION {{Encoded[type][v] : v \in Values[type]} : type \in DOMAIN Values}

-----------------------------------------------------------------------------
(* The value decoded, and what it was decoded as.                          *)
Type == stack[1].type
Result == stack[1].value
Restricted == stack[1].min # Relaxed

(* Bytes that are accepted are a message by the grammar, whose values end  *)
(* where their regions do: caps that only the loops look at are enough.    *)
(* Bytes refused for how they are laid out are not one: the cap of no      *)
(* region refuses what fits into it.                                       *)
AcceptsMessages ==
  /\ outcome = "ok" => IsMessage(Type, input, 0)
  /\ outcome \in {"Truncated", "InvalidVarint", "TagOverflowed"} =>
       ~IsMessage(Type, input, 0)

(* No field of one value and no oneof is set twice by bytes that are       *)
(* accepted, not by another variant either: a value decoded is never       *)
(* replaced by a later one.                                                *)
SetsOnce == outcome = "ok" => IsSetOnce(Type, input)

(* Distinguished decoding calls canonical exactly the bytes that the value *)
(* it returns encodes as, and what a value encodes as is decoded to that   *)
(* value, whatever minimum of canonicity is asked for.                     *)
CanonicalIsEncoding ==
  /\ outcome = "ok" /\ Restricted =>
       (stack[1].canon = Canonical <=> Encode(Type, Result) = input)
  /\ \A v \in Values[Type] :
       outcome # "none" /\ Encoded[Type][v] = input =>
         outcome = "ok" /\ Result = v

(* A decoded value is written forwards and from the back as the same bytes,*)
(* and is as long as it is measured to be.                                 *)
EncodersAgree ==
  outcome = "ok" =>
    /\ Prepend(Type, Result) = Encode(Type, Result)
    /\ EncodedLen(Type, Result) = Len(Encode(Type, Result))
=============================================================================
