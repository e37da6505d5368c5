--------------------------- MODULE MCCollections ----------------------------
(***************************************************************************)
(* All regions and runs of up to three fields, decoded as every type of    *)
(* collection that they can be read as.                                    *)
(***************************************************************************)
EXTENDS Collections

MCTypes ==
  {t \in [shape : {"vec", "set", "map", "array", "option"},
          repr : {"packed", "unpacked"}, item : WireType, size : 0 .. 2] :
     /\ ~IsArray(t) => t.size = 0
     /\ t.shape = "map" => t.repr = "packed" /\ t.item # "delimited"
     /\ t.shape = "option" => t.repr = "unpacked"}

(* Items that are messages can have a canonicity of their own.             *)
ItemsOf(t) ==
  [key : 0 .. IF t.item = "delimited" THEN 1 ELSE 2,
   val : 0 .. IF t.shape = "map" THEN 1 ELSE 0,
   canon : IF t.item = "delimited" THEN NotCanonical .. Canonical ELSE {Canonical}]

UpTo(set, n) == UNION {[1 .. k -> set] : k \in 0 .. n}

Whole(wire, items) == [wire |-> wire, items |-> items, ragged |-> FALSE]
Regions(t) ==
  [wire : {"delimited"}, items : UpTo(ItemsOf(t), 3), ragged : BOOLEAN]
Singles(t) == {Whole(t.item, <<i>>) : i \in ItemsOf(t)}
(* One field of every wire type.                                           *)
Samples(t) == {Whole(w, <<CHOOSE i \in ItemsOf(t) : TRUE>>) : w \in WireType}

FieldsOf(t) ==
  {<<f>> : f \in Samples(t)}
  \cup {<<f>> : f \in IF IsRegion(t, "delimited") THEN Regions(t) ELSE {}}
  \cup {<<f, g>> : f, g \in Samples(t)}
  \cup (UpTo(Singles(t), 3) \ {<<>>})
  \cup {<<f, g, h>> : f \in Singles(t), g \in Singles(t), h \in Samples(t)}

MCInputs == UNION {[type : {t}, fields : FieldsOf(t)] : t \in MCTypes}
=============================================================================
