---------------------------- MODULE Collections -----------------------------
(***************************************************************************)
(* Decoding a field that is a collection: a Vec, a set, a map, an array    *)
(* or an Option of an array, in either representation (packed.rs,          *)
(* unpacked.rs, map.rs).  The key of the field has been read; what follows *)
(* is its value and the further fields of the same tag.  A step is a turn  *)
(* of a loop, with the insertion (type_support/core_and_alloc.rs) into the *)
(* collection.  Lengths, regions and keys are those of Decoder; here a     *)
(* value is an item and a region a sequence of items.                      *)
(***************************************************************************)
EXTENDS Canonicity, Sequences, FiniteSets, TLC

CONSTANTS
  Types,         (* the collection types of the fields decoded             *)
  Inputs,        (* the fields met, with the type they are decoded as      *)
  Restrictions   (* the minimum canonicities asked for, or Relaxed         *)

WireType == {"varint", "fixed", "delimited"}

(* `item` is the wire type of the items.  That of a map's is "fixed" if    *)
(* its keys and its values are.                                            *)
Type == [shape : {"vec", "set", "map", "array", "option"},
         repr : {"packed", "unpacked"}, item : WireType, size : Nat]

IsArray(type) == type.shape \in {"array", "option"}
Keyed(type) == type.shape \in {"set", "map"}

(* An item, with the canonicity it decodes with.  Only maps use `val`; the *)
(* item of 0 is the empty one.                                             *)
Items == [key : Nat, val : Nat, canon : NotCanonical .. Canonical]
Plain(item) == [key |-> item.key, val |-> item.val]
Empty == [key |-> 0, val |-> 0]

(* A field: one item, or the region of a packed one.  A ragged region goes *)
(* on after its last whole item, but not to the end of another.            *)
Fields == [wire : WireType, items : Seq(Items), ragged : BOOLEAN]

(* Whether a field of that wire type is read as a region.                  *)
IsRegion(type, wire) ==
  wire = "delimited" /\ (type.repr = "packed" \/ type.item # "delimited")

ASSUME CollectionsAssumption ==
  /\ \A type \in Types :
       /\ type \in Type
       /\ type.shape = "map" => type.repr = "packed"
       /\ type.shape = "option" => type.repr = "unpacked"
  /\ \A in \in Inputs :
       /\ in.type \in Types
       /\ in.fields \in Seq(Fields) /\ in.fields # <<>>
       /\ \A i \in 1 .. Len(in.fields) :
            LET field == in.fields[i]
            IN ~IsRegion(in.type, field.wire) =>
                 Len(field.items) = 1 /\ ~field.ragged
  /\ Restrictions \subseteq Relaxed .. Canonical

VARIABLES
  type, min, fields,  (* the call                                          *)
  at,       (* what is next: "start", "item" after a key, "peek" for a     *)
            (* repeated key, "region", "done" or "end"                     *)
  keys,     (* the keys of the field read, its own included                *)
  read,     (* the fields read to their end                                *)
  inner,    (* the items read of the region                                *)
  value,    (* the items of a vector or array, or the set of them          *)
  canon,
  outcome   (* "none" while decoding, then "ok" or the kind of the error   *)

call == <<type, min, fields>>
vars == <<call, at, keys, read, inner, value, canon, outcome>>

Fail(kind) ==
  /\ outcome' = kind
  /\ at' = "end"
  /\ UNCHANGED <<call, keys, read, inner, value, canon>>

-----------------------------------------------------------------------------
Init ==
  /\ \E in \in Inputs : type = in.type /\ fields = in.fields
  /\ min \in Restrictions
  /\ at = "start"
  /\ keys = 1 /\ read = 0 /\ inner = 0
  /\ value = IF Keyed(type) THEN {} ELSE <<>>
  /\ canon = Canonical
  /\ outcome = "none"

(* The representation that the first key announces.  The one that is not   *)
(* the type's own is decoded relaxed, if it is tolerated at all.           *)
Region == IsRegion(type, fields[1].wire)
Usual == Region <=> type.repr = "packed"
Context == IF Usual THEN min ELSE Relaxed
Tolerated == Usual \/ CheckError(NotCanonical, min) = "none"

ForeignRepresentation ==
  /\ at = "start"
  /\ type.shape # "map"
  /\ ~Tolerated
  /\ Fail(CheckError(NotCanonical, min))

(* Maps have one representation only.                                      *)
WrongWireType ==
  /\ at = "start"
  /\ ~Region
  /\ type.shape = "map" \/ (Tolerated /\ fields[1].wire # type.item)
  /\ Fail("WrongWireType")

(* The size of a region of items of fixed size is looked at first: that of *)
(* an array has to be exact, others have to be a multiple.                 *)
SizeError ==
  LET field == fields[1]
  IN IF type.item # "fixed" THEN "none"
     ELSE IF IsArray(type)
     THEN IF field.ragged \/ Len(field.items) # type.size THEN "InvalidValue" ELSE "none"
     ELSE IF field.ragged THEN "Truncated" ELSE "none"

BeginRegion ==
  /\ at = "start"
  /\ Region /\ Tolerated
  /\ IF SizeError # "none" THEN Fail(SizeError)
     ELSE /\ at' = "region"
          /\ UNCHANGED <<call, keys, read, inner, value, canon, outcome>>

(* An array of no items looks for a repeated key at once, where the value  *)
(* of its field still stands.                                              *)
BeginUnpacked ==
  /\ at = "start"
  /\ ~Region /\ Tolerated /\ type.shape # "map" /\ fields[1].wire = type.item
  /\ at' = IF IsArray(type) /\ type.size = 0 THEN "peek" ELSE "item"
  /\ UNCHANGED <<call, keys, read, inner, value, canon, outcome>>

-----------------------------------------------------------------------------
(* Inserting an item, which can fail or lower the canonicity.              *)

Holds(key) == \E i \in value : i.key = key
Greatest == CHOOSE i \in value : \A j \in value : i.key >= j.key

Insert(item) ==
  IF Keyed(type) /\ Holds(item.key) THEN "UnexpectedlyRepeated" ELSE "none"

(* Mutant of InsertDistinguished: only the greatest item is looked at.     *)
InsertBehind(item) ==
  IF ~Keyed(type) \/ value = {} \/ item.key > Greatest.key
  THEN [error |-> "none", canon |-> Canonical]
  ELSE IF item.key = Greatest.key
  THEN [error |-> "UnexpectedlyRepeated", canon |-> Canonical]
  ELSE [error |-> "none", canon |-> NotCanonical]

(* Keys must ascend: the item is compared with the greatest one so far.    *)
InsertDistinguished(item) ==
  IF ~Keyed(type) \/ value = {} \/ item.key > Greatest.key
  THEN [error |-> "none", canon |-> Canonical]
  ELSE IF item.key = Greatest.key
  THEN [error |-> "UnexpectedlyRepeated", canon |-> Canonical]
  ELSE [error |-> Insert(item), canon |-> NotCanonical]

Insertion(item) ==
  IF Context = Relaxed THEN [error |-> Insert(item), canon |-> Canonical]
  ELSE InsertDistinguished(item)

With(item) ==
  IF Keyed(type) THEN value \cup {Plain(item)} ELSE Append(value, Plain(item))

(* Mutant of ItemError: what the insertion finds is not checked.           *)
ItemErrorUnchecked(item) ==
  IF CheckError(item.canon, Context) # "none" THEN CheckError(item.canon, Context)
  ELSE Insertion(item).error

(* The errors of decoding an item and of inserting it, in that order.      *)
ItemError(item) ==
  IF CheckError(item.canon, Context) # "none" THEN CheckError(item.canon, Context)
  ELSE IF Insertion(item).error # "none" THEN Insertion(item).error
  ELSE CheckError(Insertion(item).canon, Context)

TakeItem(item) ==
  /\ ItemError(item) = "none"
  /\ value' = With(item)
  /\ canon' = Lower(Lower(canon, item.canon), Insertion(item).canon)

-----------------------------------------------------------------------------
(* Repeated fields.                                                        *)

UnpackedItem ==
  LET item == fields[keys].items[1] IN
  /\ at = "item"
  /\ \/ ItemError(item) # "none" /\ Fail(ItemError(item))
     \/ /\ TakeItem(item)
        /\ read' = keys
        /\ at' = "peek"
        /\ UNCHANGED <<call, keys, inner, outcome>>

Filled == IsArray(type) /\ Len(value) = type.size

(* peek_repeated_field.  Where the value of the field has not been read    *)
(* its bytes are looked at, which can be anything.                         *)
Repeats == IF read = keys THEN {keys < Len(fields)} ELSE BOOLEAN

Repeated ==
  /\ at = "peek"
  /\ TRUE \in Repeats
  /\ IF Filled THEN Fail("InvalidValue")
     ELSE IF fields[keys + 1].wire # type.item THEN Fail("WrongWireType")
     ELSE /\ keys' = keys + 1
          /\ at' = "item"
          /\ UNCHANGED <<call, read, inner, value, canon, outcome>>

NotRepeated ==
  /\ at = "peek"
  /\ FALSE \in Repeats
  /\ IF IsArray(type) /\ ~Filled THEN Fail("InvalidValue")
     ELSE /\ at' = "done"
          /\ UNCHANGED <<call, keys, read, inner, value, canon, outcome>>

-----------------------------------------------------------------------------
(* Packed values.                                                          *)

HasItem == inner < Len(fields[1].items)

PackedItem ==
  LET item == fields[1].items[inner + 1] IN
  /\ at = "region" /\ HasItem /\ ~Filled
  /\ \/ ItemError(item) # "none" /\ Fail(ItemError(item))
     \/ /\ TakeItem(item)
        /\ inner' = inner + 1
        /\ UNCHANGED <<call, at, keys, read, outcome>>

(* The rest of the region is no item: reading one fails or goes past it.   *)
PackedTruncated ==
  /\ at = "region" /\ ~HasItem /\ ~Filled /\ fields[1].ragged
  /\ Fail("Truncated")

(* An array with items left in the region, or with too few.                *)
PackedMiscounted ==
  /\ at = "region" /\ IsArray(type)
  /\ IF Filled THEN HasItem \/ fields[1].ragged ELSE ~HasItem /\ ~fields[1].ragged
  /\ Fail("InvalidValue")

PackedEnd ==
  /\ at = "region" /\ ~HasItem /\ ~fields[1].ragged
  /\ IsArray(type) => Filled
  /\ at' = "done"
  /\ read' = 1
  /\ UNCHANGED <<call, keys, inner, value, canon, outcome>>

-----------------------------------------------------------------------------
(* What is left out when it is encoded.                                    *)
IsEmpty ==
  CASE type.shape = "array" -> \A i \in 1 .. Len(value) : value[i] = Empty
    [] type.shape = "option" -> FALSE
    [] OTHER -> value = IF Keyed(type) THEN {} ELSE <<>>

Result == IF IsEmpty \/ ~Usual THEN NotCanonical ELSE canon

(* The decoder returns to the loop of the message.  There a field whose    *)
(* tag is that of the last one is an error; where a value has been left    *)
(* unread, it is the next key there, which is not one of this tag.         *)
Return ==
  /\ at = "done"
  /\ IF CheckError(Result, min) # "none" THEN Fail(CheckError(Result, min))
     ELSE IF read = keys /\ keys < Len(fields) THEN Fail("UnexpectedlyRepeated")
     ELSE /\ outcome' = "ok"
          /\ at' = "end"
          /\ canon' = Result
          /\ UNCHANGED <<call, keys, read, inner, value>>

Next ==
  \/ ForeignRepresentation \/ WrongWireType \/ BeginRegion \/ BeginUnpacked
  \/ UnpackedItem \/ Repeated \/ NotRepeated
  \/ PackedItem \/ PackedTruncated \/ PackedMiscounted \/ PackedEnd
  \/ Return

Spec == Init /\ [][Next]_vars

-----------------------------------------------------------------------------
(* The encoder.                                                            *)

Ascends(items) ==
  \A i, j \in DOMAIN items : i < j => items[i].key < items[j].key

(* The items in the order in which they are encoded.                       *)
Ordered ==
  IF Keyed(type) THEN CHOOSE items \in [1 .. Cardinality(value) -> value] : Ascends(items)
  ELSE value

Encoded ==
  IF IsEmpty THEN <<>>
  ELSE IF type.repr = "packed" THEN <<[wire |-> "delimited", items |-> Ordered]>>
  ELSE [i \in 1 .. Len(Ordered) |-> [wire |-> type.item, items |-> <<Ordered[i]>>]]

-----------------------------------------------------------------------------
(* Properties.                                                             *)

TypeOK ==
  /\ type \in Types /\ min \in Restrictions
  /\ at \in {"start", "item", "peek", "region", "done", "end"}
  /\ keys \in 1 .. Len(fields)
  /\ read \in 0 .. keys
  /\ inner \in 0 .. Len(fields[1].items)
  /\ IF Keyed(type) THEN value \subseteq [key : Nat, val : Nat]
     ELSE value \in Seq([key : Nat, val : Nat])
  /\ IsArray(type) => Len(value) <= type.size
  /\ canon \in NotCanonical .. Canonical
  /\ outcome \in {"none", "ok", "WrongWireType", "Truncated", "InvalidValue",
                  "UnexpectedlyRepeated", "NotCanonical", "UnknownField"}

(* No decoder goes on with a canonicity that its context does not allow.   *)
RespectsMinimum == canon >= Context

(* No set or map holds two items of one key, and every array that is       *)
(* decoded has all of its items, whichever loop filled it.                 *)
KeysOnce == Keyed(type) => \A i, j \in value : i.key = j.key => i = j
Complete == outcome = "ok" /\ IsArray(type) => Len(value) = type.size

(* The items of a field in one of the two representations, in the order    *)
(* met.                                                                    *)
Met ==
  IF Region THEN fields[1].items ELSE [i \in 1 .. Len(fields) |-> fields[i].items[1]]

WellFormed ==
  /\ IF Region THEN Len(fields) = 1 /\ ~fields[1].ragged
     ELSE /\ type.shape # "map"
          /\ \A i \in 1 .. Len(fields) : fields[i].wire = type.item
  /\ IsArray(type) => Len(Met) = type.size
  /\ Keyed(type) => \A i, j \in 1 .. Len(Met) : i # j => Met[i].key # Met[j].key

InForm ==
  /\ Usual
  /\ Keyed(type) => Ascends(Met)
  /\ CASE type.shape = "option" -> TRUE
       [] type.shape = "array" -> \E i \in 1 .. Len(Met) : Plain(Met[i]) # Empty
       [] OTHER -> Met # <<>>

Lowest ==
  LET canons == {Canonical} \cup {Met[i].canon : i \in 1 .. Len(Met)}
  IN CHOOSE c \in canons : \A d \in canons : c <= d

Acceptable == WellFormed /\ (IF InForm THEN Lowest ELSE NotCanonical) >= min

(* The fields as they would be encoded, without the canonicities.          *)
Given ==
  [i \in 1 .. Len(fields) |->
     [wire |-> fields[i].wire,
      items |-> [j \in 1 .. Len(fields[i].items) |-> Plain(fields[i].items[j])]]]

(* An unpacked array of no items decodes from one field of its own         *)
(* representation and leaves the value of that field in the buffer, where  *)
(* the message reads it as a key.  The documentation of the decoder calls  *)
(* such a field invalid (unpacked.rs 89-90).                               *)
LeavesValue == ~Region /\ IsArray(type) /\ type.size = 0

(* A field decodes exactly if it is a collection of the type in one of the *)
(* two representations and, in distinguished mode, its canonicity is not   *)
(* below the minimum, whatever the order in which the decoder looks at     *)
(* sizes, counts, items and keys.  What is returned there is as canonical  *)
(* as the least canonical item if the fields are those that encoding the   *)
(* value gives, and is not canonical otherwise.                            *)
AcceptsExactly ==
  ~LeavesValue =>
    /\ outcome # "none" => (outcome = "ok" <=> Acceptable)
    /\ outcome = "ok" /\ min # Relaxed =>
         canon = IF Encoded = Given THEN Lowest ELSE NotCanonical
=============================================================================
