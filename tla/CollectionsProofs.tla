------------------------- MODULE CollectionsProofs --------------------------
(***************************************************************************)
(* Theorems on Collections, for all types, sizes, inputs and minimums.     *)
(***************************************************************************)
EXTENDS Collections, DataInduction

(* The decoder's own arguments are some input, so that what is not read as *)
(* a region is one item.                                                   *)
CallOK ==
  /\ \E in \in Inputs : type = in.type /\ fields = in.fields
  /\ min \in Restrictions

(* What each place of the decoder relies on: nothing is inserted before    *)
(* the loops; the unpacked loop reads fields of the item's wire type and   *)
(* only while the array has room; it looks for a key behind an unread      *)
(* value only if the array is full already; and arrays end full.           *)
Progress ==
  /\ at = "start" => keys = 1 /\ value = IF Keyed(type) THEN {} ELSE <<>>
  /\ at \in {"item", "peek"} => ~IsRegion(type, type.item)
  /\ at = "item" => fields[keys].wire = type.item /\ ~Filled
  /\ at = "peek" => read = keys \/ Filled
  /\ at = "done" \/ outcome = "ok" => (IsArray(type) => Filled)
  /\ outcome # "none" => at = "end"

(* A set that is not empty has a greatest item, as every finite one.  It   *)
(* is carried along: the set grows item by item.                           *)
HasGreatest ==
  Keyed(type) /\ value # {} => \E i \in value : \A j \in value : i.key >= j.key

IInv ==
  /\ CallOK /\ TypeOK /\ Progress /\ RespectsMinimum
  /\ KeysOnce /\ HasGreatest

-----------------------------------------------------------------------------
(* The fields of a call, from the assumption on inputs.                    *)
LEMMA CallFacts ==
  ASSUME CallOK
  PROVE  /\ type \in Types /\ type \in Type
         /\ fields \in Seq(Fields) /\ fields # <<>> /\ Len(fields) >= 1
         /\ min \in 0 .. 3
         /\ \A i \in 1 .. Len(fields) :
              ~IsRegion(type, fields[i].wire) => Len(fields[i].items) = 1
PROOF
  <1>1. PICK in \in Inputs : type = in.type /\ fields = in.fields
    BY DEF CallOK
  <1>2. min \in 0 .. 3
    BY CollectionsAssumption DEF CallOK, Relaxed, Canonical
  <1>3. type \in Types /\ fields \in Seq(Fields) /\ fields # <<>>
    BY <1>1, CollectionsAssumption
  <1>4. type \in Type
    BY <1>3, CollectionsAssumption
  <1>5. Len(fields) >= 1
    BY <1>3
  <1>6. \A i \in 1 .. Len(fields) :
          ~IsRegion(type, fields[i].wire) => Len(fields[i].items) = 1
    BY <1>1, CollectionsAssumption
  <1> QED BY <1>2, <1>3, <1>4, <1>5, <1>6

(* check is silent exactly on what the minimum tolerates.                  *)
LEMMA CheckSilent ==
  ASSUME NEW c \in 1 .. 3, NEW m \in 0 .. 3
  PROVE  CheckError(c, m) = "none" <=> c >= m
  BY DEF CheckError, NotCanonical

(* The lower of two canonicities is one of them.                           *)
LEMMA LowerKeeps ==
  ASSUME NEW a \in 1 .. 3, NEW b \in 1 .. 3
  PROVE  /\ Lower(a, b) \in 1 .. 3
         /\ \A m \in 0 .. 3 : a >= m /\ b >= m => Lower(a, b) >= m
  BY DEF Lower

(* Relaxed decoding of the foreign representation asks for no more.        *)
LEMMA ContextRange ==
  ASSUME min \in 0 .. 3
  PROVE  Context \in 0 .. 3 /\ Context <= min
  BY DEF Context, Relaxed

(* The greatest item, where there is one.                                  *)
LEMMA GreatestIs ==
  ASSUME Keyed(type), HasGreatest, value # {}
  PROVE  Greatest \in value /\ \A j \in value : Greatest.key >= j.key
  BY DEF HasGreatest, Greatest

(* Inserting finds every key that is held already, though in distinguished *)
(* mode only the greatest is compared with first.                          *)
LEMMA InsertionFinds ==
  ASSUME NEW item \in Items, Insertion(item).error = "none", Keyed(type),
         value \subseteq [key : Nat, val : Nat], HasGreatest
  PROVE  \A i \in value : i.key # item.key
PROOF
  <1>1. SUFFICES ASSUME NEW i \in value, i.key = item.key
                 PROVE  FALSE
    OBVIOUS
  <1>2. Insert(item) = "UnexpectedlyRepeated"
    BY <1>1 DEF Holds, Insert
  <1>3. Insert(item) # "none"
    BY <1>2
  <1>4. Context # Relaxed /\ InsertDistinguished(item).error = "none"
    BY <1>3 DEF Insertion
  <1>5. item.key > Greatest.key
    BY <1>1, <1>3, <1>4 DEF InsertDistinguished
  <1>6. Greatest \in value /\ Greatest.key >= i.key
    BY <1>1, GreatestIs
  <1>7. item.key \in Nat /\ Greatest.key \in Nat
    BY <1>6 DEF Items
  <1> QED BY <1>1, <1>5, <1>6, <1>7

(* The canonicity an insertion finds.                                      *)
LEMMA InsertionCanon ==
  ASSUME NEW item \in Items
  PROVE  Insertion(item).canon \in 1 .. 3
  BY DEF Insertion, InsertDistinguished, NotCanonical, Canonical

-----------------------------------------------------------------------------
(* Taking an item.                                                         *)
LEMMA TakeItemSafe ==
  ASSUME IInv, NEW item \in Items, TakeItem(item), UNCHANGED call, ~Filled
  PROVE  /\ IF Keyed(type') THEN value' \subseteq [key : Nat, val : Nat]
            ELSE value' \in Seq([key : Nat, val : Nat])
         /\ (IsArray(type) => Len(value) <= type.size)'
         /\ canon' \in NotCanonical .. Canonical
         /\ RespectsMinimum' /\ KeysOnce' /\ HasGreatest'
PROOF
  <1> USE DEF NotCanonical, Canonical
  <1>1. /\ min \in 0 .. 3 /\ Context \in 0 .. 3 /\ type \in Type
        /\ canon \in 1 .. 3 /\ item.canon \in 1 .. 3
    BY CallFacts, ContextRange DEF IInv, TypeOK, Items
  <1>2. Plain(item) \in [key : Nat, val : Nat] /\ Plain(item).key = item.key
    BY DEF Plain, Items
  <1>3. type' = type /\ Context' = Context /\ Keyed(type') = Keyed(type)
    BY DEF call, Context, Usual, Region, Keyed
  <1>4. Insertion(item).error = "none" /\ CheckError(item.canon, Context) = "none"
        /\ CheckError(Insertion(item).canon, Context) = "none"
    BY DEF TakeItem, ItemError
  <1>5. Insertion(item).canon \in 1 .. 3
    BY InsertionCanon
  <1>6. item.canon >= Context /\ Insertion(item).canon >= Context
    BY <1>1, <1>4, <1>5, CheckSilent
  <1>7. canon' \in 1 .. 3 /\ canon' >= Context
    <2>1. canon >= Context
      BY DEF IInv, RespectsMinimum
    <2>2. Lower(canon, item.canon) \in 1 .. 3 /\ Lower(canon, item.canon) >= Context
      BY <1>1, <1>6, <2>1, LowerKeeps
    <2> QED BY <1>1, <1>5, <1>6, <2>2, LowerKeeps DEF TakeItem
  <1>8. CASE Keyed(type)
    <2>1. /\ value' = value \cup {Plain(item)}
          /\ value \subseteq [key : Nat, val : Nat]
      BY <1>8 DEF TakeItem, With, IInv, TypeOK
    <2>2. ~IsArray(type')
      BY <1>3, <1>8 DEF Keyed, IsArray
    <2>3. KeysOnce'
      <3>1. \A i \in value : i.key # item.key
        BY <1>4, <1>8, <2>1, InsertionFinds DEF IInv
      <3> QED BY <1>2, <1>3, <1>8, <2>1, <3>1 DEF KeysOnce, IInv
    <2>4. HasGreatest'
      <3>1. CASE value = {}
        <4>1. value' = {Plain(item)}
          BY <2>1, <3>1
        <4> QED BY <1>2, <4>1 DEF HasGreatest
      <3>2. CASE value # {}
        <4>1. Greatest \in value /\ \A j \in value : Greatest.key >= j.key
          BY <1>8, <3>2, GreatestIs DEF IInv
        <4>2. CASE item.key > Greatest.key
          <5>1. \A j \in value' : Plain(item).key >= j.key
            BY <1>2, <2>1, <4>1, <4>2
          <5> QED BY <2>1, <5>1 DEF HasGreatest
        <4>3. CASE ~(item.key > Greatest.key)
          <5>1. \A j \in value' : Greatest.key >= j.key
            BY <1>2, <2>1, <4>1, <4>3
          <5>2. Greatest \in value'
            BY <2>1, <4>1
          <5> QED BY <5>1, <5>2 DEF HasGreatest
        <4> QED BY <4>2, <4>3
      <3> QED BY <3>1, <3>2
    <2> QED BY <1>2, <1>3, <1>7, <1>8, <2>1, <2>2, <2>3, <2>4 DEF RespectsMinimum
  <1>9. CASE ~Keyed(type)
    <2>1. /\ value' = Append(value, Plain(item))
          /\ value \in Seq([key : Nat, val : Nat])
      BY <1>9 DEF TakeItem, With, IInv, TypeOK
    <2>2. value' \in Seq([key : Nat, val : Nat]) /\ Len(value') = Len(value) + 1
      BY <1>2, <2>1
    <2>3. IsArray(type) => Len(value') <= type.size
      <3>1. SUFFICES ASSUME IsArray(type) PROVE Len(value') <= type.size
        OBVIOUS
      <3>2. Len(value) <= type.size /\ Len(value) # type.size
        BY <3>1 DEF IInv, TypeOK, Filled
      <3>3. type.size \in Nat
        BY <1>1 DEF Type
      <3>4. Len(value) \in Nat
        BY <2>1
      <3> QED BY <2>2, <3>2, <3>3, <3>4
    <2> QED BY <1>3, <1>7, <1>9, <2>2, <2>3
            DEF RespectsMinimum, KeysOnce, HasGreatest, IsArray
  <1> QED BY <1>8, <1>9

-----------------------------------------------------------------------------
(* Errors leave the collection as it is.                                   *)
LEMMA FailSafe ==
  ASSUME IInv, NEW kind, Fail(kind),
         kind \in {"WrongWireType", "Truncated", "InvalidValue",
                   "UnexpectedlyRepeated", "NotCanonical", "UnknownField"}
  PROVE  IInv'
PROOF
  <1>1. UNCHANGED <<call, keys, read, inner, value, canon>> /\ at' = "end"
        /\ outcome' = kind
    BY DEF Fail
  <1>2. CallOK' /\ HasGreatest' /\ KeysOnce'
    BY <1>1 DEF IInv, CallOK, HasGreatest, KeysOnce, Keyed, call
  <1>3. RespectsMinimum'
    BY <1>1 DEF IInv, RespectsMinimum, Context, Usual, Region, call
  <1>4. TypeOK'
    BY <1>1 DEF IInv, TypeOK, call
  <1>5. Progress'
    BY <1>1 DEF IInv, Progress, call
  <1> QED BY <1>2, <1>3, <1>4, <1>5 DEF IInv

(* The kinds of error that checks and insertions report.                   *)
LEMMA ErrorKinds ==
  /\ \A c, m : CheckError(c, m) \in {"none", "NotCanonical", "UnknownField"}
  /\ \A item : ItemError(item) \in
       {"none", "NotCanonical", "UnknownField", "UnexpectedlyRepeated"}
PROOF
  <1>1. \A c, m : CheckError(c, m) \in {"none", "NotCanonical", "UnknownField"}
    BY DEF CheckError
  <1>2. \A item : Insertion(item).error \in {"none", "UnexpectedlyRepeated"}
    BY DEF Insertion, InsertDistinguished, Insert
  <1> QED BY <1>1, <1>2 DEF ItemError

(* A step that only moves to another place of the decoder.                 *)
LEMMA MoveSafe ==
  ASSUME IInv, UNCHANGED <<call, value, canon, outcome>>,
         keys' \in 1 .. Len(fields), read' \in 0 .. keys', inner' = inner,
         at' \in {"item", "peek", "region", "done"}, outcome = "none", Progress'
  PROVE  IInv'
PROOF
  <1>1. CallOK' /\ HasGreatest' /\ KeysOnce'
    BY DEF IInv, CallOK, HasGreatest, KeysOnce, Keyed, call
  <1>2. RespectsMinimum'
    BY DEF IInv, RespectsMinimum, Context, Usual, Region, call
  <1>3. TypeOK'
    BY DEF IInv, TypeOK, call
  <1> QED BY <1>1, <1>2, <1>3 DEF IInv

(* The empty vector.                                                       *)
LEMMA EmptySequence == <<>> \in Seq([key : Nat, val : Nat])
  OBVIOUS

(* Decoding begins with nothing read.                                      *)
LEMMA InitIInv == Init => IInv
PROOF
  <1> SUFFICES ASSUME Init PROVE IInv
    OBVIOUS
  <1>0. /\ at = "start" /\ keys = 1 /\ read = 0 /\ inner = 0 /\ canon = 3
        /\ outcome = "none" /\ min \in Restrictions
    BY DEF Init, Canonical
  <1>12. value = IF Keyed(type) THEN {} ELSE <<>>
    BY DEF Init
  <1>1. CallOK
    BY DEF Init, CallOK
  <1>2. /\ type \in Types /\ type \in Type /\ Len(fields) >= 1 /\ min \in 0 .. 3
        /\ fields \in Seq(Fields)
    BY <1>1, CallFacts
  <1>3. Len(fields[1].items) \in Nat
    BY <1>2 DEF Fields
  <1>4. type.size \in Nat
    BY <1>2 DEF Type
  <1>5. IsArray(type) => Len(value) <= type.size
    <2>1. IsArray(type) => ~Keyed(type)
      BY DEF IsArray, Keyed
    <2>2. ~Keyed(type) => value = <<>>
      BY DEF Init
    <2>3. Len(<<>>) = 0
      OBVIOUS
    <2> QED BY <1>4, <2>1, <2>2, <2>3
  <1>6. IF Keyed(type) THEN value \subseteq [key : Nat, val : Nat]
        ELSE value \in Seq([key : Nat, val : Nat])
    BY <1>12, EmptySequence
  <1>10. keys \in 1 .. Len(fields) /\ read \in 0 .. keys
         /\ inner \in 0 .. Len(fields[1].items)
    <2>1. Len(fields) \in Nat
      BY <1>2
    <2> QED BY <1>0, <1>2, <1>3, <2>1
  <1>11. TypeOK
    BY <1>0, <1>2, <1>5, <1>6, <1>10 DEF TypeOK, NotCanonical, Canonical
  <1>7. Progress
    BY DEF Init, Progress
  <1>8. RespectsMinimum
    <2>1. Context \in 0 .. 3
      BY <1>2, ContextRange
    <2> QED BY <1>0, <2>1 DEF RespectsMinimum
  <1>9. KeysOnce /\ HasGreatest
    BY DEF Init, KeysOnce, HasGreatest
  <1> QED BY <1>1, <1>7, <1>8, <1>9, <1>11 DEF IInv

-----------------------------------------------------------------------------
(* The steps.                                                              *)

(* A representation is chosen.                                             *)
LEMMA BeginSafe ==
  ASSUME IInv, ForeignRepresentation \/ WrongWireType \/ BeginRegion \/ BeginUnpacked
  PROVE  IInv'
PROOF
  <1>1. CASE ForeignRepresentation
    <2>1. CheckError(NotCanonical, min) # "none"
      BY <1>1 DEF ForeignRepresentation, Tolerated
    <2>2. CheckError(NotCanonical, min) \in {"NotCanonical", "UnknownField"}
      BY <2>1, ErrorKinds
    <2> QED BY <1>1, <2>2, FailSafe DEF ForeignRepresentation
  <1>2. CASE WrongWireType
    BY <1>2, FailSafe DEF WrongWireType
  <1>3. CASE BeginRegion
    <2>1. CASE SizeError # "none"
      <3>1. SizeError \in {"Truncated", "InvalidValue"}
        BY <2>1 DEF SizeError
      <3> QED BY <1>3, <2>1, <3>1, FailSafe DEF BeginRegion
    <2>2. CASE SizeError = "none"
      <3>1. /\ at' = "region" /\ outcome' = outcome
            /\ UNCHANGED <<call, keys, read, inner, value, canon, outcome>>
        BY <1>3, <2>2 DEF BeginRegion
      <3>2. outcome = "none" /\ at = "start"
        BY <1>3 DEF BeginRegion, IInv, Progress
      <3>3. Progress'
        BY <3>1, <3>2 DEF Progress
      <3>4. keys' \in 1 .. Len(fields) /\ read' \in 0 .. keys' /\ inner' = inner
        BY <3>1 DEF IInv, TypeOK
      <3> QED BY <3>1, <3>2, <3>3, <3>4, MoveSafe
    <2> QED BY <2>1, <2>2
  <1>4. CASE BeginUnpacked
    <2>1. /\ UNCHANGED <<call, keys, read, inner, value, canon, outcome>>
          /\ at = "start" /\ ~Region /\ fields[1].wire = type.item
          /\ at' = IF IsArray(type) /\ type.size = 0 THEN "peek" ELSE "item"
      BY <1>4 DEF BeginUnpacked
    <2>2. outcome = "none" /\ value = (IF Keyed(type) THEN {} ELSE <<>>)
      BY <2>1 DEF IInv, Progress
    <2>3. ~IsRegion(type, type.item)
      BY <2>1 DEF Region
    <2>4. IsArray(type) => value = <<>>
      BY <2>2 DEF IsArray, Keyed
    <2>5. Filled <=> IsArray(type) /\ type.size = 0
      <3>1. Len(<<>>) = 0
        OBVIOUS
      <3>2. IsArray(type) => (Len(value) = type.size <=> type.size = 0)
        BY <2>4, <3>1
      <3> QED BY <3>2 DEF Filled
    <2>6. UNCHANGED <<type, fields, keys, value, outcome>> /\ Filled' = Filled
      BY <2>1 DEF call, Filled
    <2>7. keys = 1
      BY <2>1 DEF IInv, Progress
    <2>8. Progress'
      <3>1. CASE IsArray(type) /\ type.size = 0
        BY <2>1, <2>2, <2>3, <2>5, <2>6, <3>1 DEF Progress
      <3>2. CASE ~(IsArray(type) /\ type.size = 0)
        <4>1. at' = "item" /\ ~Filled' /\ fields'[keys'].wire = type'.item
          BY <2>1, <2>5, <2>6, <2>7, <3>2
        <4> QED BY <2>2, <2>3, <2>6, <4>1 DEF Progress
      <3> QED BY <3>1, <3>2
    <2>9. keys' \in 1 .. Len(fields) /\ read' \in 0 .. keys' /\ inner' = inner
      BY <2>1 DEF IInv, TypeOK
    <2> QED BY <2>1, <2>2, <2>8, <2>9, MoveSafe
  <1> QED BY <1>1, <1>2, <1>3, <1>4

(* An item is taken, from either loop.                                     *)
LEMMA TakeSafe ==
  ASSUME IInv, NEW item \in Items, TakeItem(item), UNCHANGED <<call, keys, outcome>>,
         ~Filled, outcome = "none",
         read' \in 0 .. keys, inner' \in 0 .. Len(fields[1].items),
         at' \in {"peek", "region"}, Progress'
  PROVE  IInv'
PROOF
  <1>1. UNCHANGED call /\ UNCHANGED <<type, min, fields, keys, outcome>>
    BY DEF call
  <1>2. /\ IF Keyed(type') THEN value' \subseteq [key : Nat, val : Nat]
           ELSE value' \in Seq([key : Nat, val : Nat])
        /\ (IsArray(type) => Len(value) <= type.size)'
        /\ canon' \in NotCanonical .. Canonical
        /\ RespectsMinimum' /\ KeysOnce' /\ HasGreatest'
    BY <1>1, TakeItemSafe
  <1>3. CallOK'
    BY <1>1 DEF IInv, CallOK
  <1>4. TypeOK'
    BY <1>1, <1>2 DEF IInv, TypeOK
  <1> QED BY <1>2, <1>3, <1>4 DEF IInv

(* The item of a field that is not a region.                               *)
LEMMA ItemOfField ==
  ASSUME CallOK, NEW i \in 1 .. Len(fields), ~IsRegion(type, fields[i].wire)
  PROVE  fields[i].items[1] \in Items
PROOF
  <1>1. fields[i] \in Fields /\ Len(fields[i].items) = 1
    BY CallFacts
  <1>2. fields[i].items \in Seq(Items)
    BY <1>1 DEF Fields
  <1> QED BY <1>1, <1>2

(* The unpacked loops.                                                     *)
LEMMA UnpackedSafe ==
  ASSUME IInv, UnpackedItem \/ Repeated \/ NotRepeated
  PROVE  IInv'
PROOF
  <1>0. keys \in 1 .. Len(fields) /\ read \in 0 .. keys /\ Len(fields) \in Nat
        /\ inner \in 0 .. Len(fields[1].items)
    BY CallFacts DEF IInv, TypeOK
  <1>1. CASE UnpackedItem
    <2> DEFINE item == fields[keys].items[1]
    <2>1. at = "item" /\ outcome = "none" /\ ~Filled /\ ~IsRegion(type, type.item)
          /\ fields[keys].wire = type.item
      BY <1>1 DEF UnpackedItem, IInv, Progress
    <2>2. item \in Items
      BY <1>0, <2>1, ItemOfField DEF IInv
    <2> HIDE DEF item
    <2>3. CASE ItemError(item) # "none" /\ Fail(ItemError(item))
      BY <2>3, ErrorKinds, FailSafe
    <2>4. CASE /\ TakeItem(item) /\ read' = keys /\ at' = "peek"
               /\ UNCHANGED <<call, keys, inner, outcome>>
      <3>1. Progress'
        BY <2>1, <2>4 DEF Progress, call
      <3>2. read' \in 0 .. keys /\ inner' \in 0 .. Len(fields[1].items)
        BY <1>0, <2>4
      <3> QED BY <2>1, <2>2, <2>4, <3>1, <3>2, TakeSafe
    <2> QED BY <1>1, <2>3, <2>4 DEF UnpackedItem, item
  <1>2. CASE Repeated
    <2>1. at = "peek" /\ outcome = "none" /\ ~IsRegion(type, type.item)
          /\ (read = keys \/ Filled)
      BY <1>2 DEF Repeated, IInv, Progress
    <2>2. CASE Filled
      BY <1>2, <2>2, FailSafe DEF Repeated
    <2>3. CASE ~Filled /\ fields[keys + 1].wire # type.item
      BY <1>2, <2>3, FailSafe DEF Repeated
    <2>4. CASE ~Filled /\ fields[keys + 1].wire = type.item
      <3>1. /\ keys' = keys + 1 /\ at' = "item"
            /\ UNCHANGED <<call, read, inner, value, canon, outcome>>
            /\ TRUE \in Repeats
        BY <1>2, <2>4 DEF Repeated
      <3>2. keys < Len(fields)
        BY <2>1, <2>4, <3>1 DEF Repeats
      <3>3. UNCHANGED <<type, fields>> /\ ~Filled' /\ fields'[keys'].wire = type'.item
        BY <2>4, <3>1 DEF call, Filled
      <3>4. Progress'
        BY <2>1, <3>1, <3>3 DEF Progress
      <3>5. keys' \in 1 .. Len(fields) /\ read' \in 0 .. keys'
        BY <1>0, <3>1, <3>2
      <3> QED BY <2>1, <3>1, <3>4, <3>5, MoveSafe
    <2> QED BY <2>2, <2>3, <2>4
  <1>3. CASE NotRepeated
    <2>1. at = "peek" /\ outcome = "none"
      BY <1>3 DEF NotRepeated, IInv, Progress
    <2>2. CASE IsArray(type) /\ ~Filled
      BY <1>3, <2>2, FailSafe DEF NotRepeated
    <2>3. CASE ~(IsArray(type) /\ ~Filled)
      <3>1. at' = "done" /\ UNCHANGED <<call, keys, read, inner, value, canon, outcome>>
        BY <1>3, <2>3 DEF NotRepeated
      <3>2. UNCHANGED type /\ Filled' = Filled
        BY <3>1 DEF call, Filled
      <3>3. Progress'
        BY <2>1, <2>3, <3>1, <3>2 DEF Progress
      <3> QED BY <1>0, <2>1, <3>1, <3>3, MoveSafe
    <2> QED BY <2>2, <2>3
  <1> QED BY <1>1, <1>2, <1>3

(* The packed loops.                                                       *)
LEMMA PackedSafe ==
  ASSUME IInv, PackedItem \/ PackedTruncated \/ PackedMiscounted \/ PackedEnd
  PROVE  IInv'
PROOF
  <1>0. keys \in 1 .. Len(fields) /\ read \in 0 .. keys /\ Len(fields) \in Nat
        /\ inner \in 0 .. Len(fields[1].items)
    BY CallFacts DEF IInv, TypeOK
  <1>1. fields[1].items \in Seq(Items)
    <2>1. fields \in Seq(Fields) /\ Len(fields) \in Nat /\ Len(fields) >= 1
      BY CallFacts, <1>0 DEF IInv
    <2>2. fields[1] \in Fields
      BY <2>1
    <2> QED BY <2>2 DEF Fields
  <1>2. CASE PackedItem
    <2> DEFINE item == fields[1].items[inner + 1]
    <2>1. at = "region" /\ outcome = "none" /\ ~Filled
      BY <1>2 DEF PackedItem, IInv, Progress
    <2>2. inner < Len(fields[1].items)
      BY <1>2 DEF PackedItem, HasItem
    <2>3. item \in Items
      BY <1>0, <1>1, <2>2
    <2> HIDE DEF item
    <2>4. CASE ItemError(item) # "none" /\ Fail(ItemError(item))
      BY <2>4, ErrorKinds, FailSafe
    <2>5. CASE /\ TakeItem(item) /\ inner' = inner + 1
               /\ UNCHANGED <<call, at, keys, read, outcome>>
      <3>1. Progress'
        BY <2>1, <2>5 DEF Progress, call
      <3>2. read' \in 0 .. keys /\ inner' \in 0 .. Len(fields[1].items)
        BY <1>0, <1>1, <2>2, <2>5
      <3> QED BY <2>1, <2>3, <2>5, <3>1, <3>2, TakeSafe
    <2> QED BY <1>2, <2>4, <2>5 DEF PackedItem, item
  <1>3. CASE PackedTruncated
    BY <1>3, FailSafe DEF PackedTruncated
  <1>4. CASE PackedMiscounted
    BY <1>4, FailSafe DEF PackedMiscounted
  <1>5. CASE PackedEnd
    <2>1. /\ at = "region" /\ at' = "done" /\ read' = 1
          /\ (IsArray(type) => Filled)
          /\ UNCHANGED <<call, keys, inner, value, canon, outcome>>
      BY <1>5 DEF PackedEnd
    <2>2. outcome = "none"
      BY <2>1 DEF IInv, Progress
    <2>3. UNCHANGED type /\ Filled' = Filled
      BY <2>1 DEF call, Filled
    <2>4. Progress'
      BY <2>1, <2>2, <2>3 DEF Progress
    <2>5. keys' \in 1 .. Len(fields) /\ read' \in 0 .. keys'
      BY <1>0, <2>1
    <2> QED BY <2>1, <2>2, <2>4, <2>5, MoveSafe
  <1> QED BY <1>2, <1>3, <1>4, <1>5

(* The result.                                                             *)
LEMMA ReturnSafe ==
  ASSUME IInv, Return
  PROVE  IInv'
PROOF
  <1>1. at = "done" /\ outcome = "none" /\ (IsArray(type) => Filled)
    BY DEF Return, IInv, Progress
  <1>2. CASE CheckError(Result, min) # "none"
    BY <1>2, ErrorKinds, FailSafe DEF Return
  <1>3. CASE CheckError(Result, min) = "none" /\ read = keys /\ keys < Len(fields)
    BY <1>3, FailSafe DEF Return
  <1>4. CASE CheckError(Result, min) = "none" /\ ~(read = keys /\ keys < Len(fields))
    <2>1. /\ outcome' = "ok" /\ at' = "end" /\ canon' = Result
          /\ UNCHANGED <<call, keys, read, inner, value>>
      BY <1>4 DEF Return
    <2>2. UNCHANGED <<type, min, fields>> /\ Filled' = Filled /\ Context' = Context
      BY <2>1 DEF call, Filled, Context, Usual, Region
    <2>3. Result \in 1 .. 3
      BY DEF Result, IInv, TypeOK, NotCanonical, Canonical
    <2>4. min \in 0 .. 3 /\ Context \in 0 .. 3 /\ Context <= min
      BY CallFacts, ContextRange DEF IInv
    <2>5. RespectsMinimum'
      <3>1. Result >= min
        BY <1>4, <2>3, <2>4, CheckSilent
      <3> QED BY <2>1, <2>2, <2>3, <2>4, <3>1 DEF RespectsMinimum
    <2>6. TypeOK'
      BY <2>1, <2>2, <2>3 DEF IInv, TypeOK, NotCanonical, Canonical
    <2>7. CallOK' /\ HasGreatest' /\ KeysOnce'
      BY <2>1, <2>2 DEF IInv, CallOK, HasGreatest, KeysOnce, Keyed
    <2>8. Progress'
      BY <1>1, <2>1, <2>2 DEF Progress
    <2> QED BY <2>5, <2>6, <2>7, <2>8 DEF IInv
  <1> QED BY <1>2, <1>3, <1>4

(* A step without change.                                                  *)
LEMMA StutterIInv ==
  ASSUME IInv, UNCHANGED vars
  PROVE  IInv'
PROOF
  <1>1. UNCHANGED <<type, min, fields, at, keys, read, inner, value, canon, outcome>>
    BY DEF vars, call
  <1>2. CallOK' /\ HasGreatest' /\ KeysOnce'
    BY <1>1 DEF IInv, CallOK, HasGreatest, KeysOnce, Keyed
  <1>3. TypeOK' /\ RespectsMinimum'
    BY <1>1 DEF IInv, TypeOK, RespectsMinimum, Context, Usual, Region
  <1>4. Progress'
    BY <1>1 DEF IInv, Progress, Filled
  <1> QED BY <1>2, <1>3, <1>4 DEF IInv

-----------------------------------------------------------------------------
(* The inductive invariant.                                                *)
THEOREM CollectionsInvariant == Spec => []IInv
PROOF
  <1>1. Init => IInv
    BY InitIInv
  <1>2. IInv /\ [Next]_vars => IInv'
    <2> SUFFICES ASSUME IInv, [Next]_vars PROVE IInv'
      OBVIOUS
    <2>1. CASE UNCHANGED vars
      BY <2>1, StutterIInv
    <2>2. CASE Next
      BY <2>2, BeginSafe, UnpackedSafe, PackedSafe, ReturnSafe DEF Next
    <2> QED BY <2>1, <2>2
  <1> QED BY <1>1, <1>2, PTL DEF Spec

(* Every array holds at most the items it has room for, and every result   *)
(* is of its type.                                                         *)
THEOREM CollectionsTypeOK == Spec => []TypeOK
PROOF
  <1>1. IInv => TypeOK
    BY DEF IInv
  <1> QED BY <1>1, CollectionsInvariant, PTL

(* No loop goes on below the canonicity its context asks for: every item   *)
(* and every insertion that lowers it is checked.                          *)
THEOREM CollectionsRespectsMinimum == Spec => []RespectsMinimum
PROOF
  <1>1. IInv => RespectsMinimum
    BY DEF IInv
  <1> QED BY <1>1, CollectionsInvariant, PTL

(* No set or map ever holds two items of one key, although distinguished   *)
(* insertion compares with the greatest key only before it inserts.        *)
THEOREM CollectionsKeysOnce == Spec => []KeysOnce
PROOF
  <1>1. IInv => KeysOnce
    BY DEF IInv
  <1> QED BY <1>1, CollectionsInvariant, PTL

(* Every array that is decoded has all of its items.                       *)
THEOREM CollectionsComplete == Spec => []Complete
PROOF
  <1>1. IInv => Complete
    BY DEF IInv, Progress, Complete, Filled
  <1> QED BY <1>1, CollectionsInvariant, PTL

-----------------------------------------------------------------------------
(* Items in the order of their keys.                                       *)

(* An item of another key has a place among items that ascend.             *)
LEMMA SortedWith ==
  ASSUME NEW V, \A v \in V : v.key \in Nat, NEW n \in Nat, NEW g \in [1 .. n -> V],
         Ascends(g), NEW x, x.key \in Nat, \A v \in V : v.key # x.key
  PROVE  \E h \in [1 .. n + 1 -> V \cup {x}] : Ascends(h)
<1> DEFINE above == {i \in 1 .. n + 1 : i = n + 1 \/ x.key < g[i].key}
<1>1. n + 1 \in above /\ above \in SUBSET Nat /\ above # {}
  OBVIOUS
<1>2. PICK k \in above : \A i \in above : k <= i
  BY <1>1, LeastNatural
<1> DEFINE h == [i \in 1 .. n + 1 |->
                   IF i < k THEN g[i] ELSE IF i = k THEN x ELSE g[i - 1]]
<1>3. k \in 1 .. n + 1
  OBVIOUS
<1>4. \A i \in 1 .. n : g[i] \in V /\ g[i].key \in Nat /\ g[i].key # x.key
  OBVIOUS
<1>5. \A i \in 1 .. n : i < k => g[i].key < x.key
  <2>1. SUFFICES ASSUME NEW i \in 1 .. n, i < k PROVE g[i].key < x.key
    OBVIOUS
  <2>2. ~(x.key < g[i].key)
    BY <1>2, <1>3, <2>1
  <2>3. QED
    BY <1>4, <2>2
<1>6. \A i \in 1 .. n : k <= i => x.key < g[i].key
  <2>1. SUFFICES ASSUME NEW i \in 1 .. n, k <= i PROVE x.key < g[i].key
    OBVIOUS
  <2>2. k \in 1 .. n /\ x.key < g[k].key
    BY <1>2, <1>3, <2>1
  <2>3. k = i \/ g[k].key < g[i].key
    BY <2>1, <2>2 DEF Ascends
  <2>4. QED
    BY <1>4, <2>2, <2>3
<1>7. \A i, j \in 1 .. n : i < j => g[i].key < g[j].key
  BY DEF Ascends
<1>8. h \in [1 .. n + 1 -> V \cup {x}]
  <2>1. \A i \in 1 .. n + 1 : /\ i < k => i \in 1 .. n
                              /\ ~(i < k) /\ i # k => i - 1 \in 1 .. n
    BY <1>3
  <2>2. QED
    BY <1>4, <2>1
<1> HIDE DEF above
<1>9. ASSUME NEW i \in 1 .. n + 1, NEW j \in 1 .. n + 1, i < j
      PROVE  h[i].key < h[j].key
  <2>1. CASE j < k
    BY <1>3, <1>7, <1>9, <2>1
  <2>2. CASE j = k
    BY <1>3, <1>5, <1>9, <2>2
  <2>3. CASE j > k /\ i < k
    <3>1. i \in 1 .. n /\ j - 1 \in 1 .. n /\ i < k /\ k <= j - 1
      BY <1>3, <2>3
    <3>2. g[i].key < x.key /\ x.key < g[j - 1].key
      BY <1>5, <1>6, <3>1
    <3>3. g[i].key < g[j - 1].key
      BY <1>4, <3>1, <3>2
    <3>4. QED
      BY <1>3, <2>3, <3>3
  <2>4. CASE j > k /\ i = k
    BY <1>3, <1>6, <2>4
  <2>5. CASE j > k /\ i > k
    <3>1. i - 1 \in 1 .. n /\ j - 1 \in 1 .. n /\ i - 1 < j - 1
      BY <1>3, <1>9, <2>5
    <3>2. g[i - 1].key < g[j - 1].key
      BY <1>7, <3>1
    <3>3. QED
      BY <1>3, <2>5, <3>2
  <2>6. QED
    BY <1>3, <2>1, <2>2, <2>3, <2>4, <2>5
<1>10. Ascends(h)
  BY <1>8, <1>9 DEF Ascends
<1>11. QED
  BY <1>8, <1>10

(* Items of distinct keys can be put in order.                             *)
LEMMA Sortable ==
  ASSUME NEW n \in Nat, NEW f \in [1 .. n -> [key : Nat, val : Nat]],
         \A i, j \in 1 .. n : i # j => f[i].key # f[j].key
  PROVE  \E g \in [1 .. n -> {f[i] : i \in 1 .. n}] : Ascends(g)
<1> DEFINE V(k) == {f[i] : i \in 1 .. k}
           T == {k \in Nat : k <= n => \E g \in [1 .. k -> V(k)] : Ascends(g)}
<1>1. 0 \in T
  <2>1. [i \in 1 .. 0 |-> f[i]] \in [1 .. 0 -> V(0)] /\ Ascends([i \in 1 .. 0 |-> f[i]])
    BY DEF Ascends
  <2>2. QED
    BY <2>1
<1>2. ASSUME NEW k \in Nat, k \in T
      PROVE  k + 1 \in T
  <2>1. SUFFICES ASSUME k + 1 <= n
                 PROVE  \E h \in [1 .. k + 1 -> V(k + 1)] : Ascends(h)
    BY k + 1 \in Nat
  <2>2. PICK g \in [1 .. k -> V(k)] : Ascends(g)
    BY <1>2, <2>1
  <2>3. \A v \in V(k) : v.key \in Nat /\ v.key # f[k + 1].key
    BY <2>1
  <2>4. V(k + 1) = V(k) \cup {f[k + 1]}
    <3>1. 1 .. k + 1 = (1 .. k) \cup {k + 1}
      OBVIOUS
    <3>2. QED
      BY <3>1
  <2>5. f[k + 1].key \in Nat
    BY <2>1
  <2> HIDE DEF V
  <2>6. \E h \in [1 .. k + 1 -> V(k) \cup {f[k + 1]}] : Ascends(h)
    BY <2>2, <2>3, <2>5, SortedWith
  <2>7. QED
    BY <2>4, <2>6
<1> HIDE DEF T
<1>3. Nat \subseteq T
  BY <1>1, <1>2, SetInduction
<1>4. n \in T
  BY <1>3
<1>5. QED
  BY <1>4 DEF T

(* Numbers that differ are in order.                                       *)
LEMMA Linear ==
  ASSUME NEW a \in Int, NEW b \in Int, a # b, ~(a < b)
  PROVE  b < a
OBVIOUS

(* The order of keys has no equals both ways.                              *)
LEMMA Asymmetric ==
  ASSUME NEW a \in Int, NEW b \in Int, a < b
  PROVE  ~(b < a) /\ a # b
OBVIOUS

(* Items that ascend have distinct keys.                                   *)
LEMMA AscendingDistinct ==
  ASSUME NEW n \in Nat, NEW f, DOMAIN f = 1 .. n, Ascends(f),
         \A i \in 1 .. n : f[i].key \in Nat
  PROVE  \A i, j \in 1 .. n : i # j => f[i].key # f[j].key
<1>1. SUFFICES ASSUME NEW i \in 1 .. n, NEW j \in 1 .. n, i # j
               PROVE  f[i].key # f[j].key
  OBVIOUS
<1>2. f[i].key \in Int /\ f[j].key \in Int
  OBVIOUS
<1>3. CASE i < j
  <2>1. f[i].key < f[j].key
    BY <1>1, <1>3 DEF Ascends
  <2>2. QED
    BY <1>2, <2>1, Asymmetric
<1>4. CASE j < i
  <2>1. f[j].key < f[i].key
    BY <1>1, <1>4 DEF Ascends
  <2>2. QED
    BY <1>2, <2>1, Asymmetric
<1>5. QED
  BY <1>1, <1>3, <1>4

(* Items are in order in one way only.                                       *)
LEMMA SortedOnce ==
  ASSUME NEW n \in Nat, NEW V, \A v \in V : v.key \in Nat,
         NEW f \in [1 .. n -> V], Ascends(f), f \in Surjection(1 .. n, V),
         NEW g \in [1 .. n -> V], Ascends(g)
  PROVE  Cardinality(V) = n /\ g = f
<1>1. \A i, j \in 1 .. n : i < j => f[i].key < f[j].key /\ g[i].key < g[j].key
  BY DEF Ascends
<1>2. \A i \in 1 .. n : f[i].key \in Nat /\ g[i].key \in Nat /\ f[i] \in V /\ g[i] \in V
  OBVIOUS
<1>3. \A i, j \in 1 .. n : i # j => f[i].key # f[j].key /\ g[i].key # g[j].key
  <2>1. DOMAIN f = 1 .. n /\ DOMAIN g = 1 .. n
    OBVIOUS
  <2>2. /\ \A i \in 1 .. n : f[i].key \in Nat
        /\ \A i \in 1 .. n : g[i].key \in Nat
    BY <1>2
  <2>3. \A i, j \in 1 .. n : i # j => f[i].key # f[j].key
    BY <2>1, <2>2, AscendingDistinct
  <2>4. \A i, j \in 1 .. n : i # j => g[i].key # g[j].key
    BY <2>1, <2>2, AscendingDistinct
  <2>5. QED
    BY <2>3, <2>4
<1>4. IsFiniteSet(1 .. n) /\ Cardinality(1 .. n) = n
  <2>1. 1 \in Int /\ n \in Int /\ (IF 1 > n THEN 0 ELSE n - 1 + 1) = n
    OBVIOUS
  <2>2. QED
    BY <2>1, FS_Interval
<1>5. f \in Injection(1 .. n, V) /\ g \in Injection(1 .. n, V)
  BY <1>3 DEF Injection, IsInjective
<1>6. f \in Surjection(1 .. n, V)
  OBVIOUS
<1>7. IsFiniteSet(V) /\ Cardinality(V) = n
  BY <1>4, <1>5, <1>6, FS_Surjection
<1>8. g \in Surjection(1 .. n, V)
  BY <1>4, <1>5, <1>7, FS_Injection
<1>9. \A v \in V : \E i \in 1 .. n : g[i] = v
  BY <1>8 DEF Surjection
<1> DEFINE D == {i \in 1 .. n : f[i] # g[i]}
<1>10. D = {}
  <2>1. SUFFICES ASSUME D # {} PROVE FALSE
    OBVIOUS
  <2>2. D \in SUBSET Nat
    OBVIOUS
  <2>3. PICK i \in D : \A j \in D : i <= j
    BY <2>1, <2>2, LeastNatural
  <2>4. i \in 1 .. n /\ f[i] # g[i] /\ \A j \in 1 .. n : j < i => f[j] = g[j]
    BY <2>3
  <2> HIDE DEF D
  <2>5. PICK a \in 1 .. n : f[a] = g[i]
    BY <1>2, <1>6, <2>4 DEF Surjection
  <2>6. PICK b \in 1 .. n : g[b] = f[i]
    BY <1>2, <1>9, <2>4
  <2>7. a # i /\ b # i
    BY <2>4, <2>5, <2>6
  <2>8. ~(a < i)
    <3>1. SUFFICES ASSUME a < i PROVE FALSE
      OBVIOUS
    <3>2. g[a] = g[i]
      BY <2>4, <2>5, <3>1
    <3>3. QED
      BY <1>3, <2>4, <2>7, <3>2
  <2>9. ~(b < i)
    <3>1. SUFFICES ASSUME b < i PROVE FALSE
      OBVIOUS
    <3>2. f[b] = f[i]
      BY <2>4, <2>6, <3>1
    <3>3. QED
      BY <1>3, <2>4, <2>7, <3>2
  <2>10. i < a /\ i < b
    <3>1. i \in Int /\ a \in Int /\ b \in Int
      BY <2>4
    <3>2. QED
      BY <2>7, <2>8, <2>9, <3>1, Linear
  <2>11. f[i].key < g[i].key /\ g[i].key < f[i].key
    BY <1>1, <2>4, <2>5, <2>6, <2>10
  <2>12. f[i].key \in Int /\ g[i].key \in Int
    <3>1. \A k \in Nat : k \in Int
      OBVIOUS
    <3>2. f[i].key \in Nat /\ g[i].key \in Nat
      BY <1>2, <2>4, Zenon
    <3>3. QED
      BY <3>1, <3>2, Zenon
  <2>13. QED
    BY <2>11, <2>12, Asymmetric
<1>11. \A i \in 1 .. n : f[i] = g[i]
  BY <1>10
<1> HIDE DEF D
<1>12. g = f
  <2>1. f \in [1 .. n -> V] /\ g \in [1 .. n -> V]
    OBVIOUS
  <2>2. f = [i \in 1 .. n |-> f[i]] /\ g = [i \in 1 .. n |-> g[i]]
    BY <2>1, Zenon
  <2>3. QED
    BY <1>11, <2>2, Zenon
<1>13. QED
  BY <1>7, <1>12

-----------------------------------------------------------------------------
(* What is accepted.  The second invariant follows how far the items were  *)
(* read, what the collection holds of them, and the canonicity found.      *)

Taken == IF Region THEN inner ELSE read

Climbs(n) == \A i, j \in 1 .. n : i < j => Met[i].key < Met[j].key

(* A canonicity is that of the first items if it is the least of theirs,   *)
(* and if keys that do not ascend have made it NotCanonical.               *)
Measures(c, n) ==
  IF Keyed(type) /\ ~Climbs(n) THEN c = NotCanonical
  ELSE /\ c = Canonical \/ \E i \in 1 .. n : c = Met[i].canon
       /\ \A i \in 1 .. n : c <= Met[i].canon

(* A decoder that returned gives an empty collection the lowest.           *)
Passed ==
  Usual /\ min # Relaxed =>
    IF outcome = "ok"
    THEN \E c \in NotCanonical .. Canonical :
           Measures(c, Taken) /\ canon = IF IsEmpty THEN NotCanonical ELSE c
    ELSE Measures(canon, Taken)

(* What a collection is that holds the first items.                        *)
Collected(v, n) ==
  IF Keyed(type)
  THEN /\ v = {Plain(Met[i]) : i \in 1 .. n}
       /\ \A i, j \in 1 .. n : i # j => Met[i].key # Met[j].key
  ELSE v = [i \in 1 .. n |-> Plain(Met[i])]

Started == at \in {"item", "peek", "region", "done"} \/ outcome = "ok"

Place ==
  /\ at = "start" => read = 0 /\ inner = 0 /\ canon = Canonical
  /\ Started =>
       /\ Tolerated
       /\ IF Region
          THEN /\ at \notin {"item", "peek"} /\ keys = 1
               /\ at = "done" \/ outcome = "ok" =>
                    inner = Len(fields[1].items) /\ ~fields[1].ragged
               /\ at = "done" => read = keys
          ELSE /\ at # "region" /\ type.shape # "map"
               /\ \A i \in 1 .. keys : fields[i].wire = type.item
               /\ read = IF at = "item" THEN keys - 1 ELSE keys
               /\ at = "done" => keys = Len(fields)
  /\ outcome = "ok" =>
       keys = Len(fields) /\ (~Usual \/ IsEmpty => canon = NotCanonical) /\ canon >= min

Refused == outcome \notin {"none", "ok"} => ~Acceptable

Tracks == Place /\ Collected(value, Taken) /\ Passed /\ Refused

(* The items met, where they are of the type.                              *)
LEMMA MetItems ==
  ASSUME CallOK
  PROVE  /\ Len(Met) \in Nat /\ DOMAIN Met = 1 .. Len(Met)
         /\ Region => /\ Met = fields[1].items /\ Met \in Seq(Items)
                      /\ \A i \in 1 .. Len(Met) : Met[i] \in Items
         /\ ~Region =>
              /\ Len(Met) = Len(fields)
              /\ \A i \in 1 .. Len(fields) : Met[i] = fields[i].items[1]
              /\ fields[1].wire = type.item =>
                   \A i \in 1 .. Len(fields) :
                     fields[i].wire = type.item => Met[i] \in Items
<1>1. fields \in Seq(Fields) /\ Len(fields) >= 1 /\ Len(fields) \in Nat
  BY CallFacts
<1>2. CASE Region
  <2>1. fields[1] \in Fields
    BY <1>1
  <2>2. Met = fields[1].items /\ Met \in Seq(Items)
    BY <1>2, <2>1 DEF Met, Fields
  <2>3. QED
    BY <1>2, <2>2
<1>3. CASE ~Region
  <2>1. Met = [i \in 1 .. Len(fields) |-> fields[i].items[1]]
    BY <1>3 DEF Met
  <2>2. Len(Met) = Len(fields) /\ DOMAIN Met = 1 .. Len(fields)
    BY <1>1, <2>1
  <2>3. \A i \in 1 .. Len(fields) : Met[i] = fields[i].items[1]
    BY <2>1
  <2>4. ASSUME fields[1].wire = type.item, NEW i \in 1 .. Len(fields),
               fields[i].wire = type.item
        PROVE  Met[i] \in Items
    <3>1. ~IsRegion(type, fields[i].wire)
      BY <1>3, <2>4 DEF Region
    <3>2. QED
      BY <2>3, <2>4, <3>1, ItemOfField
  <2>5. QED
    BY <1>1, <1>3, <2>2, <2>3, <2>4
<1>4. QED
  BY <1>2, <1>3

(* The items met in well-formed fields are items of the model.             *)
LEMMA WellFormedItems ==
  ASSUME CallOK, WellFormed
  PROVE  /\ Len(Met) \in Nat /\ DOMAIN Met = 1 .. Len(Met)
         /\ \A i \in 1 .. Len(Met) : Met[i] \in Items
<1>1. CASE Region
  BY <1>1, MetItems
<1>2. CASE ~Region
  <2>1. \A i \in 1 .. Len(fields) : fields[i].wire = type.item
    BY <1>2 DEF WellFormed
  <2>2. 1 \in 1 .. Len(fields)
    BY CallFacts
  <2>3. QED
    BY <1>2, <2>1, <2>2, MetItems
<1>3. QED
  BY <1>1, <1>2

(* Lowest is the least canonicity there is among the items.                *)
LEMMA LowestIsLeast ==
  ASSUME \A i \in 1 .. Len(Met) : Met[i] \in Items
  PROVE  /\ Lowest \in NotCanonical .. Canonical
         /\ Lowest = Canonical \/ \E i \in 1 .. Len(Met) : Lowest = Met[i].canon
         /\ \A i \in 1 .. Len(Met) : Lowest <= Met[i].canon
<1> DEFINE canons == {Canonical} \cup {Met[i].canon : i \in 1 .. Len(Met)}
<1>1. canons \in SUBSET Nat /\ canons \subseteq NotCanonical .. Canonical
  BY DEF Items, NotCanonical, Canonical
<1>2. \E c \in canons : \A d \in canons : c <= d
  BY <1>1, LeastNatural
<1>3. Lowest \in canons /\ \A d \in canons : Lowest <= d
  BY <1>2 DEF Lowest
<1>4. QED
  BY <1>1, <1>3

(* A canonicity of all items is the lowest of them, unless keys descend.  *)
LEMMA MeasuredLowest ==
  ASSUME NEW c \in NotCanonical .. Canonical, Measures(c, Len(Met)),
         \A i \in 1 .. Len(Met) : Met[i] \in Items
  PROVE  c = IF Keyed(type) /\ ~Climbs(Len(Met)) THEN NotCanonical ELSE Lowest
<1>1. CASE Keyed(type) /\ ~Climbs(Len(Met))
  BY <1>1 DEF Measures
<1>2. CASE ~(Keyed(type) /\ ~Climbs(Len(Met)))
  <2>1. /\ c = Canonical \/ \E i \in 1 .. Len(Met) : c = Met[i].canon
        /\ \A i \in 1 .. Len(Met) : c <= Met[i].canon
    BY <1>2 DEF Measures
  <2>2. /\ Lowest \in NotCanonical .. Canonical
        /\ Lowest = Canonical \/ \E i \in 1 .. Len(Met) : Lowest = Met[i].canon
        /\ \A i \in 1 .. Len(Met) : Lowest <= Met[i].canon
    BY LowestIsLeast
  <2>3. c <= Lowest
    BY <2>1, <2>2 DEF NotCanonical, Canonical
  <2>4. Lowest <= c
    BY <2>1, <2>2 DEF NotCanonical, Canonical
  <2>5. c = Lowest
    BY <2>2, <2>3, <2>4 DEF NotCanonical, Canonical
  <2>6. QED
    BY <1>2, <2>5
<1>3. QED
  BY <1>1, <1>2

(* The keys of what was collected.                                         *)
LEMMA CollectedKeys ==
  ASSUME NEW n, Keyed(type), Collected(value, n)
  PROVE  /\ \A i \in 1 .. n : Plain(Met[i]) \in value /\ Plain(Met[i]).key = Met[i].key
         /\ \A v \in value : \E i \in 1 .. n : v.key = Met[i].key
BY DEF Collected, Plain

(* An item that is taken is the next of the collection.                    *)
LEMMA TakeCollects ==
  ASSUME IInv, NEW n \in Nat, Collected(value, n), NEW item \in Items,
         item = Met[n + 1], TakeItem(item)
  PROVE  Collected(value', n + 1)
<1>1. value' = With(item) /\ Insertion(item).error = "none"
  BY DEF TakeItem, ItemError
<1>2. CASE Keyed(type)
  <2>1. value = {Plain(Met[i]) : i \in 1 .. n} /\ value' = value \cup {Plain(item)}
    BY <1>1, <1>2 DEF Collected, With
  <2>2. 1 .. n + 1 = (1 .. n) \cup {n + 1}
    OBVIOUS
  <2>3. value' = {Plain(Met[i]) : i \in 1 .. n + 1}
    BY <2>1, <2>2
  <2>4. value \subseteq [key : Nat, val : Nat] /\ HasGreatest
    BY <1>2 DEF IInv, TypeOK
  <2>5. \A v \in value : v.key # item.key
    BY <1>1, <1>2, <2>4, InsertionFinds
  <2>6. \A i \in 1 .. n : Met[i].key # Met[n + 1].key
    BY <1>2, <2>5, CollectedKeys
  <2>7. \A i, j \in 1 .. n : i # j => Met[i].key # Met[j].key
    BY <1>2 DEF Collected
  <2>8. \A i, j \in 1 .. n + 1 : i # j => Met[i].key # Met[j].key
    BY <2>2, <2>6, <2>7, Zenon
  <2>9. QED
    BY <1>2, <2>3, <2>8 DEF Collected
<1>3. CASE ~Keyed(type)
  <2>1. /\ value = [i \in 1 .. n |-> Plain(Met[i])]
        /\ value' = Append(value, Plain(item))
        /\ value \in Seq([key : Nat, val : Nat])
    BY <1>1, <1>3 DEF Collected, With, IInv, TypeOK
  <2>2. Len(value) = n
    BY <2>1
  <2>3. value' = [i \in 1 .. n + 1 |-> Plain(Met[i])]
    <3>1. Plain(item) \in [key : Nat, val : Nat]
      BY DEF Plain, Items
    <3>2. /\ value' \in Seq([key : Nat, val : Nat]) /\ Len(value') = n + 1
          /\ \A i \in 1 .. n : value'[i] = value[i]
          /\ value'[n + 1] = Plain(item)
      BY <2>1, <2>2, <3>1, AppendProperties
    <3>3. \A i \in 1 .. n + 1 : value'[i] = Plain(Met[i])
      BY <2>1, <3>2
    <3>4. QED
      BY <3>2, <3>3
  <2>4. QED
    BY <1>3, <2>3 DEF Collected
<1>4. QED
  BY <1>2, <1>3

(* Distinguished insertion lowers the canonicity exactly where keys stop   *)
(* to ascend.                                                              *)
LEMMA InsertionRanks ==
  ASSUME IInv, NEW n \in Nat, Collected(value, n), NEW item \in Items,
         item = Met[n + 1], Keyed(type), Context # Relaxed,
         Insertion(item).error = "none"
  PROVE  /\ Insertion(item).canon \in {NotCanonical, Canonical}
         /\ Insertion(item).canon = NotCanonical => ~Climbs(n + 1)
         /\ Insertion(item).canon = Canonical /\ Climbs(n) => Climbs(n + 1)
<1>1. Insertion(item) = InsertDistinguished(item)
  BY DEF Insertion
<1>2. /\ value \subseteq [key : Nat, val : Nat] /\ HasGreatest
      /\ item.key \in Nat
  BY DEF IInv, TypeOK, Items
<1>3. /\ \A i \in 1 .. n : Plain(Met[i]) \in value /\ Plain(Met[i]).key = Met[i].key
      /\ \A v \in value : \E i \in 1 .. n : v.key = Met[i].key
  BY CollectedKeys
<1>4. \A i \in 1 .. n : Met[i].key \in Nat
  BY <1>2, <1>3
<1>5. CASE value = {}
  <2>1. Insertion(item).canon = Canonical
    BY <1>1, <1>5 DEF InsertDistinguished
  <2>2. n = 0
    <3>1. \A i \in 1 .. n : FALSE
      BY <1>3, <1>5
    <3>2. n # 0 => 1 \in 1 .. n
      OBVIOUS
    <3>3. QED
      BY <3>1, <3>2
  <2>3. Climbs(n + 1)
    BY <2>2 DEF Climbs
  <2>4. QED
    BY <2>1, <2>3 DEF Canonical, NotCanonical
<1>6. CASE value # {}
  <2>1. Greatest \in value /\ \A v \in value : Greatest.key >= v.key
    BY <1>2, <1>6, GreatestIs
  <2>2. PICK g \in 1 .. n : Greatest.key = Met[g].key
    BY <1>3, <2>1
  <2>3. \A i \in 1 .. n : Met[g].key >= Met[i].key
    BY <1>3, <2>1, <2>2
  <2>4. CASE item.key > Met[g].key
    <3>1. Insertion(item).canon = Canonical
      BY <1>1, <2>2, <2>4 DEF InsertDistinguished
    <3>2. \A i \in 1 .. n : Met[i].key < Met[n + 1].key
      <4>1. SUFFICES ASSUME NEW i \in 1 .. n PROVE Met[i].key < Met[n + 1].key
        OBVIOUS
      <4>2. Met[g].key >= Met[i].key /\ Met[g].key \in Nat /\ Met[i].key \in Nat
        BY <1>4, <2>2, <2>3, <4>1
      <4>3. QED
        BY <1>2, <2>4, <4>2
    <3>3. ASSUME Climbs(n) PROVE Climbs(n + 1)
      <4>1. SUFFICES ASSUME NEW i \in 1 .. n + 1, NEW j \in 1 .. n + 1, i < j
                     PROVE  Met[i].key < Met[j].key
        BY DEF Climbs
      <4>2. CASE j = n + 1
        BY <3>2, <4>1, <4>2
      <4>3. CASE j # n + 1
        <5>1. i \in 1 .. n /\ j \in 1 .. n
          BY <4>1, <4>3
        <5>2. QED
          BY <3>3, <4>1, <5>1 DEF Climbs
      <4>4. QED
        BY <4>2, <4>3
    <3>4. QED
      BY <3>1, <3>3 DEF Canonical, NotCanonical
  <2>5. CASE ~(item.key > Met[g].key)
    <3>1. item.key # Met[g].key
      BY <1>1, <1>6, <2>2, <2>5 DEF InsertDistinguished
    <3>2. Insertion(item).canon = NotCanonical
      BY <1>1, <1>6, <2>2, <2>5, <3>1 DEF InsertDistinguished
    <3>3. ~(Met[g].key < Met[n + 1].key)
      BY <1>2, <1>4, <2>2, <2>5
    <3>4. ~Climbs(n + 1)
      <4>1. g \in 1 .. n + 1 /\ n + 1 \in 1 .. n + 1 /\ g < n + 1
        BY <2>2
      <4>2. QED
        BY <3>3, <4>1 DEF Climbs
    <3>5. QED
      BY <3>2, <3>4 DEF Canonical, NotCanonical
  <2>6. QED
    BY <2>4, <2>5
<1>7. QED
  BY <1>5, <1>6

(* The canonicity stays that of the items taken.                           *)
LEMMA TakeMeasures ==
  ASSUME IInv, NEW n \in Nat, Collected(value, n), NEW item \in Items,
         item = Met[n + 1], TakeItem(item), Context # Relaxed,
         Measures(canon, n), \A i \in 1 .. n : Met[i] \in Items
  PROVE  Measures(canon', n + 1)
<1> USE DEF NotCanonical, Canonical
<1>1. /\ canon \in 1 .. 3 /\ item.canon \in 1 .. 3 /\ Insertion(item).canon \in 1 .. 3
      /\ canon' = Lower(Lower(canon, item.canon), Insertion(item).canon)
      /\ Insertion(item).error = "none"
  BY InsertionCanon DEF IInv, TypeOK, Items, TakeItem, ItemError
<1>2. 1 .. n + 1 = (1 .. n) \cup {n + 1}
  OBVIOUS
<1>3. Climbs(n + 1) => Climbs(n)
  BY <1>2 DEF Climbs
<1>4. CASE Keyed(type) /\ ~Climbs(n + 1)
  <2>1. canon = NotCanonical \/ Insertion(item).canon = NotCanonical
    <3>1. CASE Climbs(n)
      BY <1>1, <1>4, <3>1, InsertionRanks
    <3>2. CASE ~Climbs(n)
      BY <1>4, <3>2 DEF Measures
    <3>3. QED
      BY <3>1, <3>2
  <2>2. canon' = NotCanonical
    BY <1>1, <2>1 DEF Lower
  <2>3. QED
    BY <1>4, <2>2 DEF Measures
<1>5. CASE ~(Keyed(type) /\ ~Climbs(n + 1))
  <2>1. Insertion(item).canon = Canonical
    <3>1. CASE Keyed(type)
      BY <1>1, <1>5, <3>1, InsertionRanks
    <3>2. CASE ~Keyed(type)
      BY <3>2 DEF Insertion, InsertDistinguished
    <3>3. QED
      BY <3>1, <3>2
  <2>2. canon' = Lower(canon, item.canon)
    BY <1>1, <2>1 DEF Lower
  <2>3. /\ canon = Canonical \/ \E i \in 1 .. n : canon = Met[i].canon
        /\ \A i \in 1 .. n : canon <= Met[i].canon
    BY <1>3, <1>5 DEF Measures
  <2>4. canon' = canon \/ canon' = Met[n + 1].canon
    BY <2>2 DEF Lower
  <2>5. canon' = Canonical \/ \E i \in 1 .. n + 1 : canon' = Met[i].canon
    BY <1>2, <2>3, <2>4
  <2>6. canon' <= canon /\ canon' <= Met[n + 1].canon /\ canon' \in 1 .. 3
    BY <1>1, <2>2 DEF Lower
  <2>7. ASSUME NEW i \in 1 .. n PROVE canon' <= Met[i].canon
    <3>1. Met[i].canon \in 1 .. 3
      BY <2>7 DEF Items
    <3>2. QED
      BY <1>1, <2>3, <2>6, <2>7, <3>1
  <2>8. \A i \in 1 .. n + 1 : canon' <= Met[i].canon
    BY <1>2, <2>6, <2>7
  <2>9. QED
    BY <1>5, <2>5, <2>8 DEF Measures
<1>6. QED
  BY <1>4, <1>5

(* In an acceptable field no item is below what the context asks for, and  *)
(* the whole is in form where more than NotCanonical is asked for.         *)
LEMMA AcceptableBounds ==
  ASSUME CallOK, Acceptable
  PROVE  /\ \A i \in 1 .. Len(Met) : Met[i] \in Items /\ Met[i].canon >= Context
         /\ Context > NotCanonical => InForm
<1> USE DEF NotCanonical, Canonical, Relaxed
<1>1. \A i \in 1 .. Len(Met) : Met[i] \in Items
  BY WellFormedItems DEF Acceptable
<1>2. /\ Lowest \in 1 .. 3 /\ \A i \in 1 .. Len(Met) : Lowest <= Met[i].canon
  BY <1>1, LowestIsLeast
<1>3. min \in 0 .. 3 /\ Context \in 0 .. 3 /\ Context <= min
  BY CallFacts, ContextRange
<1>4. (IF InForm THEN Lowest ELSE 1) >= min
  BY DEF Acceptable
<1>5. ASSUME NEW i \in 1 .. Len(Met) PROVE Met[i].canon >= Context
  <2>1. Met[i].canon \in 1 .. 3 /\ Lowest <= Met[i].canon
    BY <1>1, <1>2 DEF Items
  <2>2. QED
    BY <1>3, <1>4, <1>2, <2>1
<1>6. Context > 1 => InForm
  BY <1>3, <1>4
<1>7. QED
  BY <1>1, <1>5, <1>6

(* An item that is refused is not that of an acceptable field.             *)
LEMMA ItemRefused ==
  ASSUME IInv, NEW n \in Nat, Collected(value, n), n + 1 \in 1 .. Len(Met),
         ItemError(Met[n + 1]) # "none"
  PROVE  ~Acceptable
<1> USE DEF NotCanonical, Canonical, Relaxed
<1> DEFINE item == Met[n + 1]
<1>1. SUFFICES ASSUME Acceptable PROVE FALSE
  OBVIOUS
<1>2. CallOK /\ WellFormed /\ HasGreatest
  BY <1>1 DEF IInv, Acceptable
<1>3. /\ Len(Met) \in Nat /\ DOMAIN Met = 1 .. Len(Met)
      /\ \A i \in 1 .. Len(Met) : Met[i] \in Items
  BY <1>2, WellFormedItems
<1>4. item \in Items /\ item.canon >= Context /\ (Context > 1 => InForm)
  BY <1>1, <1>2, AcceptableBounds
<1>5. /\ Context \in 0 .. 3 /\ item.canon \in 1 .. 3 /\ item.key \in Nat
      /\ Insertion(item).canon \in 1 .. 3
  BY <1>2, <1>4, CallFacts, ContextRange, InsertionCanon DEF Items
<1>6. CheckError(item.canon, Context) = "none"
  BY <1>4, <1>5, CheckSilent
<1>7. Keyed(type) => \A i \in 1 .. n : Met[i].key # item.key
  <2>1. SUFFICES ASSUME Keyed(type), NEW i \in 1 .. n PROVE Met[i].key # item.key
    OBVIOUS
  <2>2. i \in 1 .. Len(Met) /\ i # n + 1
    BY <1>3
  <2>3. QED
    BY <1>2, <2>1, <2>2 DEF WellFormed
<1>8. Keyed(type) => \A v \in value : v.key # item.key
  BY <1>7, CollectedKeys
<1>9. Insertion(item).error = "none"
  <2>1. Insert(item) = "none"
    BY <1>8 DEF Insert, Holds
  <2>2. Keyed(type) /\ value # {} => Greatest.key # item.key
    BY <1>2, <1>8, GreatestIs
  <2>3. QED
    BY <2>1, <2>2 DEF Insertion, InsertDistinguished
<1>10. Insertion(item).canon < Context
  BY <1>5, <1>6, <1>9, CheckSilent DEF ItemError
<1>11. Keyed(type) /\ Context # Relaxed /\ InForm
  <2>1. Insertion(item).canon # 3 /\ Context > 1
    BY <1>5, <1>10
  <2>2. Keyed(type)
    BY <2>1 DEF Insertion, InsertDistinguished
  <2>3. QED
    BY <1>4, <2>1, <2>2
<1>12. Insertion(item).canon = NotCanonical
  BY <1>4, <1>5, <1>9, <1>10, <1>11, InsertionRanks
<1>13. ~Climbs(n + 1)
  BY <1>4, <1>9, <1>11, <1>12, InsertionRanks
<1>14. Climbs(n + 1)
  <2>1. \A i, j \in 1 .. Len(Met) : i < j => Met[i].key < Met[j].key
    BY <1>3, <1>11 DEF InForm, Ascends
  <2>2. \A i \in 1 .. n + 1 : i \in 1 .. Len(Met)
    BY <1>3
  <2>3. QED
    BY <2>1, <2>2 DEF Climbs
<1>15. QED
  BY <1>13, <1>14

-----------------------------------------------------------------------------
(* The steps again.                                                        *)

(* What depends on the call alone stays as it is.                          *)
LEMMA CallStays ==
  ASSUME UNCHANGED call
  PROVE  /\ UNCHANGED <<type, min, fields>>
         /\ Region' = Region /\ Usual' = Usual /\ Tolerated' = Tolerated
         /\ Met' = Met /\ Acceptable' = Acceptable
         /\ \A c, n : Measures(c, n)' <=> Measures(c, n)
         /\ \A v, n : Collected(v, n)' <=> Collected(v, n)
<1>1. UNCHANGED <<type, min, fields>>
  BY DEF call
<1>2. /\ Region' = Region /\ Usual' = Usual /\ Tolerated' = Tolerated
      /\ Met' = Met
  BY <1>1 DEF Region, Usual, Tolerated, Met
<1>3. WellFormed' = WellFormed /\ InForm' = InForm /\ Lowest' = Lowest
  BY <1>1, <1>2 DEF WellFormed, InForm, Lowest
<1>4. Acceptable' = Acceptable
  BY <1>1, <1>3 DEF Acceptable
<1>5. \A c, n : Measures(c, n)' <=> Measures(c, n)
  BY <1>1, <1>2 DEF Measures, Climbs
<1>6. \A v, n : Collected(v, n)' <=> Collected(v, n)
  BY <1>1, <1>2 DEF Collected
<1>7. QED
  BY <1>1, <1>2, <1>4, <1>5, <1>6

(* An error is right where the field is not acceptable.                    *)
LEMMA FailTracks ==
  ASSUME IInv, Tracks, outcome = "none", NEW kind, Fail(kind),
         kind \notin {"none", "ok"}, ~Acceptable
  PROVE  Tracks'
<1>1. /\ UNCHANGED <<call, keys, read, inner, value, canon>> /\ at' = "end"
      /\ outcome' = kind
  BY DEF Fail
<1>2. /\ UNCHANGED <<type, min, fields>>
      /\ Region' = Region /\ Usual' = Usual /\ Acceptable' = Acceptable
      /\ \A c, n : Measures(c, n)' <=> Measures(c, n)
      /\ \A v, n : Collected(v, n)' <=> Collected(v, n)
  BY <1>1, CallStays
<1>3. Taken' = Taken
  BY <1>1, <1>2 DEF Taken
<1>4. Place' /\ Refused'
  BY <1>1, <1>2 DEF Place, Started, Refused
<1>5. Collected(value, Taken)'
  BY <1>1, <1>2, <1>3, ZenonT(60) DEF Tracks, Collected
<1>6. Passed'
  BY <1>1, <1>2, <1>3, ZenonT(60) DEF Tracks, Passed, Measures
<1>7. QED
  BY <1>4, <1>5, <1>6 DEF Tracks

(* A step to another place of the decoder.                                 *)
LEMMA MoveTracks ==
  ASSUME IInv, Tracks, outcome = "none", UNCHANGED <<call, value, canon, outcome>>,
         Taken' = Taken, Place'
  PROVE  Tracks'
<1>1. /\ Usual' = Usual /\ Met' = Met /\ UNCHANGED <<type, min, fields>>
  BY CallStays
<1>2. Collected(value, Taken)'
  BY <1>1 DEF Tracks, Collected
<1>3. Passed'
  BY <1>1 DEF Tracks, Passed, Measures, Climbs
<1>4. Refused'
  BY DEF Refused
<1>5. QED
  BY <1>2, <1>3, <1>4 DEF Tracks

(* A step that takes the next item.                                        *)
LEMMA TakeTracks ==
  ASSUME IInv, Tracks, outcome = "none", UNCHANGED <<call, outcome>>,
         Taken \in Nat, Taken' = Taken + 1,
         \A i \in 1 .. Taken + 1 : Met[i] \in Items,
         TakeItem(Met[Taken + 1]), Place'
  PROVE  Tracks'
<1> DEFINE item == Met[Taken + 1]
<1>1. /\ Usual' = Usual /\ Met' = Met /\ UNCHANGED <<type, min, fields>>
  BY CallStays
<1>2. item \in Items /\ \A i \in 1 .. Taken : Met[i] \in Items
  OBVIOUS
<1>3. Collected(value', Taken + 1)
  BY <1>2, TakeCollects DEF Tracks
<1>4. Collected(value, Taken)'
  BY <1>1, <1>3 DEF Collected
<1>5. ASSUME Usual, min # Relaxed
      PROVE  Measures(canon', Taken + 1)
  <2>1. Measures(canon, Taken) /\ Collected(value, Taken)
    BY <1>5 DEF Tracks, Passed
  <2>2. Context # Relaxed
    BY <1>5 DEF Context
  <2>3. QED
    BY <1>2, <2>1, <2>2, TakeMeasures
<1>6. Passed'
  <2>1. Usual /\ min # Relaxed => Measures(canon', Taken')
    BY <1>5
  <2>2. Measures(canon', Taken') => Measures(canon, Taken)'
    BY <1>1 DEF Measures, Climbs
  <2>3. QED
    BY <1>1, <2>1, <2>2 DEF Passed
<1>7. Refused'
  BY DEF Refused
<1>8. QED
  BY <1>4, <1>6, <1>7 DEF Tracks

(* Decoding begins with no item.                                           *)
LEMMA InitTracks == Init => Tracks
<1> SUFFICES ASSUME Init PROVE Tracks
  OBVIOUS
<1>1. /\ at = "start" /\ read = 0 /\ inner = 0 /\ canon = Canonical
      /\ outcome = "none" /\ value = IF Keyed(type) THEN {} ELSE <<>>
  BY DEF Init
<1>2. Taken = 0
  BY <1>1 DEF Taken
<1>3. Place /\ Refused
  BY <1>1 DEF Place, Started, Refused
<1>4. Collected(value, 0)
  <2>1. 1 .. 0 = {}
    OBVIOUS
  <2>2. [i \in 1 .. 0 |-> Plain(Met[i])] = <<>>
    OBVIOUS
  <2>3. {Plain(Met[i]) : i \in 1 .. 0} = {}
    BY <2>1
  <2>4. QED
    BY <1>1, <2>1, <2>2, <2>3 DEF Collected
<1>5. Measures(canon, 0)
  <2>1. Climbs(0)
    BY DEF Climbs
  <2>2. \A i \in 1 .. 0 : FALSE
    OBVIOUS
  <2>3. QED
    BY <1>1, <2>1, <2>2 DEF Measures
<1>6. QED
  BY <1>1, <1>2, <1>3, <1>4, <1>5 DEF Tracks, Passed

(* The representation is chosen, or refused.                               *)
LEMMA BeginTracks ==
  ASSUME IInv, Tracks, ~LeavesValue,
         ForeignRepresentation \/ WrongWireType \/ BeginRegion \/ BeginUnpacked
  PROVE  Tracks'
<1>1. /\ at = "start" /\ outcome = "none" /\ keys = 1 /\ CallOK
      /\ read = 0 /\ inner = 0 /\ Len(fields) >= 1 /\ Len(fields) \in Nat
  <2>1. at = "start"
    BY DEF ForeignRepresentation, WrongWireType, BeginRegion, BeginUnpacked
  <2>2. fields \in Seq(Fields) /\ Len(fields) >= 1
    BY CallFacts DEF IInv
  <2>3. QED
    BY <2>1, <2>2 DEF IInv, Progress, Tracks, Place
<1>2. CASE ForeignRepresentation
  <2>1. CheckError(NotCanonical, min) # "none" /\ ~Usual
    BY <1>2 DEF ForeignRepresentation, Tolerated
  <2>2. CheckError(NotCanonical, min) \in {"NotCanonical", "UnknownField"}
    BY <2>1, ErrorKinds
  <2>3. min \in 0 .. 3 /\ ~(NotCanonical >= min)
    BY <1>1, <2>1, CallFacts DEF CheckError
  <2>4. ~Acceptable
    BY <2>1, <2>3 DEF Acceptable, InForm
  <2>5. QED
    BY <1>1, <1>2, <2>2, <2>4, FailTracks DEF ForeignRepresentation
<1>3. CASE WrongWireType
  <2>1. ~Region /\ (type.shape = "map" \/ fields[1].wire # type.item)
    BY <1>3 DEF WrongWireType
  <2>2. ~Acceptable
    BY <1>1, <2>1 DEF Acceptable, WellFormed
  <2>3. QED
    BY <1>1, <1>3, <2>2, FailTracks DEF WrongWireType
<1>4. CASE BeginRegion
  <2>1. Region /\ Tolerated
    BY <1>4 DEF BeginRegion
  <2>2. CASE SizeError # "none"
    <3>1. SizeError \in {"Truncated", "InvalidValue"}
      BY <2>2 DEF SizeError
    <3>2. Met = fields[1].items
      BY <2>1 DEF Met
    <3>3. fields[1].ragged \/ (IsArray(type) /\ Len(Met) # type.size)
      BY <2>2, <3>2 DEF SizeError
    <3>4. ~Acceptable
      BY <2>1, <3>3 DEF Acceptable, WellFormed
    <3>5. QED
      BY <1>1, <1>4, <2>2, <3>1, <3>4, FailTracks DEF BeginRegion
  <2>3. CASE SizeError = "none"
    <3>1. at' = "region" /\ UNCHANGED <<call, keys, read, inner, value, canon, outcome>>
      BY <1>4, <2>3 DEF BeginRegion
    <3>2. Region' /\ Tolerated' /\ Taken' = Taken
      BY <2>1, <3>1, CallStays DEF Taken
    <3>3. Place'
      BY <1>1, <3>1, <3>2 DEF Place, Started
    <3>4. QED
      BY <1>1, <3>1, <3>2, <3>3, MoveTracks
  <2>4. QED
    BY <2>2, <2>3
<1>5. CASE BeginUnpacked
  <2>1. /\ UNCHANGED <<call, keys, read, inner, value, canon, outcome>>
        /\ ~Region /\ Tolerated /\ type.shape # "map" /\ fields[1].wire = type.item
        /\ at' = IF IsArray(type) /\ type.size = 0 THEN "peek" ELSE "item"
    BY <1>5 DEF BeginUnpacked
  <2>2. ~(IsArray(type) /\ type.size = 0)
    BY <2>1 DEF LeavesValue
  <2>3. at' = "item"
    BY <2>1, <2>2
  <2>4. /\ ~Region' /\ Tolerated' /\ Taken' = Taken /\ UNCHANGED <<type, fields>>
    BY <2>1, CallStays DEF Taken
  <2>5. Place'
    BY <1>1, <2>1, <2>3, <2>4 DEF Place, Started
  <2>6. QED
    BY <1>1, <2>1, <2>4, <2>5, MoveTracks
<1>6. QED
  BY <1>2, <1>3, <1>4, <1>5

(* An array that is full holds as many items as were taken.                *)
LEMMA TakenLength ==
  ASSUME CallOK, NEW n \in Nat, Collected(value, n), ~Keyed(type)
  PROVE  Len(value) = n
<1>1. value = [i \in 1 .. n |-> Plain(Met[i])]
  BY DEF Collected
<1>2. QED
  BY <1>1

(* An array is neither a set nor a map.                                    *)
LEMMA ArrayNotKeyed == IsArray(type) => ~Keyed(type)
BY DEF IsArray, Keyed

(* The loop over unpacked items.                                           *)
LEMMA UnpackedTracks ==
  ASSUME IInv, Tracks, UnpackedItem \/ Repeated \/ NotRepeated
  PROVE  Tracks'
<1>1. /\ at \in {"item", "peek"} /\ outcome = "none" /\ CallOK
      /\ keys \in 1 .. Len(fields) /\ Len(fields) \in Nat /\ read \in 0 .. keys
  <2>1. at \in {"item", "peek"}
    BY DEF UnpackedItem, Repeated, NotRepeated
  <2>2. Len(fields) \in Nat
    BY CallFacts DEF IInv
  <2>3. QED
    BY <2>1, <2>2 DEF IInv, Progress, TypeOK
<1>2. /\ Tolerated /\ ~Region /\ type.shape # "map" /\ inner' = inner
      /\ \A i \in 1 .. keys : fields[i].wire = type.item
      /\ read = IF at = "item" THEN keys - 1 ELSE keys
  BY <1>1 DEF Tracks, Place, Started, UnpackedItem, Repeated, NotRepeated, Fail
<1>3. /\ Len(Met) = Len(fields)
      /\ \A i \in 1 .. Len(fields) : Met[i] = fields[i].items[1]
      /\ \A i \in 1 .. keys : Met[i] \in Items
  BY <1>1, <1>2, MetItems
<1>4. Taken = read /\ Collected(value, read)
  BY <1>2 DEF Taken, Tracks
<1>5. CASE UnpackedItem
  <2>1. at = "item" /\ read = keys - 1 /\ keys = read + 1 /\ read \in Nat
    BY <1>1, <1>2, <1>5 DEF UnpackedItem
  <2>2. fields[keys].items[1] = Met[read + 1]
    BY <1>1, <1>3, <2>1
  <2>3. CASE ItemError(Met[read + 1]) # "none" /\ Fail(ItemError(Met[read + 1]))
    <3>1. ~Acceptable
      BY <1>1, <1>3, <1>4, <2>1, <2>3, ItemRefused
    <3>2. ItemError(Met[read + 1]) \notin {"none", "ok"}
      BY <2>3, ErrorKinds
    <3>3. QED
      BY <1>1, <2>3, <3>1, <3>2, FailTracks
  <2>4. CASE /\ TakeItem(Met[read + 1])
             /\ read' = keys /\ at' = "peek"
             /\ UNCHANGED <<call, keys, inner, outcome>>
    <3>1. ~Region' /\ Tolerated' /\ UNCHANGED <<type, fields>>
      BY <1>2, <2>4, CallStays
    <3>2. Taken' = Taken + 1
      BY <1>4, <2>1, <2>4, <3>1 DEF Taken
    <3>3. Place'
      BY <1>1, <1>2, <2>4, <3>1 DEF Place, Started
    <3>4. \A i \in 1 .. Taken + 1 : Met[i] \in Items
      BY <1>3, <1>4, <2>1
    <3>5. QED
      BY <1>1, <1>4, <2>1, <2>4, <3>2, <3>3, <3>4, TakeTracks
  <2>5. QED
    BY <1>5, <2>2, <2>3, <2>4 DEF UnpackedItem
<1>6. CASE Repeated
  <2>1. at = "peek" /\ read = keys /\ keys < Len(fields)
    BY <1>2, <1>6 DEF Repeated, Repeats
  <2>2. CASE Filled
    <3>1. Len(value) = read /\ IsArray(type) /\ Len(value) = type.size
      BY <1>1, <1>4, <2>2, TakenLength, ArrayNotKeyed DEF Filled
    <3>2. Len(Met) # type.size
      BY <1>1, <1>3, <2>1, <3>1
    <3>3. ~Acceptable
      BY <3>1, <3>2 DEF Acceptable, WellFormed
    <3>4. QED
      BY <1>1, <1>6, <2>2, <3>3, FailTracks DEF Repeated
  <2>3. CASE ~Filled /\ fields[keys + 1].wire # type.item
    <3>1. keys + 1 \in 1 .. Len(fields)
      BY <1>1, <2>1
    <3>2. ~Acceptable
      BY <1>2, <2>3, <3>1 DEF Acceptable, WellFormed
    <3>3. QED
      BY <1>1, <1>6, <2>3, <3>2, FailTracks DEF Repeated
  <2>4. CASE ~Filled /\ fields[keys + 1].wire = type.item
    <3>1. /\ keys' = keys + 1 /\ at' = "item"
          /\ UNCHANGED <<call, read, inner, value, canon, outcome>>
      BY <1>6, <2>4 DEF Repeated
    <3>2. ~Region' /\ Tolerated' /\ UNCHANGED <<type, fields>> /\ Taken' = Taken
      BY <1>2, <3>1, CallStays DEF Taken
    <3>3. \A i \in 1 .. keys + 1 : fields[i].wire = type.item
      BY <1>1, <1>2, <2>4
    <3>4. Place'
      BY <1>1, <1>2, <2>1, <3>1, <3>2, <3>3 DEF Place, Started
    <3>5. QED
      BY <1>1, <3>1, <3>2, <3>4, MoveTracks
  <2>5. QED
    BY <2>2, <2>3, <2>4
<1>7. CASE NotRepeated
  <2>1. at = "peek" /\ read = keys /\ keys = Len(fields)
    <3>1. at = "peek" /\ read = keys /\ FALSE \in {keys < Len(fields)}
      BY <1>2, <1>7 DEF NotRepeated, Repeats
    <3>2. ~(keys < Len(fields))
      BY <3>1
    <3>3. QED
      BY <1>1, <3>1, <3>2
  <2>2. CASE IsArray(type) /\ ~Filled
    <3>1. Len(value) = read /\ Len(value) # type.size
      BY <1>1, <1>4, <2>2, TakenLength, ArrayNotKeyed DEF Filled
    <3>2. Len(Met) # type.size
      BY <1>3, <2>1, <3>1
    <3>3. ~Acceptable
      BY <2>2, <3>2 DEF Acceptable, WellFormed
    <3>4. QED
      BY <1>1, <1>7, <2>2, <3>3, FailTracks DEF NotRepeated
  <2>3. CASE ~(IsArray(type) /\ ~Filled)
    <3>1. at' = "done" /\ UNCHANGED <<call, keys, read, inner, value, canon, outcome>>
      BY <1>7, <2>3 DEF NotRepeated
    <3>2. ~Region' /\ Tolerated' /\ UNCHANGED <<type, fields>> /\ Taken' = Taken
      BY <1>2, <3>1, CallStays DEF Taken
    <3>3. Place'
      BY <1>1, <1>2, <2>1, <3>1, <3>2 DEF Place, Started
    <3>4. QED
      BY <1>1, <3>1, <3>2, <3>3, MoveTracks
  <2>4. QED
    BY <2>2, <2>3
<1>8. QED
  BY <1>5, <1>6, <1>7

(* The loop over a region.                                                 *)
LEMMA PackedTracks ==
  ASSUME IInv, Tracks, PackedItem \/ PackedTruncated \/ PackedMiscounted \/ PackedEnd
  PROVE  Tracks'
<1>1. at = "region" /\ outcome = "none" /\ CallOK
  <2>1. at = "region"
    BY DEF PackedItem, PackedTruncated, PackedMiscounted, PackedEnd
  <2>2. QED
    BY <2>1 DEF IInv, Progress
<1>2. Region /\ Tolerated /\ keys = 1
  BY <1>1 DEF Tracks, Place, Started
<1>3. /\ Met = fields[1].items /\ Len(Met) \in Nat
      /\ \A i \in 1 .. Len(Met) : Met[i] \in Items
  BY <1>1, <1>2, MetItems
<1>4. Taken = inner /\ inner \in 0 .. Len(Met) /\ Collected(value, inner)
  BY <1>2, <1>3 DEF Taken, Tracks, IInv, TypeOK
<1>5. IsArray(type) => Len(value) = inner
  BY <1>1, <1>4, TakenLength, ArrayNotKeyed
<1>6. CASE PackedItem
  <2>1. inner < Len(Met)
    BY <1>3, <1>6 DEF PackedItem, HasItem
  <2>2. CASE ItemError(Met[inner + 1]) # "none" /\ Fail(ItemError(Met[inner + 1]))
    <3>1. ~Acceptable
      BY <1>3, <1>4, <2>1, <2>2, ItemRefused
    <3>2. ItemError(Met[inner + 1]) \notin {"none", "ok"}
      BY <2>2, ErrorKinds
    <3>3. QED
      BY <1>1, <2>2, <3>1, <3>2, FailTracks
  <2>3. CASE /\ TakeItem(Met[inner + 1]) /\ inner' = inner + 1
             /\ UNCHANGED <<call, at, keys, read, outcome>>
    <3>1. Region' /\ Tolerated' /\ UNCHANGED <<type, fields>>
      BY <1>2, <2>3, CallStays
    <3>2. Taken' = Taken + 1
      BY <1>4, <2>3, <3>1 DEF Taken
    <3>3. Place'
      BY <1>1, <1>2, <2>3, <3>1 DEF Place, Started
    <3>4. \A i \in 1 .. Taken + 1 : Met[i] \in Items
      BY <1>3, <1>4, <2>1
    <3>5. QED
      BY <1>1, <1>4, <2>3, <3>2, <3>3, <3>4, TakeTracks
  <2>4. QED
    BY <1>3, <1>6, <2>2, <2>3 DEF PackedItem
<1>7. CASE PackedTruncated
  <2>1. ~Acceptable
    BY <1>2, <1>7 DEF PackedTruncated, Acceptable, WellFormed
  <2>2. QED
    BY <1>1, <1>7, <2>1, FailTracks DEF PackedTruncated
<1>8. CASE PackedMiscounted
  <2>1. fields[1].ragged \/ (IsArray(type) /\ Len(Met) # type.size)
    <3>1. IsArray(type) /\ (HasItem <=> inner < Len(Met))
      BY <1>3, <1>8 DEF PackedMiscounted, HasItem
    <3>2. CASE Filled
      BY <1>3, <1>4, <1>5, <1>8, <3>1, <3>2 DEF PackedMiscounted, Filled
    <3>3. CASE ~Filled
      <4>1. Len(value) # type.size /\ ~(inner < Len(Met))
        BY <1>8, <3>1, <3>3 DEF PackedMiscounted, Filled
      <4>2. inner = Len(Met)
        BY <1>3, <1>4, <4>1
      <4>3. QED
        BY <1>5, <3>1, <4>1, <4>2
    <3>4. QED
      BY <3>2, <3>3
  <2>2. ~Acceptable
    BY <1>2, <2>1 DEF Acceptable, WellFormed
  <2>3. QED
    BY <1>1, <1>8, <2>2, FailTracks DEF PackedMiscounted
<1>9. CASE PackedEnd
  <2>1. /\ ~HasItem /\ ~fields[1].ragged /\ at' = "done" /\ read' = 1
        /\ UNCHANGED <<call, keys, inner, value, canon, outcome>>
    BY <1>9 DEF PackedEnd
  <2>2. inner = Len(fields[1].items)
    BY <1>3, <1>4, <2>1 DEF HasItem
  <2>3. Region' /\ Tolerated' /\ UNCHANGED <<type, fields>> /\ Taken' = Taken
    BY <1>2, <2>1, CallStays DEF Taken
  <2>4. Place'
    BY <1>1, <1>2, <2>1, <2>2, <2>3 DEF Place, Started
  <2>5. QED
    BY <1>1, <2>1, <2>3, <2>4, MoveTracks
<1>10. QED
  BY <1>6, <1>7, <1>8, <1>9

(* Whether a collection is empty can be told from its items.               *)
LEMMA EmptyIs ==
  ASSUME CallOK, Collected(value, Len(Met))
  PROVE  IsEmpty <=>
           ~ CASE type.shape = "option" -> TRUE
               [] type.shape = "array" -> \E i \in 1 .. Len(Met) : Plain(Met[i]) # Empty
               [] OTHER -> Met # <<>>
<1>1. Len(Met) \in Nat /\ DOMAIN Met = 1 .. Len(Met)
  BY MetItems
<1>2. Met = <<>> <=> Len(Met) = 0
  <2>1. Region => Met \in Seq(Items)
    BY MetItems
  <2>2. ~Region => Met = [i \in 1 .. Len(fields) |-> fields[i].items[1]]
                   /\ Len(Met) = Len(fields)
    BY MetItems DEF Met
  <2>3. ASSUME ~Region PROVE Len(Met) # 0 /\ Met # <<>>
    <3>1. Len(Met) >= 1
      BY <2>2, <2>3, CallFacts
    <3>2. QED
      BY <1>1, <3>1
  <2>4. QED
    BY <2>1, <2>3
<1>3. CASE type.shape = "option"
  BY <1>3 DEF IsEmpty
<1>4. CASE type.shape = "array"
  <2>1. value = [i \in 1 .. Len(Met) |-> Plain(Met[i])] /\ Len(value) = Len(Met)
    BY <1>1, <1>4, TakenLength DEF Keyed, Collected
  <2>2. \A i \in 1 .. Len(Met) : value[i] = Plain(Met[i])
    BY <2>1
  <2>3. IsEmpty <=> \A i \in 1 .. Len(Met) : Plain(Met[i]) = Empty
    BY <1>4, <2>1, <2>2 DEF IsEmpty
  <2>4. QED
    BY <1>4, <2>3
<1>5. CASE type.shape # "array" /\ type.shape # "option"
  <2>1. CASE Keyed(type)
    <3>1. IsEmpty <=> value = {}
      BY <1>5, <2>1 DEF IsEmpty
    <3>2. value = {Plain(Met[i]) : i \in 1 .. Len(Met)}
      BY <2>1 DEF Collected
    <3>3. value = {} <=> Len(Met) = 0
      <4>1. Len(Met) # 0 => 1 \in 1 .. Len(Met)
        BY <1>1
      <4>2. Len(Met) = 0 => 1 .. Len(Met) = {}
        OBVIOUS
      <4>3. QED
        BY <3>2, <4>1, <4>2
    <3>4. QED
      BY <1>2, <1>5, <3>1, <3>3
  <2>2. CASE ~Keyed(type)
    <3>1. IsEmpty <=> value = <<>>
      BY <1>5, <2>2 DEF IsEmpty
    <3>2. value = [i \in 1 .. Len(Met) |-> Plain(Met[i])] /\ Len(value) = Len(Met)
      BY <1>1, <2>2, TakenLength DEF Collected
    <3>3. value = <<>> <=> Len(Met) = 0
      BY <1>1, <3>2
    <3>4. QED
      BY <1>2, <1>5, <3>1, <3>3
  <2>3. QED
    BY <2>1, <2>2
<1>6. QED
  BY <1>3, <1>4, <1>5

(* The result: a region holds all there is, and what is lower than the     *)
(* minimum is not in form.                                                 *)
LEMMA ReturnTracks ==
  ASSUME IInv, Tracks, Return
  PROVE  Tracks'
<1> USE DEF NotCanonical, Canonical, Relaxed
<1>1. /\ at = "done" /\ outcome = "none" /\ CallOK
      /\ keys \in 1 .. Len(fields) /\ Len(fields) \in Nat
      /\ min \in 0 .. 3 /\ canon \in 1 .. 3 /\ canon >= Context
  <2>1. at = "done"
    BY DEF Return
  <2>2. Len(fields) \in Nat /\ min \in 0 .. 3
    BY CallFacts DEF IInv
  <2>3. QED
    BY <2>1, <2>2 DEF IInv, Progress, TypeOK, RespectsMinimum
<1>2. /\ Tolerated /\ Collected(value, Taken)
      /\ Region => keys = 1 /\ Taken = Len(Met)
      /\ ~Region => keys = Len(fields) /\ Taken = Len(Met)
      /\ read = keys
  BY <1>1, MetItems DEF Tracks, Place, Started, Taken
<1>3. Taken \in Nat
  BY <1>1, <1>2, MetItems
<1>4. CASE CheckError(Result, min) # "none"
  <2>1. Result \in 1 .. 3 /\ ~(Result >= min)
    BY <1>1, <1>4 DEF Result, CheckError
  <2>2. IsEmpty \/ ~Usual
    BY <1>1, <2>1 DEF Result, Context
  <2>3. min > 1
    BY <1>1, <2>1
  <2>4. ~InForm
    <3>1. SUFFICES ASSUME InForm PROVE FALSE
      OBVIOUS
    <3>2. IsEmpty
      BY <2>2, <3>1 DEF InForm
    <3>3. Collected(value, Len(Met))
      BY <1>2
    <3>4. QED
      BY <1>1, <3>1, <3>2, <3>3, EmptyIs DEF InForm
  <2>5. ~Acceptable
    BY <1>1, <2>3, <2>4 DEF Acceptable
  <2>6. CheckError(Result, min) \notin {"none", "ok"}
    BY <1>4 DEF CheckError
  <2>7. QED
    BY <1>1, <1>4, <2>5, <2>6, FailTracks DEF Return
<1>5. CASE CheckError(Result, min) = "none" /\ read = keys /\ keys < Len(fields)
  <2>1. Region /\ Len(fields) # 1
    <3>1. keys # Len(fields)
      BY <1>1, <1>5
    <3>2. QED
      BY <1>2, <3>1
  <2>2. ~Acceptable
    BY <2>1 DEF Acceptable, WellFormed
  <2>3. QED
    BY <1>1, <1>5, <2>2, FailTracks DEF Return
<1>6. CASE CheckError(Result, min) = "none" /\ ~(read = keys /\ keys < Len(fields))
  <2>1. /\ outcome' = "ok" /\ at' = "end" /\ canon' = Result
        /\ UNCHANGED <<call, keys, read, inner, value>>
    BY <1>6 DEF Return
  <2>2. /\ UNCHANGED <<type, min, fields>> /\ Region' = Region /\ Usual' = Usual
        /\ Tolerated' = Tolerated /\ Met' = Met
    BY <2>1, CallStays
  <2>3. Taken' = Taken /\ IsEmpty' = IsEmpty
    BY <2>1, <2>2 DEF Taken, IsEmpty, Keyed
  <2>4. keys = Len(fields)
    BY <1>1, <1>2, <1>6
  <2>5. Result >= min
    BY <1>6 DEF CheckError
  <2>6. Place'
    <3>1. ~Usual \/ IsEmpty => Result = 1
      BY DEF Result
    <3>2. /\ Region => keys = 1 /\ inner = Len(fields[1].items) /\ ~fields[1].ragged
          /\ ~Region => /\ type.shape # "map" /\ read = keys
                        /\ \A i \in 1 .. keys : fields[i].wire = type.item
      BY <1>1 DEF Tracks, Place, Started
    <3>3. QED
      BY <1>2, <2>1, <2>2, <2>3, <2>4, <2>5, <3>1, <3>2 DEF Place, Started
  <2>7. Collected(value, Taken)'
    BY <1>2, <2>1, <2>2, <2>3 DEF Collected
  <2>8. Passed'
    <3>1. SUFFICES ASSUME Usual, min # Relaxed
                   PROVE  \E c \in 1 .. 3 :
                            /\ Measures(c, Taken)'
                            /\ Result = IF IsEmpty THEN 1 ELSE c
      BY <2>1, <2>2, <2>3 DEF Passed
    <3>2. PICK c \in 1 .. 3 : c = canon
      BY <1>1
    <3>3. Measures(c, Taken)
      BY <1>1, <3>1, <3>2 DEF Tracks, Passed
    <3>4. Measures(c, Taken)'
      BY <2>2, <2>3, <3>3 DEF Measures, Climbs, Keyed
    <3>5. Result = IF IsEmpty THEN 1 ELSE c
      BY <3>1, <3>2 DEF Result
    <3>6. QED
      BY <3>4, <3>5
  <2>9. Refused'
    BY <2>1 DEF Refused
  <2>10. QED
    BY <2>6, <2>7, <2>8, <2>9 DEF Tracks
<1>7. QED
  BY <1>4, <1>5, <1>6

(* A step without change.                                                  *)
LEMMA StutterTracks ==
  ASSUME Tracks, UNCHANGED vars
  PROVE  Tracks'
<1>1. UNCHANGED <<type, min, fields, at, keys, read, inner, value, canon, outcome>>
      /\ UNCHANGED call
  BY DEF vars, call
<1>2. /\ Region' = Region /\ Usual' = Usual /\ Tolerated' = Tolerated
      /\ Met' = Met /\ Acceptable' = Acceptable
  BY <1>1, CallStays
<1>3. Taken' = Taken /\ IsEmpty' = IsEmpty
  BY <1>1, <1>2 DEF Taken, IsEmpty, Keyed
<1>4. Place' /\ Refused'
  BY <1>1, <1>2, <1>3 DEF Tracks, Place, Started, Refused
<1>5. Collected(value, Taken)' /\ Passed'
  BY <1>1, <1>2, <1>3 DEF Tracks, Collected, Passed, Measures, Climbs, Keyed
<1>6. QED
  BY <1>4, <1>5 DEF Tracks

(* What the decoder has looked at so far decides all that it has found.    *)
THEOREM CollectionsTracks == Spec => [](~LeavesValue => Tracks)
<1>1. Init => Tracks
  BY InitTracks
<1>2. IInv /\ (~LeavesValue => Tracks) /\ [Next]_vars => (~LeavesValue => Tracks)'
  <2>1. SUFFICES ASSUME IInv, ~LeavesValue => Tracks, [Next]_vars, ~LeavesValue'
                 PROVE  Tracks'
    OBVIOUS
  <2>2. CASE UNCHANGED vars
    <3>1. ~LeavesValue
      BY <2>1, <2>2 DEF vars, call, LeavesValue, Region, IsRegion, IsArray
    <3>2. QED
      BY <2>1, <2>2, <3>1, StutterTracks
  <2>3. CASE Next
    <3>1. UNCHANGED call
      BY <2>3 DEF Next, ForeignRepresentation, WrongWireType, BeginRegion,
                  BeginUnpacked, UnpackedItem, Repeated, NotRepeated, PackedItem,
                  PackedTruncated, PackedMiscounted, PackedEnd, Return, Fail
    <3>2. ~LeavesValue
      BY <2>1, <3>1 DEF call, LeavesValue, Region, IsRegion, IsArray
    <3>3. QED
      BY <2>1, <2>3, <3>2, BeginTracks, UnpackedTracks, PackedTracks, ReturnTracks
         DEF Next
  <2>4. QED
    BY <2>1, <2>2, <2>3
<1>3. QED
  BY <1>1, <1>2, CollectionsInvariant, PTL DEF Spec

-----------------------------------------------------------------------------
(* The result.                                                             *)

(* Where decoding succeeded, all items were taken.                         *)
LEMMA AllTaken ==
  ASSUME IInv, Tracks, outcome = "ok"
  PROVE  /\ Taken = Len(Met) /\ Len(Met) \in Nat /\ DOMAIN Met = 1 .. Len(Met)
         /\ \A i \in 1 .. Len(Met) : Met[i] \in Items
         /\ Collected(value, Len(Met))
         /\ Len(fields) \in Nat /\ Len(fields) >= 1
<1>1. CallOK /\ keys = Len(fields) /\ Len(fields) \in Nat /\ Len(fields) >= 1
  <2>1. fields \in Seq(Fields) /\ Len(fields) >= 1
    BY CallFacts DEF IInv
  <2>2. QED
    BY <2>1 DEF IInv, Tracks, Place
<1>2. CASE Region
  <2>1. inner = Len(fields[1].items)
    BY <1>2 DEF Tracks, Place, Started
  <2>2. Taken = Len(Met)
    BY <1>1, <1>2, <2>1, MetItems DEF Taken
  <2>3. QED
    BY <1>1, <1>2, <2>2, MetItems DEF Tracks
<1>3. CASE ~Region
  <2>1. /\ \A i \in 1 .. keys : fields[i].wire = type.item
        /\ read = IF at = "item" THEN keys - 1 ELSE keys
        /\ at = "end"
    BY <1>3 DEF Tracks, Place, Started, IInv, Progress
  <2>2. Taken = Len(Met)
    BY <1>1, <1>3, <2>1, MetItems DEF Taken
  <2>3. 1 \in 1 .. keys
    BY <1>1
  <2>4. QED
    BY <1>1, <1>3, <2>1, <2>2, <2>3, MetItems DEF Tracks
<1>4. QED
  BY <1>2, <1>3

(* What succeeded is well formed.                                          *)
LEMMA SucceedsWellFormed ==
  ASSUME IInv, Tracks, outcome = "ok"
  PROVE  WellFormed
<1>1. IF Region THEN Len(fields) = 1 /\ ~fields[1].ragged
      ELSE /\ type.shape # "map"
           /\ \A i \in 1 .. Len(fields) : fields[i].wire = type.item
  <2>1. keys = Len(fields)
    BY DEF Tracks, Place
  <2>2. QED
    BY <2>1 DEF Tracks, Place, Started
<1>2. ASSUME IsArray(type) PROVE Len(Met) = type.size
  <2>1. Len(value) = type.size
    BY <1>2 DEF IInv, Progress, Filled
  <2>2. Len(value) = Len(Met)
    BY <1>2, AllTaken, TakenLength, ArrayNotKeyed DEF IInv
  <2>3. QED
    BY <2>1, <2>2
<1>3. Keyed(type) => \A i, j \in 1 .. Len(Met) : i # j => Met[i].key # Met[j].key
  BY AllTaken DEF Collected
<1>4. QED
  BY <1>1, <1>2, <1>3 DEF WellFormed

(* Where decoding succeeded, what is asked of the form is asked of the     *)
(* collection.                                                             *)
LEMMA FormOf ==
  ASSUME IInv, Tracks, outcome = "ok"
  PROVE  InForm <=> Usual /\ ~IsEmpty /\ (Keyed(type) => Climbs(Len(Met)))
<1>1. CallOK /\ Collected(value, Len(Met)) /\ DOMAIN Met = 1 .. Len(Met)
  BY AllTaken DEF IInv
<1>2. Ascends(Met) <=> Climbs(Len(Met))
  BY <1>1 DEF Ascends, Climbs
<1>3. QED
  BY <1>1, <1>2, EmptyIs DEF InForm

(* The canonicity that is returned.                                        *)
LEMMA ReturnedCanonicity ==
  ASSUME IInv, Tracks, outcome = "ok", min # Relaxed
  PROVE  canon = IF InForm THEN Lowest ELSE NotCanonical
<1>1. \A i \in 1 .. Len(Met) : Met[i] \in Items
  BY AllTaken
<1>2. CASE ~Usual
  BY <1>2 DEF Tracks, Place, InForm
<1>3. CASE Usual
  <2>1. PICK c \in NotCanonical .. Canonical :
          Measures(c, Taken) /\ canon = IF IsEmpty THEN NotCanonical ELSE c
    BY <1>3 DEF Tracks, Passed
  <2>2. Measures(c, Len(Met))
    BY <2>1, AllTaken
  <2>3. c = IF Keyed(type) /\ ~Climbs(Len(Met)) THEN NotCanonical ELSE Lowest
    BY <1>1, <2>2, MeasuredLowest
  <2>4. QED
    BY <1>3, <2>1, <2>3, FormOf
<1>4. QED
  BY <1>2, <1>3

(* The items in the order of the encoder: as they were met, if that is     *)
(* the order of their keys.                                                *)
LEMMA OrderedIs ==
  ASSUME IInv, Tracks, outcome = "ok"
  PROVE  /\ DOMAIN Ordered = 1 .. Len(Met) /\ Len(Ordered) = Len(Met)
         /\ Ordered = [i \in 1 .. Len(Met) |-> Ordered[i]]
         /\ Ordered = [i \in 1 .. Len(Met) |-> Plain(Met[i])]
              <=> (Keyed(type) => Climbs(Len(Met)))
<1> DEFINE n == Len(Met)
           f == [i \in 1 .. n |-> Plain(Met[i])]
<1>1. /\ n \in Nat /\ Collected(value, n)
      /\ \A i \in 1 .. n : Met[i] \in Items
  BY AllTaken
<1> HIDE DEF n
<1>2. CASE ~Keyed(type)
  <2>1. Ordered = f
    BY <1>1, <1>2 DEF Ordered, Collected
  <2>2. DOMAIN f = 1 .. n /\ Len(f) = n /\ f = [i \in 1 .. n |-> f[i]]
    BY <1>1
  <2>3. QED
    BY <1>2, <2>1, <2>2 DEF n
<1>3. CASE Keyed(type)
  <2>1. value = {f[i] : i \in 1 .. n}
    BY <1>1, <1>3 DEF Collected
  <2>2. \A i \in 1 .. n : f[i] \in [key : Nat, val : Nat] /\ f[i].key = Met[i].key
    BY <1>1 DEF Plain, Items
  <2>3. \A i, j \in 1 .. n : i # j => f[i].key # f[j].key
    BY <1>1, <1>3, <2>2 DEF Collected
  <2>4. f \in [1 .. n -> value] /\ f \in [1 .. n -> [key : Nat, val : Nat]]
    BY <2>1, <2>2
  <2>5. \A v \in value : v.key \in Nat
    BY <2>1, <2>2
  <2>6. Ascends(f) <=> Climbs(n)
    BY <2>2 DEF Ascends, Climbs
  <2> HIDE DEF f
  <2>7. PICK g \in [1 .. n -> value] : Ascends(g)
    BY <1>1, <2>1, <2>3, <2>4, Sortable
  <2>8. Cardinality(value) = n
    <3>1. f \in Injection(1 .. n, value) /\ f \in Surjection(1 .. n, value)
      BY <2>1, <2>3, <2>4 DEF Injection, IsInjective, Surjection
    <3>2. IsFiniteSet(1 .. n) /\ Cardinality(1 .. n) = n
      <4>1. 1 \in Int /\ n \in Int /\ (IF 1 > n THEN 0 ELSE n - 1 + 1) = n
        BY <1>1
      <4>2. QED
        BY <4>1, FS_Interval
    <3>3. QED
      BY <3>1, <3>2, FS_Surjection
  <2>9. Ordered \in [1 .. n -> value] /\ Ascends(Ordered)
    BY <1>3, <2>7, <2>8 DEF Ordered
  <2>10. DOMAIN Ordered = 1 .. n /\ Len(Ordered) = n
         /\ Ordered = [i \in 1 .. n |-> Ordered[i]]
    BY <1>1, <2>9
  <2>11. Ascends(f) => Ordered = f
    <3>1. SUFFICES ASSUME Ascends(f) PROVE Ordered = f
      OBVIOUS
    <3>2. n \in Nat /\ f \in [1 .. n -> value] /\ Ordered \in [1 .. n -> value]
      BY <1>1, <2>4, <2>9
    <3>3. Ascends(Ordered)
      BY <2>9
    <3>4. f \in Surjection(1 .. n, value)
      BY <2>1, <2>4 DEF Surjection
    <3>5. QED
      BY <2>5, <3>1, <3>2, <3>3, <3>4, SortedOnce
  <2>12. Ordered = f <=> Climbs(n)
    BY <2>6, <2>9, <2>11
  <2>13. QED
    BY <1>3, <2>10, <2>12 DEF n, f
<1>4. QED
  BY <1>2, <1>3

(* The fields of a region, and of a run of single items.                   *)
LEMMA GivenIs ==
  ASSUME IInv, Tracks, outcome = "ok"
  PROVE  /\ Region => Given = <<[wire |-> "delimited",
                                 items |-> [j \in 1 .. Len(Met) |-> Plain(Met[j])]]>>
         /\ ~Region => Given = [i \in 1 .. Len(Met) |->
                                  [wire |-> type.item, items |-> <<Plain(Met[i])>>]]
         /\ Region <=> IsRegion(type, fields[1].wire)
         /\ Region => fields[1].wire = "delimited"
         /\ ~Region => fields[1].wire = type.item /\ Len(Met) = Len(fields)
<1>1. CallOK /\ WellFormed /\ Len(fields) \in Nat /\ Len(fields) >= 1
  BY SucceedsWellFormed, AllTaken DEF IInv
<1>2. CASE Region
  <2>1. Len(fields) = 1 /\ fields[1].wire = "delimited" /\ Met = fields[1].items
    BY <1>1, <1>2, MetItems DEF WellFormed, Region, IsRegion
  <2> DEFINE whole == [wire |-> "delimited",
                       items |-> [j \in 1 .. Len(Met) |-> Plain(Met[j])]]
  <2>2. Given = [i \in 1 .. 1 |-> [wire |-> fields[i].wire,
                   items |-> [j \in 1 .. Len(fields[i].items) |-> Plain(fields[i].items[j])]]]
    BY <2>1 DEF Given
  <2>3. Given = [i \in 1 .. 1 |-> whole]
    <3>1. \A i \in 1 .. 1 : i = 1
      OBVIOUS
    <3>2. QED
      BY <2>1, <2>2, <3>1
  <2>4. Given = <<whole>>
    <3> HIDE DEF whole
    <3>1. <<whole>> = [i \in 1 .. 1 |-> whole]
      OBVIOUS
    <3>2. QED
      BY <2>3, <3>1
  <2>5. QED
    BY <1>2, <2>1, <2>4 DEF Region
<1>3. CASE ~Region
  <2>1. /\ \A i \in 1 .. Len(fields) : fields[i].wire = type.item
        /\ Len(Met) = Len(fields)
        /\ \A i \in 1 .. Len(fields) : Met[i] = fields[i].items[1]
    BY <1>1, <1>3, MetItems DEF WellFormed
  <2>2. fields[1].wire = type.item
    BY <1>1, <2>1
  <2>3. \A i \in 1 .. Len(fields) : Len(fields[i].items) = 1
    <3>1. \A i \in 1 .. Len(fields) : ~IsRegion(type, fields[i].wire)
      BY <1>3, <2>1, <2>2 DEF Region
    <3>2. QED
      BY <1>1, <3>1, CallFacts
  <2>4. ASSUME NEW i \in 1 .. Len(fields)
        PROVE  [wire |-> fields[i].wire,
                items |-> [j \in 1 .. Len(fields[i].items) |-> Plain(fields[i].items[j])]]
               = [wire |-> type.item, items |-> <<Plain(Met[i])>>]
    <3> DEFINE p == Plain(Met[i])
    <3>1. [j \in 1 .. 1 |-> Plain(fields[i].items[j])] = [j \in 1 .. 1 |-> p]
      <4>1. \A j \in 1 .. 1 : j = 1
        OBVIOUS
      <4>2. QED
        BY <2>1, <4>1
    <3> HIDE DEF p
    <3>2. [j \in 1 .. 1 |-> p] = <<p>>
      OBVIOUS
    <3>3. [j \in 1 .. Len(fields[i].items) |-> Plain(fields[i].items[j])] = <<p>>
      BY <2>3, <3>1, <3>2
    <3>4. QED
      BY <2>1, <3>3 DEF p
  <2>5. Given = [i \in 1 .. Len(Met) |->
                   [wire |-> type.item, items |-> <<Plain(Met[i])>>]]
    BY <2>1, <2>4 DEF Given
  <2>6. QED
    BY <1>3, <2>1, <2>2, <2>5 DEF Region
<1>4. QED
  BY <1>2, <1>3

(* Encoding gives back the fields exactly if they are in form.             *)
LEMMA EncodedIs ==
  ASSUME IInv, Tracks, outcome = "ok"
  PROVE  Encoded = Given <=> InForm
<1> DEFINE n == Len(Met)
           plain == [i \in 1 .. n |-> Plain(Met[i])]
<1>1. /\ n \in Nat /\ Len(fields) \in Nat /\ Len(fields) >= 1
      /\ DOMAIN Given = 1 .. Len(fields)
  BY AllTaken DEF Given
<1>2. DOMAIN Ordered = 1 .. n /\ Len(Ordered) = n
      /\ Ordered = [i \in 1 .. n |-> Ordered[i]]
      /\ (Ordered = plain <=> (Keyed(type) => Climbs(n)))
  BY OrderedIs
<1>3. InForm <=> Usual /\ ~IsEmpty /\ Ordered = plain
  BY <1>2, FormOf
<1>4. type.repr \in {"packed", "unpacked"}
  BY CallFacts DEF IInv, Type
<1>5. CASE IsEmpty
  <2>1. Encoded = <<>>
    BY <1>5 DEF Encoded
  <2>2. 1 \in DOMAIN Given /\ DOMAIN <<>> = {}
    BY <1>1
  <2>3. QED
    BY <1>3, <1>5, <2>1, <2>2
<1>6. CASE ~IsEmpty /\ type.repr = "packed"
  <2>1. Encoded = <<[wire |-> "delimited", items |-> Ordered]>>
    BY <1>6 DEF Encoded
  <2>2. CASE Region
    <3>1. Given = <<[wire |-> "delimited", items |-> plain]>> /\ Usual
      BY <1>6, <2>2, GivenIs DEF Usual
    <3> HIDE DEF plain
    <3>2. Encoded = Given <=> Ordered = plain
      BY <2>1, <3>1
    <3>3. QED
      BY <1>3, <1>6, <3>1, <3>2
  <2>3. CASE ~Region
    <3>1. ~Usual /\ fields[1].wire = type.item /\ fields[1].wire # "delimited"
      BY <1>6, <2>3, GivenIs DEF Usual, IsRegion
    <3>2. Given[1].wire = fields[1].wire
      BY <1>1 DEF Given
    <3>3. Encoded[1].wire = "delimited"
      BY <2>1
    <3>4. QED
      BY <1>3, <3>1, <3>2, <3>3
  <2>4. QED
    BY <2>2, <2>3
<1>7. CASE ~IsEmpty /\ type.repr = "unpacked"
  <2>1. Encoded = [i \in 1 .. n |-> [wire |-> type.item, items |-> <<Ordered[i]>>]]
    BY <1>2, <1>6, <1>7 DEF Encoded
  <2>2. CASE Region
    <3>1. ~Usual /\ type.item # "delimited" /\ fields[1].wire = "delimited"
      BY <1>7, <2>2, GivenIs DEF Usual, IsRegion
    <3>2. SUFFICES ASSUME Encoded = Given PROVE FALSE
      BY <1>3, <3>1
    <3>3. Given[1].wire = fields[1].wire /\ 1 \in DOMAIN Given
      BY <1>1 DEF Given
    <3>4. 1 \in 1 .. n
      BY <2>1, <3>2, <3>3
    <3>5. Encoded[1].wire = type.item
      BY <2>1, <3>4
    <3>6. QED
      BY <3>1, <3>2, <3>3, <3>5
  <2>3. CASE ~Region
    <3>1. /\ Given = [i \in 1 .. n |-> [wire |-> type.item, items |-> <<Plain(Met[i])>>]]
          /\ Usual
      BY <1>7, <2>3, GivenIs DEF Usual
    <3>2. Ordered = plain => Encoded = Given
      BY <2>1, <3>1
    <3>3. ASSUME Encoded = Given PROVE Ordered = plain
      <4>1. ASSUME NEW i \in 1 .. n PROVE Ordered[i] = Plain(Met[i])
        <5>1. Encoded[i].items = <<Ordered[i]>>
          BY <2>1
        <5>2. Given[i].items = <<Plain(Met[i])>>
          BY <3>1
        <5>3. QED
          BY <3>3, <5>1, <5>2
      <4>2. QED
        BY <1>2, <4>1
    <3>4. QED
      BY <1>3, <1>7, <3>1, <3>2, <3>3
  <2>4. QED
    BY <2>2, <2>3
<1>8. QED
  BY <1>4, <1>5, <1>6, <1>7

-----------------------------------------------------------------------------
(* The theorems.                                                           *)

(* Of every field that can be met, and in whatever order the decoder looks *)
(* at sizes, counts, items and keys, exactly those are decoded that are a  *)
(* collection of the type no less canonical than the minimum, and what is  *)
(* returned as canonical is what encoding the collection gives.            *)
THEOREM CollectionsAcceptsExactly == Spec => []AcceptsExactly
<1> USE DEF NotCanonical, Canonical, Relaxed
<1>1. ASSUME IInv, Tracks PROVE AcceptsExactly
  <2>1. ASSUME outcome = "ok" PROVE Acceptable
    <3>1. WellFormed /\ CallOK /\ min \in 0 .. 3
      BY <1>1, <2>1, SucceedsWellFormed, CallFacts DEF IInv
    <3>2. CASE min = 0
      <4>1. Lowest \in 1 .. 3
        BY <1>1, <2>1, AllTaken, LowestIsLeast
      <4>2. QED
        BY <3>1, <3>2, <4>1 DEF Acceptable
    <3>3. CASE min # 0
      <4>1. canon = IF InForm THEN Lowest ELSE 1
        BY <1>1, <2>1, <3>3, ReturnedCanonicity
      <4>2. canon >= min
        BY <1>1, <2>1 DEF Tracks, Place
      <4>3. QED
        BY <3>1, <4>1, <4>2 DEF Acceptable
    <3>4. QED
      BY <3>2, <3>3
  <2>2. outcome \notin {"none", "ok"} => ~Acceptable
    BY <1>1 DEF Tracks, Refused
  <2>3. ASSUME outcome = "ok", min # Relaxed
        PROVE  canon = IF Encoded = Given THEN Lowest ELSE NotCanonical
    BY <1>1, <2>3, ReturnedCanonicity, EncodedIs
  <2>4. QED
    BY <2>1, <2>2, <2>3 DEF AcceptsExactly
<1>2. IInv /\ (~LeavesValue => Tracks) => AcceptsExactly
  BY <1>1 DEF AcceptsExactly
<1>3. QED
  BY <1>2, CollectionsInvariant, CollectionsTracks, PTL
=============================================================================
