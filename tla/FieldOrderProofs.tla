-------------------------- MODULE FieldOrderProofs --------------------------
(***************************************************************************)
(* Whatever is declared, the derived code encodes the fields of a message  *)
(* in ascending order of their tags and measures their keys as they are    *)
(* written.  The scan keeps an invariant of what it has cut off, of the    *)
(* group it is building and of the fields that are left (the first half),  *)
(* from which the order of what is emitted follows for any values of the   *)
(* fields (the second).                                                    *)
(***************************************************************************)
EXTENDS FieldOrder, DataInduction

(* The fields that have tags, as the parser makes them.                    *)
FieldSet ==
  {f \in Declared :
     /\ f.kind \in {"Value", "Oneof"}
     /\ f.tags # {}
     /\ f.kind = "Value" => \A s, t \in f.tags : s = t}

Below(S, T) == \A s \in S : \A t \in T : s < t
Beside(S, t) == (\A s \in S : s < t) \/ (\A s \in S : t < s)

-----------------------------------------------------------------------------
(* The first tag of a field and the last.                                  *)

(* A set of tags has a least member and a greatest one.                    *)
LEMMA TagBounds ==
  ASSUME NEW T \in SUBSET Tag, T # {}
  PROVE  /\ \E t \in T : \A u \in T : t <= u
         /\ \E t \in T : \A u \in T : t >= u
<1>1. MaxTag \in Nat /\ T \subseteq Nat
  BY FieldOrderAssumption DEF Tag
<1>2. \E t \in T : \A u \in T : t <= u
  BY <1>1, LeastNatural
<1> DEFINE D == {n \in Nat : \E u \in T : n = MaxTag - u}
<1>3. D \in SUBSET Nat /\ D # {}
  <2>1. PICK u \in T : TRUE
    OBVIOUS
  <2>2. u \in Nat /\ u <= MaxTag
    BY <2>1, <1>1 DEF Tag
  <2>3. MaxTag - u \in D
    BY <1>1, <2>1, <2>2
  <2>4. QED
    BY <2>3
<1>4. PICK m \in D : \A n \in D : m <= n
  <2> HIDE DEF D
  <2> QED
    BY <1>3, LeastNatural
<1>5. PICK t \in T : m = MaxTag - t
  BY <1>4
<1>6. ASSUME NEW u \in T
      PROVE  t >= u
  <2>1. u \in Nat /\ u <= MaxTag /\ t \in Nat
    BY <1>1 DEF Tag
  <2>2. MaxTag - u \in D
    BY <1>1, <2>1
  <2>3. m <= MaxTag - u
    BY <1>4, <2>2
  <2> QED
    BY <1>1, <1>5, <2>1, <2>3
<1> QED
  BY <1>2, <1>6

(* What the scan compares: the first tag is the least, the last one the    *)
(* greatest.                                                               *)
LEMMA FirstAndLast ==
  \A f : f.tags \in SUBSET Tag /\ f.tags # {} =>
    /\ FirstTag(f) \in f.tags /\ \A t \in f.tags : FirstTag(f) <= t
    /\ LastTag(f) \in f.tags /\ \A t \in f.tags : t <= LastTag(f)
    /\ FirstTag(f) \in Nat /\ LastTag(f) \in Nat /\ f.tags \subseteq Nat
<1>1. SUFFICES ASSUME NEW f, f.tags \in SUBSET Tag, f.tags # {}
      PROVE  /\ FirstTag(f) \in f.tags /\ \A t \in f.tags : FirstTag(f) <= t
             /\ LastTag(f) \in f.tags /\ \A t \in f.tags : t <= LastTag(f)
             /\ FirstTag(f) \in Nat /\ LastTag(f) \in Nat
             /\ f.tags \subseteq Nat
  OBVIOUS
<1>2. /\ \E t \in f.tags : \A u \in f.tags : t <= u
      /\ \E t \in f.tags : \A u \in f.tags : t >= u
  BY <1>1, TagBounds
<1>3. FirstTag(f) \in f.tags /\ \A t \in f.tags : FirstTag(f) <= t
  BY <1>2 DEF FirstTag
<1>4. LastTag(f) \in f.tags /\ \A t \in f.tags : LastTag(f) >= t
  BY <1>2 DEF LastTag
<1>5. f.tags \subseteq Nat
  BY <1>1, FieldOrderAssumption DEF Tag
<1> QED
  BY <1>3, <1>4, <1>5

(* A field as the lemmas use it.                                           *)
LEMMA FieldTags ==
  \A f \in FieldSet :
    /\ f.tags \in SUBSET Tag /\ f.tags # {} /\ f.tags \subseteq Nat
    /\ FirstTag(f) \in f.tags /\ \A t \in f.tags : FirstTag(f) <= t
    /\ LastTag(f) \in f.tags /\ \A t \in f.tags : t <= LastTag(f)
    /\ FirstTag(f) \in Nat /\ LastTag(f) \in Nat
<1>1. ASSUME NEW f \in FieldSet
      PROVE  f.tags \in SUBSET Tag /\ f.tags # {}
  BY DEF FieldSet, Declared
<1> QED
  BY <1>1, FirstAndLast

(* A field with two tags is a oneof.                                       *)
LEMMA TwoTags ==
  ASSUME NEW f \in FieldSet, NEW s \in f.tags, NEW t \in f.tags, s # t
  PROVE  f.kind = "Oneof"
  BY DEF FieldSet

-----------------------------------------------------------------------------
(* Tags of sequences of fields.                                            *)

(* A tag of a sequence is a tag of one of its fields.                      *)
LEMMA TagsAre ==
  \A fs : \A t : t \in Tags(fs) <=> \E i \in 1 .. Len(fs) : t \in fs[i].tags
  BY DEF Tags

(* Those of fields are natural numbers.                                    *)
LEMMA TagsTyped ==
  ASSUME NEW X \in SUBSET FieldSet, NEW fs \in Seq(X)
  PROVE  /\ \A i \in 1 .. Len(fs) : fs[i] \in FieldSet
         /\ Tags(fs) \subseteq Nat /\ Tags(fs) \subseteq Tag
<1>1. \A i \in 1 .. Len(fs) : fs[i] \in FieldSet
  BY ElementOfSeq
<1>2. ASSUME NEW t \in Tags(fs)
      PROVE  t \in Nat /\ t \in Tag
  <2>1. PICK i \in 1 .. Len(fs) : t \in fs[i].tags
    BY TagsAre
  <2> QED
    BY <1>1, <2>1, FieldTags
<1> QED
  BY <1>1, <1>2

(* A sequence of one field, and one with a field more.                     *)
LEMMA TagsOfOne ==
  \A f : Tags(<<f>>) = f.tags
<1>1. SUFFICES ASSUME NEW f
               PROVE  Tags(<<f>>) = f.tags
  OBVIOUS
<1> DEFINE fs == <<f>>
<1>2. Len(fs) = 1 /\ fs[1] = f /\ 1 .. 1 = {1}
  OBVIOUS
<1> HIDE DEF fs
<1>3. ASSUME NEW t
      PROVE  t \in Tags(fs) <=> t \in f.tags
  BY <1>2, TagsAre
<1>4. Tags(fs) = f.tags
  BY <1>3
<1> QED
  BY <1>4 DEF fs

(* A field more adds its tags.                                             *)
LEMMA TagsOfAppend ==
  ASSUME NEW X, NEW fs \in Seq(X), NEW f \in X
  PROVE  Tags(Append(fs, f)) = Tags(fs) \cup f.tags
<1> DEFINE n == Len(fs)
           more == Append(fs, f)
<1>1. /\ n \in Nat /\ Len(more) = n + 1
      /\ \A i \in 1 .. n : more[i] = fs[i]
      /\ more[n + 1] = f
  BY AppendProperties, LenProperties
<1>2. ASSUME NEW t
      PROVE  t \in Tags(more) <=> t \in Tags(fs) \/ t \in f.tags
  <2>1. t \in Tags(more) <=> \E i \in 1 .. n + 1 : t \in more[i].tags
    BY <1>1, TagsAre
  <2>2. t \in Tags(fs) <=> \E i \in 1 .. n : t \in fs[i].tags
    BY TagsAre
  <2> HIDE DEF n, more
  <2>3. ASSUME NEW i \in 1 .. n + 1
        PROVE  i = n + 1 \/ i \in 1 .. n
    BY <1>1
  <2>4. (1 .. n) \subseteq (1 .. n + 1) /\ n + 1 \in 1 .. n + 1
    BY <1>1
  <2> QED
    BY <1>1, <2>1, <2>2, <2>3, <2>4
<1> QED
  BY <1>2

-----------------------------------------------------------------------------
(* What the scan keeps.  X is the set of all fields of the message.        *)

(* The tags of the fields of a run ascend from field to field.             *)
Ascend(run) ==
  \A i, j \in 1 .. Len(run) : i < j => Below(run[i].tags, run[j].tags)

Part(X) ==
  {part \in [kind : {"Contiguous", "OneofPart"}, fields : Seq(X)] :
     /\ part.fields # <<>>
     /\ Ascend(part.fields)
     /\ part.kind = "OneofPart" =>
          Len(part.fields) = 1 /\ part.fields[1].kind = "Oneof"}

(* What a part and one after it in the same group may have for tags.       *)
FitsAfter(part, later) ==
  /\ Tags(part.fields) \cap Tags(later.fields) = {}
  /\ part.kind = "Contiguous" => Below(Tags(part.fields), Tags(later.fields))
  /\ later.kind = "Contiguous" =>
       \A t \in Tags(part.fields) : Beside(Tags(later.fields), t)

Parts(X) ==
  {parts \in Seq(Part(X)) :
     \A p, q \in 1 .. Len(parts) : p < q => FitsAfter(parts[p], parts[q])}

PartsTags(parts) == UNION {Tags(parts[p].fields) : p \in 1 .. Len(parts)}

(* The group being built, before the fields in rest are added.             *)
GroupOK(X, parts, run, tags, rest) ==
  /\ parts \in Parts(X)
  /\ run \in Seq(X) /\ Ascend(run)
  /\ \A p \in 1 .. Len(parts) : FitsAfter(parts[p], Contiguous(run))
  /\ tags \subseteq PartsTags(parts)
  /\ PartsTags(parts) \cap Tags(rest) = {}
  /\ \A p \in 1 .. Len(parts) :
       parts[p].kind = "Contiguous" => Below(Tags(parts[p].fields), Tags(rest))
  /\ Below(Tags(run), Tags(rest))
  /\ Below(PartsTags(parts) \ tags, Tags(run) \cup Tags(rest))

Rest(X) ==
  {fs \in Seq(X) :
     \A i, j \in 1 .. Len(fs) : i < j =>
       /\ fs[i].tags \cap fs[j].tags = {}
       /\ \A t \in fs[j].tags : FirstTag(fs[i]) < t}

Chunk(X) == [kind : {"AlwaysOrdered", "SortGroup"}, parts : Parts(X)]

Chunks(X) ==
  {cs \in Seq(Chunk(X)) :
     \A c, d \in 1 .. Len(cs) :
       c < d => Below(PartsTags(cs[c].parts), PartsTags(cs[d].parts))}

ChunksTags(cs) == UNION {PartsTags(cs[c].parts) : c \in 1 .. Len(cs)}

ScanOK(X, cs, parts, run, tags, rest) ==
  /\ cs \in Chunks(X)
  /\ rest \in Rest(X)
  /\ GroupOK(X, parts, run, tags, rest)
  /\ tags = {} => parts = <<>> /\ run = <<>>
  /\ tags # {} => rest # <<>> /\ \E t \in tags : FirstTag(Head(rest)) < t
  /\ Below(ChunksTags(cs), PartsTags(parts) \cup Tags(run) \cup Tags(rest))

(* All the tags the scan has seen or will see.                             *)
AllTags(cs, parts, run, rest) ==
  ChunksTags(cs) \cup PartsTags(parts) \cup Tags(run) \cup Tags(rest)

-----------------------------------------------------------------------------
(* Parts.                                                                  *)

(* A tag of a group is a tag of one of its parts, a natural number.        *)
LEMMA PartsTagsAre ==
  \A parts : \A t :
    t \in PartsTags(parts) <=>
      \E p \in 1 .. Len(parts) : t \in Tags(parts[p].fields)
  BY DEF PartsTags

(* What the parts of a group hold, by position.                            *)
LEMMA PartsTyped ==
  ASSUME NEW X \in SUBSET FieldSet, NEW parts \in Seq(Part(X))
  PROVE  /\ \A p \in 1 .. Len(parts) :
              /\ parts[p] \in Part(X) /\ parts[p].fields \in Seq(X)
              /\ Tags(parts[p].fields) \subseteq Nat
         /\ PartsTags(parts) \subseteq Nat
<1>1. ASSUME NEW p \in 1 .. Len(parts)
      PROVE  /\ parts[p] \in Part(X) /\ parts[p].fields \in Seq(X)
             /\ Tags(parts[p].fields) \subseteq Nat
  <2>1. parts[p] \in Part(X)
    BY ElementOfSeq
  <2>2. parts[p].fields \in Seq(X)
    BY <2>1 DEF Part
  <2> QED
    BY <2>1, <2>2, TagsTyped
<1>2. ASSUME NEW t \in PartsTags(parts)
      PROVE  t \in Nat
  BY <1>1, PartsTagsAre
<1> QED
  BY <1>1, <1>2

(* One field is a part, as a run or, if it is a oneof, by itself.          *)
LEMMA OneFieldParts ==
  ASSUME NEW X, NEW f \in X
  PROVE  /\ Contiguous(<<f>>) \in Part(X)
         /\ f.kind = "Oneof" => OneofPart(f) \in Part(X)
         /\ Tags(Contiguous(<<f>>).fields) = f.tags
         /\ Tags(OneofPart(f).fields) = f.tags
<1>1. <<f>> \in Seq(X) /\ <<f>> # <<>> /\ Len(<<f>>) = 1 /\ <<f>>[1] = f
  OBVIOUS
<1>2. Ascend(<<f>>)
  BY <1>1 DEF Ascend
<1>3. Tags(<<f>>) = f.tags
  BY TagsOfOne
<1> QED
  BY <1>1, <1>2, <1>3 DEF Contiguous, OneofPart, Part

(* A group of one part.                                                    *)
LEMMA OnePart ==
  ASSUME NEW X, NEW part \in Part(X)
  PROVE  <<part>> \in Parts(X) /\ PartsTags(<<part>>) = Tags(part.fields)
<1> DEFINE one == <<part>>
<1>1. one \in Seq(Part(X)) /\ Len(one) = 1 /\ one[1] = part /\ 1 .. 1 = {1}
  OBVIOUS
<1> HIDE DEF one
<1>2. one \in Parts(X)
  BY <1>1 DEF Parts
<1>3. \A t : t \in PartsTags(one) <=> t \in Tags(part.fields)
  BY <1>1, PartsTagsAre
<1> QED
  BY <1>2, <1>3 DEF one

(* A run that is not empty is a part.                                      *)
LEMMA RunPart ==
  ASSUME NEW X, NEW run \in Seq(X), Ascend(run), run # <<>>
  PROVE  Contiguous(run) \in Part(X)
  BY DEF Contiguous, Part

(* Adding a part to a group.                                               *)
LEMMA AppendPart ==
  ASSUME NEW X, NEW parts \in Parts(X), NEW part \in Part(X),
         \A p \in 1 .. Len(parts) : FitsAfter(parts[p], part)
  PROVE  /\ Append(parts, part) \in Parts(X)
         /\ Len(Append(parts, part)) = Len(parts) + 1
         /\ \A p \in 1 .. Len(parts) : Append(parts, part)[p] = parts[p]
         /\ Append(parts, part)[Len(parts) + 1] = part
         /\ PartsTags(Append(parts, part)) =
              PartsTags(parts) \cup Tags(part.fields)
<1> DEFINE n == Len(parts)
           more == Append(parts, part)
<1>1. parts \in Seq(Part(X)) /\ n \in Nat
  BY LenProperties DEF Parts
<1>2. /\ more \in Seq(Part(X)) /\ Len(more) = n + 1
      /\ \A p \in 1 .. n : more[p] = parts[p]
      /\ more[n + 1] = part
  BY <1>1, AppendProperties
<1>3. \A p, q \in 1 .. n : p < q => FitsAfter(parts[p], parts[q])
  BY DEF Parts
<1> HIDE DEF n, more
<1>4. ASSUME NEW p \in 1 .. n + 1, NEW q \in 1 .. n + 1, p < q
      PROVE  FitsAfter(more[p], more[q])
  <2>1. p \in 1 .. n /\ (q \in 1 .. n \/ q = n + 1)
    BY <1>1, <1>4
  <2>2. CASE q \in 1 .. n
    BY <1>2, <1>3, <1>4, <2>1, <2>2
  <2>3. CASE q = n + 1
    BY <1>2, <2>1, <2>3 DEF n
  <2> QED
    BY <2>1, <2>2, <2>3
<1>5. ASSUME NEW t
      PROVE  t \in PartsTags(more) <=> t \in PartsTags(parts) \/ t \in Tags(part.fields)
  <2>1. t \in PartsTags(more) <=> \E p \in 1 .. n + 1 : t \in Tags(more[p].fields)
    BY <1>2, PartsTagsAre
  <2>2. t \in PartsTags(parts) <=> \E p \in 1 .. n : t \in Tags(parts[p].fields)
    BY PartsTagsAre DEF n
  <2>3. ASSUME NEW p \in 1 .. n + 1
        PROVE  p = n + 1 \/ p \in 1 .. n
    BY <1>1
  <2>4. (1 .. n) \subseteq (1 .. n + 1) /\ n + 1 \in 1 .. n + 1
    BY <1>1
  <2> QED
    BY <1>2, <2>1, <2>2, <2>3, <2>4
<1>6. more \in Parts(X)
  BY <1>2, <1>4 DEF Parts
<1> QED
  BY <1>2, <1>5, <1>6 DEF n, more

(* The group with the run that is being built.                             *)
LEMMA FlushedParts ==
  ASSUME NEW X, NEW parts, NEW run, NEW tags, NEW rest,
         GroupOK(X, parts, run, tags, rest)
  PROVE  /\ Flushed(parts, run) \in Parts(X)
         /\ PartsTags(Flushed(parts, run)) = PartsTags(parts) \cup Tags(run)
         /\ \A p \in 1 .. Len(Flushed(parts, run)) :
              Flushed(parts, run)[p].kind = "Contiguous" =>
                Below(Tags(Flushed(parts, run)[p].fields), Tags(rest))
         /\ \A p \in 1 .. Len(parts) : p \in 1 .. Len(Flushed(parts, run))
<1>1. /\ parts \in Parts(X) /\ Len(parts) \in Nat
      /\ run \in Seq(X) /\ Ascend(run)
      /\ \A p \in 1 .. Len(parts) : FitsAfter(parts[p], Contiguous(run))
      /\ \A p \in 1 .. Len(parts) : parts[p].kind = "Contiguous" =>
           Below(Tags(parts[p].fields), Tags(rest))
      /\ Below(Tags(run), Tags(rest))
  <2>1. parts \in Seq(Part(X))
    BY DEF GroupOK, Parts
  <2> QED
    BY <2>1, LenProperties DEF GroupOK
<1>2. CASE run = <<>>
  <2>1. Flushed(parts, run) = parts
    BY <1>2 DEF Flushed
  <2>2. Len(run) = 0
    BY <1>2
  <2>3. Tags(run) = {}
    BY <2>2, TagsAre
  <2> QED
    BY <1>1, <2>1, <2>3
<1>3. CASE run # <<>>
  <2> DEFINE part == Contiguous(run)
             more == Append(parts, part)
  <2>1. Flushed(parts, run) = more
    BY <1>3 DEF Flushed
  <2>2. part \in Part(X) /\ part.fields = run
    BY <1>1, <1>3, RunPart DEF Contiguous
  <2>3. \A p \in 1 .. Len(parts) : FitsAfter(parts[p], part)
    BY <1>1
  <2> HIDE DEF part
  <2>4. /\ more \in Parts(X)
        /\ Len(more) = Len(parts) + 1
        /\ \A p \in 1 .. Len(parts) : more[p] = parts[p]
        /\ more[Len(parts) + 1] = part
        /\ PartsTags(more) = PartsTags(parts) \cup Tags(run)
    BY <1>1, <2>2, <2>3, AppendPart
  <2> HIDE DEF more
  <2>5. ASSUME NEW p \in 1 .. Len(more), more[p].kind = "Contiguous"
        PROVE  Below(Tags(more[p].fields), Tags(rest))
    <3>1. p \in 1 .. Len(parts) \/ p = Len(parts) + 1
      BY <1>1, <2>4
    <3> QED
      BY <1>1, <2>2, <2>4, <2>5, <3>1
  <2> QED
    BY <1>1, <2>1, <2>4, <2>5
<1> QED
  BY <1>2, <1>3

-----------------------------------------------------------------------------
(* The fields that are left.                                               *)

(* The first of them starts below the others and shares no tag with them;  *)
(* so does the one after it.                                               *)
LEMMA RestStep ==
  ASSUME NEW X \in SUBSET FieldSet, NEW rest \in Rest(X), rest # <<>>
  PROVE  /\ Head(rest) \in X /\ Head(rest) = rest[1]
         /\ Tail(rest) \in Rest(X)
         /\ Tags(rest) = Head(rest).tags \cup Tags(Tail(rest))
         /\ Head(rest).tags \cap Tags(Tail(rest)) = {}
         /\ Tags(Tail(rest)) \subseteq Nat
         /\ \A t \in Tags(rest) : FirstTag(Head(rest)) <= t
         /\ Tail(rest) # <<>> <=> Len(rest) > 1
         /\ Tail(rest) # <<>> => Head(Tail(rest)) = rest[2]
<1> DEFINE tail == Tail(rest)
           n == Len(tail)
           f == Head(rest)
<1>1. rest \in Seq(X) /\ Len(rest) \in Nat \ {0}
  BY EmptySeq DEF Rest
<1>2. /\ f \in X /\ tail \in Seq(X) /\ n = Len(rest) - 1 /\ n \in Nat
      /\ \A i \in 1 .. n : tail[i] = rest[i + 1]
  BY <1>1, HeadTailProperties
<1>3. f = rest[1]
  BY <1>1
<1>4. \A i, j \in 1 .. Len(rest) : i < j =>
        /\ rest[i].tags \cap rest[j].tags = {}
        /\ \A t \in rest[j].tags : FirstTag(rest[i]) < t
  BY DEF Rest
<1>5. tail # <<>> => Head(tail) = tail[1]
  BY <1>2
<1>6. tail # <<>> <=> n > 0
  <2> HIDE DEF tail, f
  <2>1. Len(<<>>) = 0 /\ (tail # <<>> => Len(tail) \in Nat \ {0})
    BY <1>2, EmptySeq
  <2> QED
    BY <1>2, <2>1
<1> HIDE DEF tail, n, f
<1>7. \A i \in 1 .. n : i + 1 \in 1 .. Len(rest) /\ 1 < i + 1
  BY <1>1, <1>2
<1>8. tail \in Rest(X)
  <2>1. ASSUME NEW i \in 1 .. n, NEW j \in 1 .. n, i < j
        PROVE  /\ tail[i].tags \cap tail[j].tags = {}
               /\ \A t \in tail[j].tags : FirstTag(tail[i]) < t
    <3>1. i + 1 < j + 1
      BY <1>2, <2>1
    <3> QED
      BY <1>2, <1>4, <1>7, <3>1
  <2> QED
    BY <1>2, <2>1 DEF Rest, n
<1>9. 1 \in 1 .. Len(rest)
  BY <1>1
<1>10. ASSUME NEW t
       PROVE  t \in Tags(rest) <=> t \in f.tags \/ t \in Tags(tail)
  <2>1. t \in Tags(rest) <=> \E i \in 1 .. Len(rest) : t \in rest[i].tags
    BY TagsAre
  <2>2. t \in Tags(tail) <=> \E i \in 1 .. n : t \in tail[i].tags
    BY TagsAre DEF n
  <2>3. ASSUME NEW i \in 1 .. Len(rest)
        PROVE  i = 1 \/ \E j \in 1 .. n : i = j + 1
    <3>1. i = 1 \/ (i - 1 \in 1 .. n /\ i = (i - 1) + 1)
      BY <1>1, <1>2
    <3> QED
      BY <3>1
  <2> QED
    BY <1>2, <1>3, <1>7, <1>9, <2>1, <2>2, <2>3
<1>11. ASSUME NEW t \in Tags(tail)
       PROVE  t \notin f.tags /\ FirstTag(f) < t
  <2>1. PICK i \in 1 .. n : t \in tail[i].tags
    BY TagsAre DEF n
  <2> QED
    BY <1>2, <1>3, <1>4, <1>7, <1>9, <2>1
<1>12. Tags(tail) \subseteq Nat
  BY <1>2, TagsTyped
<1>13. f \in FieldSet /\ FirstTag(f) \in Nat
  BY <1>2, FieldTags
<1>14. \A t \in Tags(rest) : FirstTag(f) <= t
  BY <1>10, <1>11, <1>12, <1>13, FieldTags
<1>15. tail # <<>> <=> Len(rest) > 1
  BY <1>1, <1>2, <1>6
<1>16. tail # <<>> => Head(tail) = rest[2]
  BY <1>2, <1>5, <1>6
<1>17. Tags(rest) = f.tags \cup Tags(tail) /\ f.tags \cap Tags(tail) = {}
  BY <1>10, <1>11
<1> QED
  BY <1>2, <1>3, <1>8, <1>12, <1>14, <1>15, <1>16, <1>17 DEF tail, f

(* A tag that none of them starts below is below them all, if it is none   *)
(* of theirs.                                                              *)
LEMMA BelowRest ==
  ASSUME NEW X \in SUBSET FieldSet, NEW rest \in Rest(X), NEW T \in SUBSET Nat,
         T \cap Tags(rest) = {},
         ~ \E t \in T : rest # <<>> /\ FirstTag(Head(rest)) < t
  PROVE  Below(T, Tags(rest))
<1>1. CASE rest = <<>>
  <2>1. Len(rest) = 0
    BY <1>1
  <2>2. Tags(rest) = {}
    BY <2>1, TagsAre
  <2> QED
    BY <2>2 DEF Below
<1>2. CASE rest # <<>>
  <2>1. /\ Head(rest) \in FieldSet
        /\ Tags(rest) \subseteq Nat
        /\ \A t \in Tags(rest) : FirstTag(Head(rest)) <= t
    <3>1. rest \in Seq(X)
      BY DEF Rest
    <3> QED
      BY <1>2, <3>1, RestStep, TagsTyped
  <2>2. FirstTag(Head(rest)) \in Nat
    BY <2>1, FieldTags
  <2>3. ASSUME NEW t \in T, NEW u \in Tags(rest)
        PROVE  t < u
    <3>1. t \in Nat /\ u \in Nat /\ t # u
      BY <2>1
    <3>2. ~ FirstTag(Head(rest)) < t /\ FirstTag(Head(rest)) <= u
      BY <1>2, <2>1
    <3> QED
      BY <2>2, <3>1, <3>2
  <2> QED
    BY <2>3 DEF Below
<1> QED
  BY <1>1, <1>2

(* A field that does not overlap the next one is below the others.         *)
LEMMA NotOverlapping ==
  ASSUME NEW X \in SUBSET FieldSet, NEW rest \in Rest(X), rest # <<>>,
         ~ (Tail(rest) # <<>> /\ FirstTag(Head(Tail(rest))) < LastTag(Head(rest)))
  PROVE  Below(Head(rest).tags, Tags(Tail(rest)))
<1> DEFINE f == Head(rest)
           tail == Tail(rest)
<1>1. f \in FieldSet /\ tail \in Rest(X) /\ f.tags \cap Tags(tail) = {}
  BY RestStep
<1>2. f.tags \subseteq Nat /\ LastTag(f) \in Nat /\ \A t \in f.tags : t <= LastTag(f)
  BY <1>1, FieldTags
<1>3. tail # <<>> => FirstTag(Head(tail)) \in Nat
  BY <1>1, RestStep, FieldTags
<1> HIDE DEF f, tail
<1>4. ~ \E t \in f.tags : tail # <<>> /\ FirstTag(Head(tail)) < t
  <2>1. SUFFICES ASSUME tail # <<>>, NEW t \in f.tags, FirstTag(Head(tail)) < t
                 PROVE  FALSE
    OBVIOUS
  <2>2. ~ FirstTag(Head(tail)) < LastTag(f)
    BY <2>1 DEF f, tail
  <2> QED
    BY <1>2, <1>3, <2>1, <2>2
<1> QED
  BY <1>1, <1>2, <1>4, BelowRest DEF f, tail

-----------------------------------------------------------------------------
(* Chunks.                                                                 *)

(* A tag of the chunks is a tag of a group of one of them.                 *)
LEMMA ChunksTagsAre ==
  \A cs : \A t :
    t \in ChunksTags(cs) <=>
      \E c \in 1 .. Len(cs) : t \in PartsTags(cs[c].parts)
  BY DEF ChunksTags

(* Adding a chunk above the others.                                        *)
LEMMA AppendChunk ==
  ASSUME NEW X, NEW cs \in Chunks(X), NEW chunk \in Chunk(X),
         Below(ChunksTags(cs), PartsTags(chunk.parts))
  PROVE  /\ Append(cs, chunk) \in Chunks(X)
         /\ ChunksTags(Append(cs, chunk)) =
              ChunksTags(cs) \cup PartsTags(chunk.parts)
<1> DEFINE n == Len(cs)
           more == Append(cs, chunk)
<1>1. cs \in Seq(Chunk(X)) /\ n \in Nat
  BY LenProperties DEF Chunks
<1>2. /\ more \in Seq(Chunk(X)) /\ Len(more) = n + 1
      /\ \A c \in 1 .. n : more[c] = cs[c]
      /\ more[n + 1] = chunk
  BY <1>1, AppendProperties
<1>3. \A c, d \in 1 .. n :
        c < d => Below(PartsTags(cs[c].parts), PartsTags(cs[d].parts))
  BY DEF Chunks
<1>4. \A c \in 1 .. n : Below(PartsTags(cs[c].parts), PartsTags(chunk.parts))
  BY ChunksTagsAre DEF Below
<1> HIDE DEF n, more
<1>5. ASSUME NEW c \in 1 .. n + 1, NEW d \in 1 .. n + 1, c < d
      PROVE  Below(PartsTags(more[c].parts), PartsTags(more[d].parts))
  <2>1. c \in 1 .. n /\ (d \in 1 .. n \/ d = n + 1)
    BY <1>1, <1>5
  <2> QED
    BY <1>2, <1>3, <1>4, <1>5, <2>1
<1>6. ASSUME NEW t
      PROVE  t \in ChunksTags(more) <=>
               t \in ChunksTags(cs) \/ t \in PartsTags(chunk.parts)
  <2>1. t \in ChunksTags(more) <=> \E c \in 1 .. n + 1 : t \in PartsTags(more[c].parts)
    BY <1>2, ChunksTagsAre
  <2>2. t \in ChunksTags(cs) <=> \E c \in 1 .. n : t \in PartsTags(cs[c].parts)
    BY ChunksTagsAre DEF n
  <2>3. ASSUME NEW c \in 1 .. n + 1
        PROVE  c = n + 1 \/ c \in 1 .. n
    BY <1>1
  <2>4. (1 .. n) \subseteq (1 .. n + 1) /\ n + 1 \in 1 .. n + 1
    BY <1>1
  <2> QED
    BY <1>2, <2>1, <2>2, <2>3, <2>4
<1>7. more \in Chunks(X)
  BY <1>2, <1>5 DEF Chunks
<1> QED
  BY <1>6, <1>7 DEF more

(* Nothing is left of a group that has been pushed.                        *)
LEMMA NoParts ==
  \A X : /\ <<>> \in Parts(X) /\ <<>> \in Seq(X) /\ Ascend(<<>>)
         /\ PartsTags(<<>>) = {} /\ Tags(<<>>) = {} /\ ChunksTags(<<>>) = {}
         /\ <<>> \in Chunks(X)
         /\ \A rest : GroupOK(X, <<>>, <<>>, {}, rest)
<1>1. Len(<<>>) = 0 /\ 1 .. 0 = {}
  OBVIOUS
<1>2. PartsTags(<<>>) = {} /\ Tags(<<>>) = {} /\ ChunksTags(<<>>) = {}
  BY <1>1, PartsTagsAre, TagsAre, ChunksTagsAre
<1>3. ASSUME NEW X
      PROVE  <<>> \in Parts(X) /\ <<>> \in Seq(X) /\ Ascend(<<>>)
             /\ <<>> \in Chunks(X)
  BY <1>1 DEF Parts, Ascend, Chunks
<1>4. ASSUME NEW X, NEW rest
      PROVE  GroupOK(X, <<>>, <<>>, {}, rest)
  BY <1>1, <1>2, <1>3 DEF GroupOK, Below
<1> QED
  BY <1>2, <1>3, <1>4

-----------------------------------------------------------------------------
(* A turn of the scan.                                                     *)

(* What Settle makes of a group with the fields that are left after it.    *)
Ends(tags, rest) == ~ \E t \in tags : rest # <<>> /\ FirstTag(Head(rest)) < t

(* Settle keeps the scan's invariant and every tag, whether the group ends *)
(* before the fields that are left or goes on with them.                   *)
LEMMA SettledGroup ==
  ASSUME NEW X \in SUBSET FieldSet, NEW cs \in Chunks(X), NEW rest \in Rest(X),
         NEW parts, NEW run, NEW tags, tags # {},
         GroupOK(X, parts, run, tags, rest),
         Below(ChunksTags(cs), PartsTags(parts) \cup Tags(run) \cup Tags(rest))
  PROVE  /\ Ends(tags, rest) =>
              LET more == Append(cs, SortGroup(Flushed(parts, run))) IN
                /\ ScanOK(X, more, <<>>, <<>>, {}, rest)
                /\ AllTags(more, <<>>, <<>>, rest) = AllTags(cs, parts, run, rest)
         /\ ~ Ends(tags, rest) => ScanOK(X, cs, parts, run, tags, rest)
<1> DEFINE chunk == SortGroup(Flushed(parts, run))
           more == Append(cs, chunk)
<1>1. /\ parts \in Parts(X) /\ run \in Seq(X)
      /\ tags \subseteq PartsTags(parts)
      /\ PartsTags(parts) \cap Tags(rest) = {}
      /\ Below(Tags(run), Tags(rest))
      /\ Below(PartsTags(parts) \ tags, Tags(run) \cup Tags(rest))
  BY DEF GroupOK
<1>2. /\ Flushed(parts, run) \in Parts(X)
      /\ PartsTags(Flushed(parts, run)) = PartsTags(parts) \cup Tags(run)
  BY FlushedParts
<1>3. chunk \in Chunk(X) /\ chunk.parts = Flushed(parts, run)
  BY <1>2 DEF SortGroup, Chunk
<1>4. Below(ChunksTags(cs), PartsTags(chunk.parts))
  BY <1>2, <1>3 DEF Below
<1> HIDE DEF chunk
<1>5. /\ more \in Chunks(X)
      /\ ChunksTags(more) = ChunksTags(cs) \cup PartsTags(parts) \cup Tags(run)
  BY <1>2, <1>3, <1>4, AppendChunk
<1> HIDE DEF more
<1>6. ASSUME Ends(tags, rest)
      PROVE  /\ ScanOK(X, more, <<>>, <<>>, {}, rest)
             /\ AllTags(more, <<>>, <<>>, rest) = AllTags(cs, parts, run, rest)
  <2>1. tags \subseteq Nat
    <3>1. parts \in Seq(Part(X))
      BY <1>1 DEF Parts
    <3> QED
      BY <1>1, <3>1, PartsTyped
  <2>2. Below(tags, Tags(rest))
    BY <1>1, <1>6, <2>1, BelowRest DEF Ends
  <2>3. Below(ChunksTags(more), Tags(rest))
    BY <1>1, <1>5, <2>2 DEF Below
  <2>4. AllTags(more, <<>>, <<>>, rest) = AllTags(cs, parts, run, rest)
    BY <1>5, NoParts DEF AllTags
  <2>5. Below(ChunksTags(more), PartsTags(<<>>) \cup Tags(<<>>) \cup Tags(rest))
    BY <2>3, NoParts
  <2>6. GroupOK(X, <<>>, <<>>, {}, rest)
    BY NoParts
  <2> QED
    BY <1>5, <2>4, <2>5, <2>6 DEF ScanOK
<1>7. ASSUME ~ Ends(tags, rest)
      PROVE  ScanOK(X, cs, parts, run, tags, rest)
  <2>1. rest # <<>> /\ \E t \in tags : FirstTag(Head(rest)) < t
    BY <1>7 DEF Ends
  <2> QED
    BY <2>1 DEF ScanOK
<1> QED
  BY <1>6, <1>7 DEF more, chunk

(* What was cut off before a field is added to the group, whose tags are   *)
(* no tags of the field: those of runs are below it, the others in tags or *)
(* below it.                                                               *)
LEMMA GroupBefore ==
  ASSUME NEW X \in SUBSET FieldSet, NEW rest \in Rest(X), rest # <<>>,
         NEW parts, NEW run, NEW tags, GroupOK(X, parts, run, tags, rest)
  PROVE  LET cut == Flushed(parts, run)
             f == Head(rest)
             tail == Tail(rest)
         IN /\ cut \in Parts(X) /\ Len(cut) \in Nat
            /\ PartsTags(cut) = PartsTags(parts) \cup Tags(run)
            /\ tags \subseteq PartsTags(cut) /\ PartsTags(cut) \subseteq Nat
            /\ PartsTags(cut) \cap (f.tags \cup Tags(tail)) = {}
            /\ \A p \in 1 .. Len(cut) :
                 cut[p].kind = "Contiguous" =>
                   Below(Tags(cut[p].fields), f.tags \cup Tags(tail))
            /\ Below(PartsTags(cut) \ tags, f.tags \cup Tags(tail))
            /\ tags \subseteq Nat /\ f.tags \subseteq Nat
<1> DEFINE cut == Flushed(parts, run)
           f == Head(rest)
           tail == Tail(rest)
<1>1. /\ f \in FieldSet /\ Tags(rest) = f.tags \cup Tags(tail)
      /\ f.tags \subseteq Nat
  BY RestStep, FieldTags
<1>2. /\ cut \in Parts(X)
      /\ PartsTags(cut) = PartsTags(parts) \cup Tags(run)
      /\ \A p \in 1 .. Len(cut) :
           cut[p].kind = "Contiguous" => Below(Tags(cut[p].fields), Tags(rest))
  BY FlushedParts
<1>3. cut \in Seq(Part(X)) /\ Len(cut) \in Nat
  BY <1>2, LenProperties DEF Parts
<1> HIDE DEF cut, f, tail
<1>4. PartsTags(cut) \subseteq Nat
  BY <1>3, PartsTyped
<1>5. /\ tags \subseteq PartsTags(parts)
      /\ PartsTags(parts) \cap Tags(rest) = {}
      /\ Below(Tags(run), Tags(rest))
      /\ Below(PartsTags(parts) \ tags, Tags(run) \cup Tags(rest))
  BY DEF GroupOK
<1>6. rest \in Seq(X) /\ run \in Seq(X)
  BY DEF Rest, GroupOK
<1>7. Tags(run) \cap Tags(rest) = {}
  <2>1. Tags(run) \subseteq Nat
    BY <1>6, TagsTyped
  <2> QED
    BY <1>5, <2>1 DEF Below
<1>8. Below(PartsTags(cut) \ tags, Tags(rest))
  BY <1>2, <1>5 DEF Below
<1> QED
  BY <1>1, <1>2, <1>3, <1>4, <1>5, <1>7, <1>8 DEF cut, f, tail

(* The tags of the group when a oneof is added: those of its own that are  *)
(* not among them are below the fields that are left.                      *)
Widened(tags, tags2, rest) ==
  /\ tags \subseteq tags2 /\ tags2 \subseteq tags \cup Head(rest).tags
  /\ Below(Head(rest).tags \ tags2, Tags(Tail(rest)))

(* A oneof is added as a part of its own; its tags are put with the others *)
(* if they interleave with those of later fields.                          *)
LEMMA OneofAdded ==
  ASSUME NEW X \in SUBSET FieldSet, NEW rest \in Rest(X), rest # <<>>,
         NEW parts, NEW run, NEW tags, GroupOK(X, parts, run, tags, rest),
         Head(rest).kind = "Oneof",
         NEW tags2, Widened(tags, tags2, rest)
  PROVE  /\ GroupOK(X, Append(Flushed(parts, run), OneofPart(Head(rest))),
                    <<>>, tags2, Tail(rest))
         /\ PartsTags(Append(Flushed(parts, run), OneofPart(Head(rest)))) =
              PartsTags(parts) \cup Tags(run) \cup Head(rest).tags
<1> DEFINE cut == Flushed(parts, run)
           f == Head(rest)
           tail == Tail(rest)
           part == OneofPart(f)
           more == Append(cut, part)
<1>1. /\ cut \in Parts(X) /\ Len(cut) \in Nat
      /\ PartsTags(cut) = PartsTags(parts) \cup Tags(run)
      /\ tags \subseteq PartsTags(cut) /\ PartsTags(cut) \subseteq Nat
      /\ PartsTags(cut) \cap (f.tags \cup Tags(tail)) = {}
      /\ \A p \in 1 .. Len(cut) :
           cut[p].kind = "Contiguous" =>
             Below(Tags(cut[p].fields), f.tags \cup Tags(tail))
      /\ Below(PartsTags(cut) \ tags, f.tags \cup Tags(tail))
  BY GroupBefore
<1>2. f \in X /\ f.tags \cap Tags(tail) = {}
  BY RestStep
<1>3. part \in Part(X) /\ Tags(part.fields) = f.tags /\ part.kind = "OneofPart"
  BY <1>2, OneFieldParts DEF OneofPart
<1>4. /\ tags \subseteq tags2 /\ tags2 \subseteq tags \cup f.tags
      /\ Below(f.tags \ tags2, Tags(tail))
  BY DEF Widened
<1> HIDE DEF cut, f, tail, part
<1>5. ASSUME NEW p \in 1 .. Len(cut)
      PROVE  FitsAfter(cut[p], part)
  <2>1. Tags(cut[p].fields) \subseteq PartsTags(cut)
    BY PartsTagsAre
  <2>2. cut[p].kind = "Contiguous" => Below(Tags(cut[p].fields), f.tags)
    BY <1>1 DEF Below
  <2> QED
    BY <1>1, <1>3, <2>1, <2>2 DEF FitsAfter
<1>6. /\ more \in Parts(X) /\ Len(more) = Len(cut) + 1
      /\ \A p \in 1 .. Len(cut) : more[p] = cut[p]
      /\ more[Len(cut) + 1] = part
      /\ PartsTags(more) = PartsTags(cut) \cup f.tags
  BY <1>1, <1>3, <1>5, AppendPart
<1> HIDE DEF more
<1>7. ASSUME NEW p \in 1 .. Len(more), more[p].kind = "Contiguous"
      PROVE  Below(Tags(more[p].fields), Tags(tail))
  <2>1. p \in 1 .. Len(cut) \/ p = Len(cut) + 1
    BY <1>1, <1>6
  <2>2. p \in 1 .. Len(cut)
    BY <1>3, <1>6, <1>7, <2>1
  <2> QED
    BY <1>1, <1>6, <1>7, <2>2 DEF Below
<1>8. ASSUME NEW p \in 1 .. Len(more)
      PROVE  FitsAfter(more[p], Contiguous(<<>>))
  BY NoParts DEF FitsAfter, Contiguous, Below, Beside
<1>9. tags2 \subseteq PartsTags(more) /\ PartsTags(more) \cap Tags(tail) = {}
  BY <1>1, <1>2, <1>4, <1>6
<1>10. Below(PartsTags(more) \ tags2, Tags(<<>>) \cup Tags(tail))
  BY <1>1, <1>4, <1>6, NoParts DEF Below
<1>11. Below(Tags(<<>>), Tags(tail))
  BY NoParts DEF Below
<1>12. GroupOK(X, more, <<>>, tags2, tail)
  BY <1>6, <1>7, <1>8, <1>9, <1>10, <1>11, NoParts DEF GroupOK
<1> QED
  BY <1>1, <1>6, <1>12 DEF more, cut, f, tail, part

(* A field that no tag of an earlier oneof is within.                      *)
LEMMA BesideField ==
  ASSUME NEW f \in FieldSet, NEW t \in Nat,
         ~ (FirstTag(f) <= t /\ t <= LastTag(f))
  PROVE  Beside(f.tags, t)
<1>1. /\ FirstTag(f) \in Nat /\ \A u \in f.tags : FirstTag(f) <= u
      /\ LastTag(f) \in Nat /\ \A u \in f.tags : u <= LastTag(f)
      /\ f.tags \subseteq Nat
  BY FieldTags
<1>2. CASE t < FirstTag(f)
  BY <1>1, <1>2 DEF Beside
<1>3. CASE LastTag(f) < t
  BY <1>1, <1>3 DEF Beside
<1> QED
  BY <1>1, <1>2, <1>3

(* Such a field starts a new run: the run before it ends.                  *)
LEMMA RunSplit ==
  ASSUME NEW X \in SUBSET FieldSet, NEW rest \in Rest(X), rest # <<>>,
         NEW parts, NEW run, NEW tags, GroupOK(X, parts, run, tags, rest),
         Below(Head(rest).tags, Tags(Tail(rest))),
         ~ \E t \in tags : FirstTag(Head(rest)) <= t /\ t <= LastTag(Head(rest))
  PROVE  /\ GroupOK(X, Flushed(parts, run), <<Head(rest)>>, tags, Tail(rest))
         /\ PartsTags(Flushed(parts, run)) = PartsTags(parts) \cup Tags(run)
<1> DEFINE cut == Flushed(parts, run)
           f == Head(rest)
           tail == Tail(rest)
           next == <<f>>
<1>1. /\ cut \in Parts(X) /\ Len(cut) \in Nat
      /\ PartsTags(cut) = PartsTags(parts) \cup Tags(run)
      /\ tags \subseteq PartsTags(cut) /\ PartsTags(cut) \subseteq Nat
      /\ PartsTags(cut) \cap (f.tags \cup Tags(tail)) = {}
      /\ \A p \in 1 .. Len(cut) :
           cut[p].kind = "Contiguous" =>
             Below(Tags(cut[p].fields), f.tags \cup Tags(tail))
      /\ Below(PartsTags(cut) \ tags, f.tags \cup Tags(tail))
  BY GroupBefore
<1>2. f \in X /\ f \in FieldSet /\ f.tags \subseteq Nat
  BY RestStep, FieldTags
<1>3. /\ Below(f.tags, Tags(tail))
      /\ ~ \E t \in tags : FirstTag(f) <= t /\ t <= LastTag(f)
  OBVIOUS
<1> HIDE DEF cut, tail, f
<1>4. /\ next \in Seq(X) /\ Ascend(next) /\ Tags(next) = f.tags
      /\ Contiguous(next).fields = next /\ Contiguous(next).kind = "Contiguous"
  <2>1. Len(next) = 1
    OBVIOUS
  <2> QED
    BY <1>2, <2>1, TagsOfOne DEF Ascend, Contiguous
<1> HIDE DEF next
<1>5. ASSUME NEW t \in PartsTags(cut)
      PROVE  Beside(f.tags, t)
  <2>1. CASE t \in tags
    BY <1>1, <1>2, <1>3, <2>1, BesideField
  <2>2. CASE t \notin tags
    BY <1>1, <2>2 DEF Below, Beside
  <2> QED
    BY <2>1, <2>2
<1>6. ASSUME NEW p \in 1 .. Len(cut)
      PROVE  FitsAfter(cut[p], Contiguous(next))
  <2>1. Tags(cut[p].fields) \subseteq PartsTags(cut)
    BY PartsTagsAre
  <2>2. cut[p].kind = "Contiguous" => Below(Tags(cut[p].fields), f.tags)
    BY <1>1 DEF Below
  <2> QED
    BY <1>1, <1>4, <1>5, <2>1, <2>2 DEF FitsAfter
<1>7. \A p \in 1 .. Len(cut) :
        cut[p].kind = "Contiguous" => Below(Tags(cut[p].fields), Tags(tail))
  BY <1>1 DEF Below
<1>8. Below(PartsTags(cut) \ tags, Tags(next) \cup Tags(tail))
  BY <1>1, <1>4
<1>9. Below(Tags(next), Tags(tail)) /\ PartsTags(cut) \cap Tags(tail) = {}
  BY <1>1, <1>3, <1>4
<1>10. GroupOK(X, cut, next, tags, tail)
  BY <1>1, <1>4, <1>6, <1>7, <1>8, <1>9 DEF GroupOK
<1> QED
  BY <1>1, <1>10 DEF cut, next, tail, f

(* Or it is added to the run, if no such tag comes between the two.        *)
LEMMA RunExtended ==
  ASSUME NEW X \in SUBSET FieldSet, NEW rest \in Rest(X), rest # <<>>,
         NEW parts, NEW run, NEW tags, GroupOK(X, parts, run, tags, rest),
         Below(Head(rest).tags, Tags(Tail(rest))),
         ~ \E t \in tags : FirstTag(Head(rest)) <= t /\ t <= LastTag(Head(rest)),
         run # <<>> =>
           ~ \E t \in tags :
               LastTag(run[Len(run)]) <= t /\ t <= FirstTag(Head(rest))
  PROVE  /\ GroupOK(X, parts, Append(run, Head(rest)), tags, Tail(rest))
         /\ Tags(Append(run, Head(rest))) = Tags(run) \cup Head(rest).tags
<1> DEFINE f == Head(rest)
           tail == Tail(rest)
           more == Append(run, f)
           n == Len(run)
<1>1. /\ parts \in Parts(X) /\ run \in Seq(X) /\ Ascend(run)
      /\ \A p \in 1 .. Len(parts) : FitsAfter(parts[p], Contiguous(run))
      /\ tags \subseteq PartsTags(parts)
      /\ PartsTags(parts) \cap Tags(rest) = {}
      /\ \A p \in 1 .. Len(parts) :
           parts[p].kind = "Contiguous" => Below(Tags(parts[p].fields), Tags(rest))
      /\ Below(Tags(run), Tags(rest))
      /\ Below(PartsTags(parts) \ tags, Tags(run) \cup Tags(rest))
  BY DEF GroupOK
<1>2. f \in X /\ f \in FieldSet /\ Tags(rest) = f.tags \cup Tags(tail)
  BY RestStep
<1>3. /\ f.tags \subseteq Nat /\ FirstTag(f) \in f.tags
      /\ FirstTag(f) \in Nat /\ LastTag(f) \in Nat
      /\ \A t \in f.tags : FirstTag(f) <= t /\ t <= LastTag(f)
  BY <1>2, FieldTags
<1>4. Tags(run) \subseteq Nat /\ \A i \in 1 .. n : run[i] \in FieldSet
  BY <1>1, TagsTyped
<1>5. /\ Below(f.tags, Tags(tail))
      /\ ~ \E t \in tags : FirstTag(f) <= t /\ t <= LastTag(f)
      /\ run # <<>> =>
           ~ \E t \in tags : LastTag(run[n]) <= t /\ t <= FirstTag(f)
  OBVIOUS
<1>6. PartsTags(parts) \subseteq Nat
  <2>1. parts \in Seq(Part(X))
    BY <1>1 DEF Parts
  <2> QED
    BY <2>1, PartsTyped
<1> HIDE DEF f, tail
<1>7. /\ n \in Nat /\ more \in Seq(X) /\ Len(more) = n + 1
      /\ \A i \in 1 .. n : more[i] = run[i]
      /\ more[n + 1] = f
      /\ Tags(more) = Tags(run) \cup f.tags
  BY <1>1, <1>2, AppendProperties, LenProperties, TagsOfAppend
<1> HIDE DEF more
<1>8. Below(Tags(run), f.tags)
  BY <1>1, <1>2 DEF Below
<1>9. Ascend(more)
  <2>1. ASSUME NEW i \in 1 .. n + 1, NEW j \in 1 .. n + 1, i < j
        PROVE  Below(more[i].tags, more[j].tags)
    <3>1. i \in 1 .. n /\ (j \in 1 .. n \/ j = n + 1)
      BY <1>7, <2>1
    <3>2. CASE j \in 1 .. n
      BY <1>1, <1>7, <2>1, <3>1, <3>2 DEF Ascend
    <3>3. CASE j = n + 1
      <4>1. run[i].tags \subseteq Tags(run)
        BY <3>1, TagsAre
      <4> QED
        BY <1>7, <1>8, <3>1, <3>3, <4>1 DEF Below
    <3> QED
      BY <3>1, <3>2, <3>3
  <2> QED
    BY <1>7, <2>1 DEF Ascend
<1>10. ASSUME NEW t \in tags, Beside(Tags(run), t)
       PROVE  Beside(Tags(more), t)
  <2>1. t \in Nat /\ Beside(f.tags, t)
    BY <1>1, <1>2, <1>5, <1>6, BesideField
  <2>2. CASE run = <<>>
    <3>1. n = 0
      BY <2>2
    <3>2. Tags(run) = {}
      BY <3>1, TagsAre
    <3> QED
      BY <1>7, <2>1, <3>2
  <2>3. CASE run # <<>>
    <3> DEFINE last == LastTag(run[n])
    <3>1. n \in 1 .. n
      BY <1>1, <2>3, EmptySeq
    <3>2. last \in run[n].tags
      BY <1>4, <3>1, FieldTags
    <3>3. last \in Tags(run) /\ last \in Nat
      BY <1>4, <3>1, <3>2, TagsAre
    <3>4. ~ (last <= t /\ t <= FirstTag(f)) /\ ~ (FirstTag(f) <= t /\ t <= LastTag(f))
      BY <1>5, <2>3
    <3> HIDE DEF last
    <3>5. CASE t < last
      <4>1. ~ (last < t)
        BY <2>1, <3>3, <3>5
      <4>2. \A s \in Tags(run) : t < s
        BY <1>10, <3>3, <4>1 DEF Beside
      <4>3. \A s \in f.tags : t < s
        BY <1>3, <1>8, <2>1, <3>3, <3>5 DEF Below
      <4> QED
        BY <1>7, <4>2, <4>3 DEF Beside
    <3>6. CASE ~ (t < last)
      <4>1. LastTag(f) < t
        BY <1>3, <2>1, <3>3, <3>4, <3>6
      <4>2. \A s \in f.tags : s < t
        BY <1>3, <2>1, <4>1
      <4>3. \A s \in Tags(run) : s < t
        BY <1>3, <1>4, <1>8, <2>1, <4>2 DEF Below
      <4> QED
        BY <1>7, <4>2, <4>3 DEF Beside
    <3> QED
      BY <3>5, <3>6
  <2> QED
    BY <2>2, <2>3
<1>11. ASSUME NEW p \in 1 .. Len(parts)
       PROVE  FitsAfter(parts[p], Contiguous(more))
  <2>1. Tags(parts[p].fields) \subseteq PartsTags(parts)
    BY PartsTagsAre
  <2>2. /\ Tags(parts[p].fields) \cap Tags(run) = {}
        /\ parts[p].kind = "Contiguous" =>
             Below(Tags(parts[p].fields), Tags(run))
        /\ \A t \in Tags(parts[p].fields) : Beside(Tags(run), t)
    BY <1>1 DEF FitsAfter, Contiguous
  <2>3. ASSUME NEW t \in Tags(parts[p].fields)
        PROVE  Beside(Tags(more), t)
    <3>1. CASE t \in tags
      BY <1>10, <2>2, <3>1
    <3>2. CASE t \notin tags
      BY <1>1, <1>2, <1>7, <2>1, <3>2 DEF Below, Beside
    <3> QED
      BY <3>1, <3>2
  <2>4. Tags(parts[p].fields) \cap Tags(more) = {}
    BY <1>1, <1>2, <1>7, <2>1, <2>2
  <2>5. parts[p].kind = "Contiguous" => Below(Tags(parts[p].fields), Tags(more))
    BY <1>1, <1>2, <1>7, <2>2 DEF Below
  <2> QED
    BY <2>3, <2>4, <2>5 DEF FitsAfter, Contiguous
<1>12. PartsTags(parts) \cap Tags(tail) = {}
  BY <1>1, <1>2
<1>13. \A p \in 1 .. Len(parts) :
         parts[p].kind = "Contiguous" => Below(Tags(parts[p].fields), Tags(tail))
  BY <1>1, <1>2 DEF Below
<1>14. Below(Tags(more), Tags(tail))
  BY <1>1, <1>2, <1>5, <1>7 DEF Below
<1>15. Below(PartsTags(parts) \ tags, Tags(more) \cup Tags(tail))
  BY <1>1, <1>2, <1>7 DEF Below
<1>16. GroupOK(X, parts, more, tags, tail)
  BY <1>1, <1>7, <1>9, <1>11, <1>12, <1>13, <1>14, <1>15 DEF GroupOK
<1> QED
  BY <1>7, <1>16 DEF more, f, tail

-----------------------------------------------------------------------------
(* The actions of the scan keep all of this.                               *)

FieldsOf == {parsed[i] : i \in 1 .. Len(parsed)}

ScanInv == ScanOK(FieldsOf, chunks, group, contiguous, oneofTags, fields)
Seen == AllTags(chunks, group, contiguous, fields)

(* What the guards say of the field at hand.                               *)
LEMMA Guards ==
  ASSUME NEW X \in SUBSET FieldSet, fields # <<>>,
         ScanOK(X, chunks, group, contiguous, oneofTags, fields)
  PROVE  /\ InSortGroup <=> oneofTags # {}
         /\ \A t : NextStartsBelow(t) <=>
              Tail(fields) # <<>> /\ FirstTag(Head(Tail(fields))) < t
         /\ ~ Overlaps => Below(This.tags, Tags(Tail(fields)))
         /\ Overlaps => This.kind = "Oneof"
         /\ Interleaved => This.kind = "Oneof"
         /\ This.tags # {}
<1> DEFINE f == Head(fields)
           tail == Tail(fields)
<1>1. /\ fields \in Rest(X)
      /\ GroupOK(X, group, contiguous, oneofTags, fields)
      /\ oneofTags # {} => \E t \in oneofTags : FirstTag(f) < t
  BY DEF ScanOK
<1>2. /\ f \in FieldSet /\ tail \in Rest(X)
      /\ Tags(fields) = f.tags \cup Tags(tail)
      /\ \A t \in Tags(fields) : FirstTag(f) <= t
      /\ tail # <<>> <=> Len(fields) > 1
      /\ tail # <<>> => Head(tail) = fields[2]
  BY <1>1, RestStep
<1>3. /\ FirstTag(f) \in f.tags /\ LastTag(f) \in f.tags /\ f.tags \subseteq Nat
      /\ FirstTag(f) \in Nat /\ LastTag(f) \in Nat /\ f.tags # {}
  BY <1>2, FieldTags
<1>4. oneofTags \subseteq Nat /\ oneofTags \cap Tags(fields) = {}
  <2>1. /\ group \in Seq(Part(X)) /\ oneofTags \subseteq PartsTags(group)
        /\ PartsTags(group) \cap Tags(fields) = {}
    BY <1>1 DEF GroupOK, Parts
  <2> QED
    BY <2>1, PartsTyped
<1>5. InSortGroup <=> oneofTags # {}
  BY <1>1, <1>3, <1>4 DEF InSortGroup, This
<1>6. \A t : NextStartsBelow(t) <=> tail # <<>> /\ FirstTag(Head(tail)) < t
  <2> HIDE DEF tail
  <2> QED
    BY <1>2 DEF NextStartsBelow
<1>7. Overlaps <=> tail # <<>> /\ FirstTag(Head(tail)) < LastTag(f)
  BY <1>6 DEF Overlaps, This
<1>8. ~ Overlaps => Below(f.tags, Tags(tail))
  BY <1>1, <1>7, NotOverlapping
<1>9. ASSUME Overlaps
      PROVE  f.kind = "Oneof"
  <2>1. /\ Head(tail) \in FieldSet /\ tail # <<>>
        /\ FirstTag(Head(tail)) < LastTag(f)
    BY <1>2, <1>7, <1>9, RestStep
  <2>2. FirstTag(Head(tail)) \in Tags(tail) /\ FirstTag(Head(tail)) \in Nat
    <3> HIDE DEF tail
    <3>1. Tags(tail) = Head(tail).tags \cup Tags(Tail(tail))
      BY <1>2, <2>1, RestStep
    <3>2. FirstTag(Head(tail)) \in Head(tail).tags /\ FirstTag(Head(tail)) \in Nat
      BY <2>1, FieldTags
    <3> QED
      BY <3>1, <3>2
  <2>3. FirstTag(f) <= FirstTag(Head(tail))
    BY <1>2, <2>2
  <2>4. FirstTag(f) # LastTag(f)
    <3> HIDE DEF f, tail
    <3> QED
      BY <1>3, <2>1, <2>2, <2>3
  <2> QED
    BY <1>2, <1>3, <2>4, TwoTags
<1>10. ASSUME Interleaved
       PROVE  f.kind = "Oneof"
  <2>1. PICK t \in oneofTags : FirstTag(f) <= t /\ t <= LastTag(f)
    BY <1>10 DEF Interleaved, OneofTagWithin, This
  <2>2. t \in Nat /\ t \notin f.tags
    BY <1>2, <1>4, <2>1
  <2>3. FirstTag(f) # LastTag(f)
    <3> HIDE DEF f, tail
    <3> QED
      BY <1>3, <2>1, <2>2
  <2> QED
    BY <1>2, <1>3, <2>3, TwoTags
<1> QED
  BY <1>3, <1>5, <1>6, <1>8, <1>9, <1>10 DEF This

(* The end of a turn, with a group that fits.                              *)
LEMMA SettleKeeps ==
  ASSUME NEW X \in SUBSET FieldSet, fields # <<>>,
         ScanOK(X, chunks, group, contiguous, oneofTags, fields),
         NEW parts, NEW run, NEW tags, tags # {},
         GroupOK(X, parts, run, tags, Tail(fields)),
         PartsTags(parts) \cup Tags(run) =
           PartsTags(group) \cup Tags(contiguous) \cup This.tags,
         Settle(parts, run, tags)
  PROVE  /\ ScanOK(X, chunks', group', contiguous', oneofTags', fields')
         /\ AllTags(chunks', group', contiguous', fields') = Seen
<1> DEFINE tail == Tail(fields)
           more == Append(chunks, SortGroup(Flushed(parts, run)))
<1>1. /\ chunks \in Chunks(X) /\ fields \in Rest(X)
      /\ Below(ChunksTags(chunks),
               PartsTags(group) \cup Tags(contiguous) \cup Tags(fields))
  BY DEF ScanOK
<1>2. tail \in Rest(X) /\ Tags(fields) = This.tags \cup Tags(tail)
  BY <1>1, RestStep DEF This
<1>3. GroupEnds(tags) <=> Ends(tags, tail)
  BY Guards DEF GroupEnds, Ends
<1>4. GroupOK(X, parts, run, tags, tail)
  OBVIOUS
<1>5. IF Ends(tags, tail)
      THEN /\ chunks' = more /\ group' = <<>> /\ contiguous' = <<>>
           /\ oneofTags' = {} /\ fields' = tail
      ELSE /\ chunks' = chunks /\ group' = parts /\ contiguous' = run
           /\ oneofTags' = tags /\ fields' = tail
  BY <1>3 DEF Settle
<1> HIDE DEF tail, more
<1>6. Below(ChunksTags(chunks), PartsTags(parts) \cup Tags(run) \cup Tags(tail))
  BY <1>1, <1>2 DEF Below
<1>7. AllTags(chunks, parts, run, tail) = Seen
  BY <1>2 DEF AllTags, Seen
<1>8. /\ Ends(tags, tail) =>
           /\ ScanOK(X, more, <<>>, <<>>, {}, tail)
           /\ AllTags(more, <<>>, <<>>, tail) = AllTags(chunks, parts, run, tail)
      /\ ~ Ends(tags, tail) => ScanOK(X, chunks, parts, run, tags, tail)
  BY <1>1, <1>2, <1>4, <1>6, SettledGroup DEF more
<1>9. CASE Ends(tags, tail)
  BY <1>5, <1>7, <1>8, <1>9
<1>10. CASE ~ Ends(tags, tail)
  BY <1>5, <1>7, <1>8, <1>10
<1> QED
  BY <1>9, <1>10

(* One of the five turns of the scan.                                      *)
Turn ==
  \/ AddOverlapping \/ AddInterleaved \/ AddContiguous
  \/ StartGroup \/ AddAlwaysOrdered

(* Whatever branch a turn takes, the invariant holds of what it leaves, and*)
(* what is cut off, held in the group or left has the tags it had.         *)
LEMMA TurnKeeps ==
  ASSUME NEW X \in SUBSET FieldSet,
         ScanOK(X, chunks, group, contiguous, oneofTags, fields), Turn
  PROVE  /\ ScanOK(X, chunks', group', contiguous', oneofTags', fields')
         /\ AllTags(chunks', group', contiguous', fields') = Seen
<1> DEFINE f == Head(fields)
           tail == Tail(fields)
           cut == Flushed(group, contiguous)
<1>1. fields # <<>>
  BY DEF Turn, AddOverlapping, AddInterleaved, AddContiguous, StartGroup,
         AddAlwaysOrdered, Scanning
<1>2. /\ InSortGroup <=> oneofTags # {}
      /\ ~ Overlaps => Below(f.tags, Tags(tail))
      /\ Overlaps => f.kind = "Oneof"
      /\ Interleaved => f.kind = "Oneof"
      /\ f.tags # {} /\ This = f
  BY <1>1, Guards DEF This
<1>3. /\ chunks \in Chunks(X) /\ fields \in Rest(X)
      /\ GroupOK(X, group, contiguous, oneofTags, fields)
      /\ oneofTags = {} => group = <<>> /\ contiguous = <<>>
      /\ Below(ChunksTags(chunks),
               PartsTags(group) \cup Tags(contiguous) \cup Tags(fields))
  BY DEF ScanOK
<1>4. /\ f \in X /\ f \in FieldSet /\ tail \in Rest(X)
      /\ Tags(fields) = f.tags \cup Tags(tail)
  BY <1>1, <1>3, RestStep
<1>5. CASE AddOverlapping
  <2> DEFINE more == Append(cut, OneofPart(f))
             all == oneofTags \cup f.tags
  <2>1. Settle(more, <<>>, all) /\ f.kind = "Oneof"
    BY <1>2, <1>5 DEF AddOverlapping
  <2>2. /\ GroupOK(X, more, <<>>, all, tail)
        /\ PartsTags(more) = PartsTags(group) \cup Tags(contiguous) \cup f.tags
    <3>1. Widened(oneofTags, all, fields)
      BY DEF Widened, Below
    <3> HIDE DEF all
    <3> QED
      BY <1>1, <1>3, <2>1, <3>1, OneofAdded
  <2>3. /\ PartsTags(more) \cup Tags(<<>>) =
             PartsTags(group) \cup Tags(contiguous) \cup This.tags
        /\ all # {}
    BY <1>2, <2>2, NoParts
  <2> HIDE DEF more, all
  <2> QED
    BY <1>1, <2>1, <2>2, <2>3, SettleKeeps
<1>6. CASE AddInterleaved
  <2> DEFINE more == Append(cut, OneofPart(f))
  <2>1. Settle(more, <<>>, oneofTags) /\ f.kind = "Oneof"
    BY <1>2, <1>6 DEF AddInterleaved
  <2>2. Below(f.tags, Tags(tail)) /\ oneofTags # {}
    BY <1>2, <1>6 DEF AddInterleaved
  <2>3. /\ GroupOK(X, more, <<>>, oneofTags, tail)
        /\ PartsTags(more) = PartsTags(group) \cup Tags(contiguous) \cup f.tags
    <3>1. Widened(oneofTags, oneofTags, fields)
      BY <2>2 DEF Widened, Below
    <3> QED
      BY <1>1, <1>3, <2>1, <3>1, OneofAdded
  <2>4. PartsTags(more) \cup Tags(<<>>) =
          PartsTags(group) \cup Tags(contiguous) \cup This.tags
    BY <1>2, <2>3, NoParts
  <2> HIDE DEF more
  <2> QED
    BY <1>1, <2>1, <2>2, <2>3, <2>4, SettleKeeps
<1>7. CASE AddContiguous
  <2>1. /\ Below(f.tags, Tags(tail)) /\ oneofTags # {}
        /\ ~ \E t \in oneofTags : FirstTag(f) <= t /\ t <= LastTag(f)
    BY <1>2, <1>7 DEF AddContiguous, Interleaved, OneofTagWithin
  <2>2. CASE SplitsRun
    <3> DEFINE next == <<f>>
    <3>1. Settle(cut, next, oneofTags)
      BY <1>2, <1>7, <2>2 DEF AddContiguous
    <3>2. /\ GroupOK(X, cut, next, oneofTags, tail)
          /\ PartsTags(cut) = PartsTags(group) \cup Tags(contiguous)
      BY <1>1, <1>3, <2>1, RunSplit
    <3>3. PartsTags(cut) \cup Tags(next) =
            PartsTags(group) \cup Tags(contiguous) \cup This.tags
      BY <1>2, <3>2, TagsOfOne
    <3> HIDE DEF next, cut
    <3> QED
      BY <1>1, <2>1, <3>1, <3>2, <3>3, SettleKeeps
  <2>3. CASE ~ SplitsRun
    <3> DEFINE more == Append(contiguous, f)
    <3>1. Settle(group, more, oneofTags)
      BY <1>2, <1>7, <2>3 DEF AddContiguous
    <3>2. contiguous # <<>> =>
            ~ \E t \in oneofTags :
                LastTag(contiguous[Len(contiguous)]) <= t /\ t <= FirstTag(f)
      BY <1>2, <2>3 DEF SplitsRun, OneofTagWithin
    <3>3. /\ GroupOK(X, group, more, oneofTags, tail)
          /\ Tags(more) = Tags(contiguous) \cup f.tags
      BY <1>1, <1>3, <2>1, <3>2, RunExtended
    <3>4. PartsTags(group) \cup Tags(more) =
            PartsTags(group) \cup Tags(contiguous) \cup This.tags
      BY <1>2, <3>3
    <3> HIDE DEF more
    <3> QED
      BY <1>1, <2>1, <3>1, <3>3, <3>4, SettleKeeps
  <2> QED
    BY <2>2, <2>3
<1>8. CASE StartGroup
  <2> DEFINE more == Append(group, OneofPart(f))
  <2>1. Settle(more, contiguous, f.tags) /\ f.kind = "Oneof"
    BY <1>2, <1>8 DEF StartGroup
  <2>2. oneofTags = {} /\ group = <<>> /\ contiguous = <<>>
    BY <1>2, <1>3, <1>8 DEF StartGroup
  <2>3. cut = group /\ Widened(oneofTags, f.tags, fields)
    BY <2>2 DEF Flushed, Widened, Below
  <2>4. /\ GroupOK(X, more, <<>>, f.tags, tail)
        /\ PartsTags(more) = PartsTags(group) \cup Tags(contiguous) \cup f.tags
    BY <1>1, <1>3, <2>1, <2>3, OneofAdded
  <2>5. PartsTags(more) \cup Tags(contiguous) =
          PartsTags(group) \cup Tags(contiguous) \cup This.tags
    BY <1>2, <2>4
  <2>6. GroupOK(X, more, contiguous, f.tags, tail)
    BY <2>2, <2>4
  <2> HIDE DEF more
  <2> QED
    BY <1>1, <1>2, <2>1, <2>5, <2>6, SettleKeeps
<1>9. CASE AddAlwaysOrdered
  <2> DEFINE chunk == AlwaysOrdered(f)
             parts == <<Contiguous(<<f>>)>>
             more == Append(chunks, chunk)
  <2>1. /\ chunks' = more /\ fields' = tail /\ group' = group
        /\ contiguous' = contiguous /\ oneofTags' = oneofTags
    BY <1>2, <1>9 DEF AddAlwaysOrdered
  <2>2. /\ oneofTags = {} /\ group = <<>> /\ contiguous = <<>>
        /\ Below(f.tags, Tags(tail))
    BY <1>2, <1>3, <1>9 DEF AddAlwaysOrdered
  <2>3. /\ parts \in Parts(X) /\ PartsTags(parts) = f.tags
    BY <1>4, OneFieldParts, OnePart
  <2>4. chunk \in Chunk(X) /\ chunk.parts = parts
    BY <2>3 DEF AlwaysOrdered, Chunk
  <2>5. Below(ChunksTags(chunks), PartsTags(chunk.parts))
    BY <1>3, <1>4, <2>3, <2>4 DEF Below
  <2> HIDE DEF chunk, parts
  <2>6. more \in Chunks(X) /\ ChunksTags(more) = ChunksTags(chunks) \cup f.tags
    BY <1>3, <2>3, <2>4, <2>5, AppendChunk
  <2> HIDE DEF more
  <2>7. GroupOK(X, <<>>, <<>>, {}, tail)
    BY NoParts
  <2>8. Below(ChunksTags(more), PartsTags(<<>>) \cup Tags(<<>>) \cup Tags(tail))
    BY <1>3, <1>4, <2>2, <2>6, NoParts DEF Below
  <2>9. ScanOK(X, more, <<>>, <<>>, {}, tail)
    BY <1>4, <2>6, <2>7, <2>8 DEF ScanOK
  <2>10. AllTags(more, <<>>, <<>>, tail) = Seen
    BY <1>4, <2>2, <2>6 DEF AllTags, Seen
  <2> QED
    BY <2>1, <2>2, <2>9, <2>10
<1> QED
  BY <1>5, <1>6, <1>7, <1>8, <1>9 DEF Turn

-----------------------------------------------------------------------------
(* The order of the scan.                                                  *)

(* As many members of a finite set have smaller keys as come before.       *)
SmallerKeys(S, key, j) == {k \in S : key[k] < key[j]}

(* The members of a set in the order of their keys are all of them.        *)
LEMMA InOrderIs ==
  ASSUME NEW S, IsFiniteSet(S), NEW key \in [S -> Int],
         \A i, j \in S : key[i] = key[j] => i = j
  PROVE  LET order == InOrder(S, key) IN
           /\ order \in Seq(S) /\ Len(order) = Cardinality(S)
           /\ \A i, j \in 1 .. Len(order) : i < j => key[order[i]] < key[order[j]]
           /\ \A s \in S : \E i \in 1 .. Len(order) : order[i] = s
<1> DEFINE n == Cardinality(S)
           order == InOrder(S, key)
           smaller(j) == SmallerKeys(S, key, j)
           rank(j) == Cardinality(smaller(j))
<1>1. n \in Nat
  BY FS_CardinalityType
<1>2. ASSUME NEW j \in S
      PROVE  /\ IsFiniteSet(smaller(j)) /\ rank(j) \in Nat /\ rank(j) + 1 \in 1 .. n
  <2>1. smaller(j) \subseteq S \ {j}
    BY DEF SmallerKeys
  <2>2. IsFiniteSet(S \ {j}) /\ Cardinality(S \ {j}) = n - 1
    BY FS_RemoveElement
  <2> HIDE DEF smaller, n
  <2>3. IsFiniteSet(smaller(j)) /\ Cardinality(smaller(j)) <= n - 1
    BY <2>1, <2>2, FS_Subset
  <2>4. Cardinality(smaller(j)) \in Nat
    BY <2>3, FS_CardinalityType
  <2> QED
    BY <1>1, <2>3, <2>4
<1>3. ASSUME NEW i \in S, NEW j \in S, key[i] < key[j]
      PROVE  rank(i) < rank(j)
  <2>1. key[i] \in Int /\ key[j] \in Int
    OBVIOUS
  <2>2. smaller(i) \subseteq smaller(j)
    BY <1>3, <2>1 DEF SmallerKeys
  <2>3. i \in smaller(j) /\ i \notin smaller(i)
    BY <1>3, <2>1 DEF SmallerKeys
  <2> HIDE DEF smaller
  <2>4. /\ Cardinality(smaller(i)) <= Cardinality(smaller(j))
        /\ Cardinality(smaller(j)) = Cardinality(smaller(i)) => smaller(j) = smaller(i)
    BY <1>2, <2>2, FS_Subset
  <2>5. Cardinality(smaller(j)) # Cardinality(smaller(i))
    BY <2>3, <2>4
  <2> QED
    BY <1>2, <2>4, <2>5
<1>4. ASSUME NEW i \in S, NEW j \in S, i # j
      PROVE  key[i] < key[j] \/ key[j] < key[i]
  BY <1>4
<1> HIDE DEF rank, smaller
<1>5. ASSUME NEW i \in S, NEW j \in S, rank(i) = rank(j)
      PROVE  i = j
  BY <1>2, <1>3, <1>4, <1>5
<1>6. ASSUME NEW i \in 1 .. n
      PROVE  \E j \in S : rank(j) = i - 1
  <2> DEFINE f == [j \in S |-> rank(j) + 1]
             D == 1 .. n
  <2>1. f \in Injection(S, D)
    <3>1. f \in [S -> D]
      BY <1>2
    <3>2. ASSUME NEW a \in S, NEW b \in S, f[a] = f[b]
          PROVE  a = b
      <4>1. rank(a) = rank(b)
        BY <1>2, <3>2
      <4> QED
        BY <1>5, <4>1
    <3> QED
      BY <3>1, <3>2 DEF Injection, IsInjective
  <2>2. IsFiniteSet(D) /\ Cardinality(D) = n
    BY <1>1, FS_Interval
  <2> HIDE DEF f, D
  <2>3. f \in Surjection(S, D)
    BY <2>1, <2>2, FS_Injection DEF n
  <2>4. PICK j \in S : f[j] = i
    BY <2>3 DEF Surjection, D
  <2> QED
    BY <1>1, <1>2, <2>4 DEF f
<1>7. order = [i \in 1 .. n |-> CHOOSE j \in S : rank(j) = i - 1]
  BY DEF InOrder, rank, smaller, SmallerKeys
<1> HIDE DEF order, n
<1>8. ASSUME NEW i \in 1 .. n
      PROVE  order[i] \in S /\ rank(order[i]) = i - 1
  BY <1>6, <1>7
<1>9. order \in Seq(S) /\ Len(order) = n
  <2>1. order \in [1 .. n -> S]
    BY <1>7, <1>8
  <2> QED
    BY <1>1, <2>1, FunctionIsSeq
<1>10. ASSUME NEW i \in 1 .. n, NEW j \in 1 .. n, i < j
       PROVE  key[order[i]] < key[order[j]]
  <2>1. rank(order[i]) < rank(order[j]) /\ order[i] \in S /\ order[j] \in S
    BY <1>1, <1>8, <1>10
  <2>2. order[i] # order[j] /\ ~ (rank(order[j]) < rank(order[i]))
    BY <1>2, <2>1
  <2> QED
    BY <1>3, <1>4, <2>1, <2>2
<1>11. ASSUME NEW s \in S
       PROVE  \E i \in 1 .. n : order[i] = s
  <2>1. rank(s) \in Nat /\ rank(s) + 1 \in 1 .. n
    BY <1>2
  <2>2. order[rank(s) + 1] \in S /\ rank(order[rank(s) + 1]) = rank(s)
    BY <1>8, <2>1
  <2> QED
    BY <1>5, <2>1, <2>2
<1> QED
  BY <1>9, <1>10, <1>11 DEF order, n

-----------------------------------------------------------------------------
(* What the parser makes of a field.                                       *)

(* A sequence of sequences is made into one.                               *)
LEMMA FlattenTyped ==
  ASSUME NEW S, NEW seqs \in Seq(Seq(S))
  PROVE  FlattenSeq(seqs) \in Seq(S)
<1>1. CASE Len(seqs) = 0
  <2>1. FlattenSeq(seqs) = seqs
    BY <1>1 DEF FlattenSeq
  <2>2. seqs = <<>>
    BY <1>1, EmptySeq
  <2>3. <<>> \in Seq(S)
    BY EmptySeq
  <2> QED
    BY <2>1, <2>2, <2>3
<1>2. CASE Len(seqs) # 0
  <2>1. Len(seqs) \in Nat /\ Len(seqs) > 0
    BY <1>2, LenProperties
  <2>2. PICK f \in [1 .. Len(seqs) -> Seq(S)] : FlattenSeq(seqs) = f[Len(seqs)]
    BY <2>1, FlattenDef
  <2>3. Len(seqs) \in 1 .. Len(seqs)
    BY <2>1
  <2> QED
    BY <2>2, <2>3
<1> QED
  BY <1>1, <1>2

(* The attributes of a field, in however many bilrost(..) they are given.  *)
LEMMA AttrsTyped ==
  ASSUME NEW groups \in Seq(Seq(Attribute))
  PROVE  BilrostAttrs(groups) \in Seq(Attribute)
<1> DEFINE n == Len(groups)
           one(i) == IF IsShorthand(groups[i]) THEN <<Attr("tag", groups[i][1].arg)>>
                     ELSE groups[i]
           seqs == [i \in 1 .. n |-> one(i)]
<1>1. n \in Nat
  BY LenProperties
<1>2. ASSUME NEW i \in 1 .. n
      PROVE  one(i) \in Seq(Attribute)
  <2>1. groups[i] \in Seq(Attribute)
    BY ElementOfSeq
  <2>2. CASE IsShorthand(groups[i])
    <3>1. groups[i][1] \in Attribute
      BY <2>1, <2>2, ElementOfSeq DEF IsShorthand
    <3>2. groups[i][1].arg \in Seq(Argument)
      BY <3>1 DEF Attribute
    <3>3. Attr("tag", groups[i][1].arg) \in Attribute
      BY <3>2 DEF Attr, Attribute
    <3> QED
      BY <2>2, <3>3
  <2>3. CASE ~ IsShorthand(groups[i])
    BY <2>1, <2>3
  <2> QED
    BY <2>2, <2>3
<1>3. seqs \in Seq(Seq(Attribute))
  <2> HIDE DEF one
  <2>1. seqs \in [1 .. n -> Seq(Attribute)]
    BY <1>2
  <2> HIDE DEF seqs, n
  <2> QED
    BY <1>1, <2>1, FunctionIsSeq
<1>4. BilrostAttrs(groups) = FlattenSeq(seqs)
  BY DEF BilrostAttrs
<1> HIDE DEF seqs
<1> QED
  BY <1>3, <1>4, FlattenTyped

(* The arguments of an attribute that is given.                            *)
LEMMA TheTyped ==
  ASSUME NEW attrs \in Seq(Attribute), NEW name, Given(attrs, name)
  PROVE  /\ \E i \in Named(attrs, name) : The(attrs, name) = attrs[i].arg
         /\ The(attrs, name) \in Seq(Argument)
<1>1. \E i : i \in Named(attrs, name)
  BY DEF Given
<1>2. PICK i \in Named(attrs, name) : The(attrs, name) = attrs[i].arg
  BY <1>1 DEF The
<1>3. attrs[i] \in Attribute
  BY <1>2, ElementOfSeq DEF Named
<1> QED
  BY <1>2, <1>3 DEF Attribute

(* A valid list of tags names at least one, and nothing that is no tag.    *)
LEMMA TagListTyped ==
  ASSUME NEW arg \in Seq(Argument),
         NEW limit, ~ TagListRefused(arg, limit), arg # NoItems
  PROVE  TagsOf(arg) # {} /\ TagsOf(arg) \subseteq Tag
<1>1. /\ arg # <<>>
      /\ \A i \in 1 .. Len(arg) : arg[i].low \in Tag /\ arg[i].high \in Tag
      /\ ~ Invalid(RangesOf(arg), limit)
  BY DEF TagListRefused
<1>2. Len(RangesOf(arg)) = Len(arg) /\ Len(arg) \in Nat \ {0}
  BY <1>1, EmptySeq DEF RangesOf
<1>3. \A i \in 1 .. Len(arg) : ~ (RangesOf(arg)[i][1] > RangesOf(arg)[i][2])
  BY <1>1, <1>2 DEF Invalid
<1>4. ASSUME NEW i \in 1 .. Len(arg)
      PROVE  /\ RangeOf(arg[i])[1] \in Tag /\ RangeOf(arg[i])[2] \in Tag
             /\ ~ RangeOf(arg[i])[1] > RangeOf(arg[i])[2]
  <2>1. MaxTag \in Nat
    BY FieldOrderAssumption
  <2>2. RangesOf(arg)[i] = RangeOf(arg[i])
    BY DEF RangesOf
  <2>3. RangeOf(arg[i]) \in Tag \X Tag
    <3>1. arg[i].low \in Tag /\ arg[i].high \in Tag /\ 0 \in Tag /\ MaxTag \in Tag
      BY <1>1, <2>1 DEF Tag
    <3> HIDE DEF Tag
    <3> QED
      BY <3>1 DEF RangeOf
  <2> QED
    BY <1>3, <2>2, <2>3
<1>5. ASSUME NEW i \in 1 .. Len(arg)
      PROVE  /\ RangeOf(arg[i])[1] \in RangeOf(arg[i])[1] .. RangeOf(arg[i])[2]
             /\ RangeOf(arg[i])[1] .. RangeOf(arg[i])[2] \subseteq Tag
  <2>1. MaxTag \in Nat
    BY FieldOrderAssumption
  <2> QED
    BY <1>4, <2>1 DEF Tag
<1>6. 1 \in 1 .. Len(arg)
  BY <1>2
<1> QED
  BY <1>5, <1>6 DEF TagsOf

(* Every field that is not refused is ignored or a field with tags.        *)
LEMMA FieldTyped ==
  ASSUME NEW groups \in Seq(Seq(Attribute)), NEW inferred,
         ~ FieldRefused(groups, inferred)
  PROVE  \/ FieldOf(groups, inferred).kind = "Ignored"
         \/ FieldOf(groups, inferred) \in FieldSet
<1> DEFINE attrs == BilrostAttrs(groups)
           f == FieldOf(groups, inferred)
<1>1. attrs \in Seq(Attribute)
  BY AttrsTyped
<1>2. /\ Given(attrs, "ignore") => f.kind = "Ignored"
      /\ ~ Given(attrs, "ignore") /\ Given(attrs, "oneof") =>
           f = [kind |-> "Oneof", tags |-> TagsOf(The(attrs, "oneof")),
                init |-> "empty"]
      /\ ~ Given(attrs, "ignore") /\ ~ Given(attrs, "oneof") =>
           f = [kind |-> "Value", init |-> "empty",
                tags |-> IF Given(attrs, "tag") THEN {The(attrs, "tag")[1].low}
                         ELSE {inferred}]
  BY DEF FieldOf
<1>3. /\ ~ Given(attrs, "ignore") /\ Given(attrs, "oneof") =>
           /\ ~ TagListRefused(The(attrs, "oneof"), RangeLimit)
           /\ The(attrs, "oneof") # NoItems
      /\ ~ Given(attrs, "ignore") /\ ~ Given(attrs, "oneof") =>
           /\ \A i \in Named(attrs, "tag") : ~ TagRefused(attrs[i].arg)
           /\ Given(attrs, "tag") \/ inferred \in Tag
  BY DEF FieldRefused, OneofRefused, ValueRefused, TagAttrRefused
<1> HIDE DEF attrs, f
<1>4. CASE Given(attrs, "ignore")
  BY <1>2, <1>4 DEF f
<1>5. CASE ~ Given(attrs, "ignore") /\ Given(attrs, "oneof")
  <2> DEFINE T == TagsOf(The(attrs, "oneof"))
  <2>1. The(attrs, "oneof") \in Seq(Argument)
    BY <1>1, <1>5, TheTyped
  <2>2. T # {} /\ T \subseteq Tag
    BY <1>3, <1>5, <2>1, TagListTyped
  <2>3. f = [kind |-> "Oneof", tags |-> T, init |-> "empty"]
    BY <1>2, <1>5
  <2> HIDE DEF T
  <2>4. f \in Declared /\ f.kind = "Oneof" /\ f.tags # {}
    BY <2>2, <2>3 DEF Declared
  <2> QED
    BY <2>4 DEF FieldSet, f
<1>6. CASE ~ Given(attrs, "ignore") /\ ~ Given(attrs, "oneof")
  <2>1. \E t \in Tag : f = [kind |-> "Value", tags |-> {t}, init |-> "empty"]
    <3>1. CASE Given(attrs, "tag")
      <4>1. PICK i \in Named(attrs, "tag") : The(attrs, "tag") = attrs[i].arg
        BY <1>1, <3>1, TheTyped
      <4>2. attrs[i].arg[1].low \in Tag
        BY <1>3, <1>6, <4>1 DEF TagRefused
      <4>3. f = [kind |-> "Value", tags |-> {The(attrs, "tag")[1].low},
                 init |-> "empty"]
        BY <1>2, <1>6, <3>1
      <4> QED
        BY <4>1, <4>2, <4>3
    <3>2. CASE ~ Given(attrs, "tag")
      <4>1. f = [kind |-> "Value", tags |-> {inferred}, init |-> "empty"]
        BY <1>2, <1>6, <3>2
      <4> QED
        BY <1>3, <1>6, <3>2, <4>1
    <3> QED
      BY <3>1, <3>2
  <2>2. PICK t \in Tag : f = [kind |-> "Value", tags |-> {t}, init |-> "empty"]
    BY <2>1
  <2>3. f \in Declared /\ f.kind = "Value" /\ f.tags = {t}
    BY <2>2 DEF Declared
  <2> QED
    BY <2>3 DEF FieldSet, f
<1> QED
  BY <1>4, <1>5, <1>6

-----------------------------------------------------------------------------
(* The scan starts with all the fields in the order of their first tags.   *)

LEMMA StartScanKeeps ==
  ASSUME parsed \in Seq(FieldSet), StartScan, ~ FieldsRefused
  PROVE  /\ fields' \in Rest(FieldsOf)
         /\ Tags(fields') = Tags(parsed)
<1> DEFINE n == Len(parsed)
           all == 1 .. n
           key == [i \in all |-> FirstTag(parsed[i])]
           order == InOrder(all, key)
           sorted == [i \in all |-> parsed[order[i]]]
<1>1. fields' = sorted
  BY DEF StartScan
<1>2. n \in Nat /\ \A i \in all : parsed[i] \in FieldSet
  BY LenProperties, ElementOfSeq
<1>3. \A i, j \in all : i # j => parsed[i].tags \cap parsed[j].tags = {}
  BY DEF FieldsRefused, HasDuplicateTag
<1>4. ASSUME NEW i \in all
      PROVE  /\ FirstTag(parsed[i]) \in parsed[i].tags
             /\ FirstTag(parsed[i]) \in Nat /\ parsed[i].tags \subseteq Nat
             /\ \A t \in parsed[i].tags : FirstTag(parsed[i]) <= t
  BY <1>2, FieldTags
<1>5. \A i \in all : key[i] = FirstTag(parsed[i])
  OBVIOUS
<1>6. key \in [all -> Int] /\ \A i, j \in all : key[i] = key[j] => i = j
  <2>1. key \in [all -> Int]
    <3>1. \A i \in all : FirstTag(parsed[i]) \in Int
      BY <1>4
    <3> QED
      BY ONLY <3>1 DEF key
  <2> HIDE DEF key, all
  <2>2. ASSUME NEW i \in all, NEW j \in all, key[i] = key[j], i # j
        PROVE  FALSE
    <3>1. FirstTag(parsed[i]) \in parsed[i].tags
      BY <1>4
    <3>2. FirstTag(parsed[j]) \in parsed[j].tags
      BY <1>4
    <3>3. FirstTag(parsed[i]) = FirstTag(parsed[j])
      BY ONLY <1>5, <2>2
    <3>4. parsed[i].tags \cap parsed[j].tags = {}
      BY ONLY <1>3, <2>2
    <3> QED
      BY ONLY <3>1, <3>2, <3>3, <3>4
  <2> QED
    BY ONLY <2>1, <2>2
<1>7. IsFiniteSet(all) /\ Cardinality(all) = n
  <2> HIDE DEF n, key, order, sorted
  <2>1. 1 \in Int /\ n \in Int /\ 1 <= n + 1 /\ n - 1 + 1 = n
    BY ONLY <1>2
  <2>2. /\ IsFiniteSet(1 .. n)
        /\ Cardinality(1 .. n) = IF 1 > n THEN 0 ELSE n - 1 + 1
    BY ONLY <2>1, FS_Interval
  <2>3. (IF 1 > n THEN 0 ELSE n - 1 + 1) = n
    BY ONLY <1>2
  <2> QED
    BY ONLY <2>2, <2>3 DEF all
<1> HIDE DEF key, order, all
<1>8. /\ order \in Seq(all) /\ Len(order) = n
      /\ \A i, j \in 1 .. n : i < j => key[order[i]] < key[order[j]]
      /\ \A s \in all : \E i \in 1 .. n : order[i] = s
  BY <1>6, <1>7, InOrderIs DEF order
<1>9. \A i \in 1 .. n : order[i] \in all
  BY <1>8, ElementOfSeq
<1>10. sorted \in [1 .. n -> FieldsOf] /\ \A i \in 1 .. n : sorted[i] = parsed[order[i]]
  BY <1>9 DEF all, FieldsOf
<1> HIDE DEF sorted
<1>11. sorted \in Seq(FieldsOf) /\ Len(sorted) = n
  BY <1>2, <1>10, FunctionIsSeq
<1>12. ASSUME NEW i \in 1 .. n, NEW j \in 1 .. n, i < j
       PROVE  /\ sorted[i].tags \cap sorted[j].tags = {}
              /\ \A t \in sorted[j].tags : FirstTag(sorted[i]) < t
  <2>1. order[i] \in all /\ order[j] \in all
    BY <1>9
  <2>2. FirstTag(parsed[order[i]]) < FirstTag(parsed[order[j]])
    BY <1>5, <1>8, <1>12, <2>1
  <2>3. order[i] # order[j]
    BY <1>4, <2>1, <2>2
  <2>4. ASSUME NEW t \in parsed[order[j]].tags
        PROVE  FirstTag(parsed[order[i]]) < t
    <3>1. /\ FirstTag(parsed[order[j]]) <= t /\ t \in Nat
          /\ FirstTag(parsed[order[i]]) \in Nat
          /\ FirstTag(parsed[order[j]]) \in Nat
      BY <1>4, <2>1
    <3> QED
      BY <2>2, <3>1
  <2> QED
    BY <1>3, <1>10, <2>1, <2>3, <2>4
<1>13. sorted \in Rest(FieldsOf)
  BY <1>11, <1>12 DEF Rest
<1>14. ASSUME NEW t
       PROVE  t \in Tags(sorted) <=> t \in Tags(parsed)
  <2>1. t \in Tags(sorted) <=> \E i \in 1 .. n : t \in sorted[i].tags
    BY <1>11, TagsAre
  <2>2. t \in Tags(parsed) <=> \E i \in all : t \in parsed[i].tags
    BY TagsAre DEF all
  <2>3. ASSUME NEW i \in 1 .. n, t \in sorted[i].tags
        PROVE  \E j \in all : t \in parsed[j].tags
    <3>1. order[i] \in all /\ t \in parsed[order[i]].tags
      BY <1>9, <1>10, <2>3
    <3> QED
      BY <3>1
  <2>4. ASSUME NEW j \in all, t \in parsed[j].tags
        PROVE  \E i \in 1 .. n : t \in sorted[i].tags
    <3>1. PICK i \in 1 .. n : order[i] = j
      BY <1>8
    <3>2. sorted[i] = parsed[j]
      BY <1>10, <3>1
    <3> QED
      BY <2>4, <3>2
  <2> QED
    BY <2>1, <2>2, <2>3, <2>4
<1> QED
  BY <1>1, <1>13, <1>14

-----------------------------------------------------------------------------
(* The invariant.                                                          *)

Unscanned ==
  chunks = <<>> /\ group = <<>> /\ contiguous = <<>> /\ oneofTags = {}

OrderInv ==
  /\ declared \in Declarations
  /\ parsed \in Seq(FieldSet)
  /\ phase = "parse" => fields \in Seq(Seq(Seq(Attribute)))
  /\ phase \notin {"scan", "done"} => Unscanned
  /\ phase \in {"scan", "done"} => ScanInv /\ Seen = Tags(parsed)
  /\ phase = "done" => fields = <<>>

(* All the parsed fields are fields with tags.                             *)
LEMMA FieldsOfTyped ==
  ASSUME parsed \in Seq(FieldSet)
  PROVE  FieldsOf \in SUBSET FieldSet
  BY ElementOfSeq DEF FieldsOf

(* Nothing has been parsed before the macro starts.                        *)
LEMMA InitInv == Init => OrderInv
<1> SUFFICES ASSUME Init PROVE OrderInv
  OBVIOUS
<1>1. <<>> \in Seq(FieldSet)
  BY EmptySeq
<1> QED
  BY <1>1 DEF Init, OrderInv, Unscanned

(* Every step but those of the scan leaves what has been cut off alone.    *)
LEMMA NextInv == OrderInv /\ [Next]_vars => OrderInv'
<1> SUFFICES ASSUME OrderInv, [Next]_vars
             PROVE  OrderInv'
  OBVIOUS
<1>1. /\ declared \in Declarations
      /\ parsed \in Seq(FieldSet)
      /\ phase = "parse" => fields \in Seq(Seq(Seq(Attribute)))
      /\ phase \notin {"scan", "done"} => Unscanned
      /\ phase \in {"scan", "done"} => ScanInv /\ Seen = Tags(parsed)
      /\ phase = "done" => fields = <<>>
  BY DEF OrderInv
<1>2. ASSUME Refuse, phase \in {"attributes", "parse"}
      PROVE  OrderInv'
  BY <1>1, <1>2 DEF Refuse, OrderInv, Unscanned, scanned
<1>3. CASE ReadAttributes
  <2>1. CASE AttributesRefused
    BY <1>2, <1>3, <2>1 DEF ReadAttributes
  <2>2. CASE ~ AttributesRefused
    <3>1. declared.fields \in Seq(Seq(Seq(Attribute)))
      BY <1>1, <1>3, FieldOrderAssumption DEF ReadAttributes
    <3>2. /\ phase' = "parse" /\ fields' = declared.fields /\ declared' = declared
          /\ parsed' = parsed /\ chunks' = chunks /\ group' = group
          /\ contiguous' = contiguous /\ oneofTags' = oneofTags
          /\ phase = "attributes"
      BY <1>3, <2>2 DEF ReadAttributes, scanned
    <3> QED
      BY <1>1, <3>1, <3>2 DEF OrderInv, Unscanned
  <2> QED
    BY <2>1, <2>2
<1>4. CASE DeriveEnum
  <2>1. /\ phase' \in {"refused", "derived"} /\ declared' = declared
        /\ parsed' = parsed /\ chunks' = chunks /\ group' = group
        /\ contiguous' = contiguous /\ oneofTags' = oneofTags
        /\ phase = "attributes"
    BY <1>4 DEF DeriveEnum, scanned
  <2> QED
    BY <1>1, <2>1 DEF OrderInv, Unscanned
<1>5. CASE ParseField
  <2>1. CASE FieldRefused(Head(fields), nextTag)
    BY <1>2, <1>5, <2>1 DEF ParseField
  <2>2. CASE ~ FieldRefused(Head(fields), nextTag)
    <3> DEFINE f == FieldOf(Head(fields), nextTag)
    <3>1. /\ phase = "parse" /\ fields # <<>> /\ AddField(f)
          /\ fields \in Seq(Seq(Seq(Attribute)))
      BY <1>1, <1>5, <2>2 DEF ParseField
    <3>2. /\ Head(fields) \in Seq(Seq(Attribute))
          /\ Tail(fields) \in Seq(Seq(Seq(Attribute)))
      BY <3>1, HeadTailProperties
    <3>3. f.kind = "Ignored" \/ f \in FieldSet
      BY <2>2, <3>2, FieldTyped
    <3> HIDE DEF f
    <3>4. /\ phase' = phase /\ fields' = Tail(fields) /\ declared' = declared
          /\ chunks' = chunks /\ group' = group
          /\ contiguous' = contiguous /\ oneofTags' = oneofTags
          /\ f.kind = "Ignored" => parsed' = parsed
          /\ f.kind # "Ignored" => parsed' = Append(parsed, f)
      BY <3>1 DEF AddField, scanned
    <3>5. parsed' \in Seq(FieldSet)
      BY <1>1, <3>3, <3>4, AppendProperties
    <3> QED
      BY <1>1, <3>1, <3>2, <3>4, <3>5 DEF OrderInv, Unscanned
  <2> QED
    BY <2>1, <2>2
<1>6. CASE StartScan
  <2>1. CASE FieldsRefused
    BY <1>2, <1>6, <2>1 DEF StartScan
  <2>2. CASE ~ FieldsRefused
    <3>1. fields' \in Rest(FieldsOf) /\ Tags(fields') = Tags(parsed)
      BY <1>1, <1>6, <2>2, StartScanKeeps
    <3>2. /\ phase' = "scan" /\ declared' = declared /\ parsed' = parsed
          /\ chunks' = chunks /\ group' = group
          /\ contiguous' = contiguous /\ oneofTags' = oneofTags
          /\ phase = "parse"
      BY <1>6, <2>2 DEF StartScan, scanned
    <3>3. Unscanned
      BY <1>1, <3>2
    <3>4. Below(ChunksTags(<<>>), PartsTags(<<>>) \cup Tags(<<>>) \cup Tags(fields'))
      BY NoParts DEF Below
    <3>5. ScanOK(FieldsOf, <<>>, <<>>, <<>>, {}, fields')
      BY <3>1, <3>4, NoParts DEF ScanOK
    <3>6. AllTags(<<>>, <<>>, <<>>, fields') = Tags(parsed)
      BY <3>1, NoParts DEF AllTags
    <3>7. FieldsOf' = FieldsOf
      BY <3>2 DEF FieldsOf
    <3>8. ScanInv' /\ Seen' = Tags(parsed)'
      BY <3>2, <3>3, <3>5, <3>6, <3>7 DEF Unscanned, ScanInv, Seen
    <3> QED
      BY <1>1, <3>2, <3>8 DEF OrderInv
  <2> QED
    BY <2>1, <2>2
<1>7. CASE Turn
  <2>1. /\ phase = "scan" /\ phase' = phase /\ declared' = declared
        /\ parsed' = parsed
    BY <1>7 DEF Turn, AddOverlapping, AddInterleaved, AddContiguous, StartGroup,
                AddAlwaysOrdered, Scanning, Settle
  <2>2. ScanInv /\ Seen = Tags(parsed)
    BY <1>1, <2>1
  <2>3. /\ ScanOK(FieldsOf, chunks', group', contiguous', oneofTags', fields')
        /\ AllTags(chunks', group', contiguous', fields') = Seen
    BY <1>1, <1>7, <2>2, FieldsOfTyped, TurnKeeps DEF ScanInv
  <2>4. FieldsOf' = FieldsOf
    BY <2>1 DEF FieldsOf
  <2>5. ScanInv' /\ Seen' = Tags(parsed)'
    BY <2>1, <2>2, <2>3, <2>4 DEF ScanInv, Seen
  <2> QED
    BY <1>1, <2>1, <2>5 DEF OrderInv
<1>8. CASE EndScan
  <2>1. /\ phase = "scan" /\ phase' = "done" /\ fields = <<>>
        /\ declared' = declared /\ parsed' = parsed /\ fields' = fields
        /\ chunks' = chunks /\ group' = group
        /\ contiguous' = contiguous /\ oneofTags' = oneofTags
    BY <1>8 DEF EndScan, scanned
  <2>2. ScanInv' /\ Seen' = Tags(parsed)'
    BY <1>1, <2>1 DEF ScanInv, Seen, FieldsOf
  <2> QED
    BY <1>1, <2>1, <2>2 DEF OrderInv
<1>9. CASE UNCHANGED vars
  <2>1. /\ declared' = declared /\ parsed' = parsed /\ fields' = fields
        /\ phase' = phase /\ chunks' = chunks /\ group' = group
        /\ contiguous' = contiguous /\ oneofTags' = oneofTags
    BY <1>9 DEF vars, scanned
  <2>2. phase \in {"scan", "done"} => ScanInv' /\ Seen' = Tags(parsed)'
    BY <1>1, <2>1 DEF ScanInv, Seen, FieldsOf
  <2> QED
    BY <1>1, <2>1, <2>2 DEF OrderInv, Unscanned
<1> QED
  BY <1>3, <1>4, <1>5, <1>6, <1>7, <1>8, <1>9 DEF Next, Turn

(* The scan keeps its invariant: what has been cut off is below what is    *)
(* left, and no tag is lost.                                               *)
THEOREM ScanInvariant == Spec => []OrderInv
<1>1. Init => OrderInv
  BY InitInv
<1>2. OrderInv /\ [Next]_vars => OrderInv'
  BY NextInv
<1> QED
  BY <1>1, <1>2, PTL DEF Spec

-----------------------------------------------------------------------------
(* What is emitted: sequences of tags, ascending or descending.            *)

Less == {p \in Int \X Int : p[1] < p[2]}
Greater == {p \in Int \X Int : p[1] > p[2]}

Chain(s, R) == \A i, j \in 1 .. Len(s) : i < j => <<s[i], s[j]>> \in R

(* The sequence s goes through the tags in T, each once, in the order R.   *)
Emits(s, R, T) ==
  /\ s \in Seq(Int)
  /\ Chain(s, R)
  /\ \A t : t \in T <=> \E i \in 1 .. Len(s) : s[i] = t

Precede(S, T, R) == \A s \in S : \A t \in T : <<s, t>> \in R

(* The empty sequence goes through no tags.                                *)
LEMMA EmitsNothing ==
  \A R : Emits(<<>>, R, {})
<1>1. Len(<<>>) = 0 /\ <<>> \in Seq(Int) /\ 1 .. 0 = {}
  OBVIOUS
<1> QED
  BY <1>1 DEF Emits, Chain

(* One after the other.                                                    *)
LEMMA EmitsBoth ==
  ASSUME NEW R, NEW s, NEW S, NEW t, NEW T,
         Emits(s, R, S), Emits(t, R, T), Precede(S, T, R)
  PROVE  Emits(s \o t, R, S \cup T)
<1> DEFINE m == Len(s)
           n == Len(t)
           st == s \o t
<1>1. /\ s \in Seq(Int) /\ t \in Seq(Int) /\ Chain(s, R) /\ Chain(t, R)
      /\ \A x : x \in S <=> \E i \in 1 .. m : s[i] = x
      /\ \A x : x \in T <=> \E i \in 1 .. n : t[i] = x
  BY DEF Emits
<1>2. /\ m \in Nat /\ n \in Nat /\ st \in Seq(Int) /\ Len(st) = m + n
      /\ \A i \in 1 .. m + n : st[i] = IF i <= m THEN s[i] ELSE t[i - m]
  BY <1>1, ConcatProperties, LenProperties
<1>3. /\ \A i, j \in 1 .. m : i < j => <<s[i], s[j]>> \in R
      /\ \A i, j \in 1 .. n : i < j => <<t[i], t[j]>> \in R
  BY <1>1 DEF Chain
<1> HIDE DEF m, n, st
<1>4. ASSUME NEW i \in 1 .. m + n, NEW j \in 1 .. m + n, i < j
      PROVE  <<st[i], st[j]>> \in R
  <2>1. CASE j <= m
    <3>1. i \in 1 .. m /\ j \in 1 .. m /\ st[i] = s[i] /\ st[j] = s[j]
      BY <1>2, <1>4, <2>1
    <3> QED
      BY <1>3, <1>4, <3>1
  <2>2. CASE i <= m /\ ~ (j <= m)
    <3>1. /\ i \in 1 .. m /\ j - m \in 1 .. n
          /\ st[i] = s[i] /\ st[j] = t[j - m]
      BY <1>2, <1>4, <2>2
    <3>2. st[i] \in S /\ st[j] \in T
      BY <1>1, <3>1
    <3> QED
      BY <3>2 DEF Precede
  <2>3. CASE ~ (i <= m)
    <3>1. /\ i - m \in 1 .. n /\ j - m \in 1 .. n /\ i - m < j - m
          /\ st[i] = t[i - m] /\ st[j] = t[j - m]
      BY <1>2, <1>4, <2>3
    <3> QED
      BY <1>3, <3>1
  <2> QED
    BY <1>2, <1>4, <2>1, <2>2, <2>3
<1>5. ASSUME NEW x
      PROVE  x \in S \cup T <=> \E i \in 1 .. m + n : st[i] = x
  <2>1. ASSUME x \in S
        PROVE  \E i \in 1 .. m + n : st[i] = x
    <3>1. PICK i \in 1 .. m : s[i] = x
      BY <1>1, <2>1
    <3>2. i \in 1 .. m + n /\ st[i] = x
      BY <1>2, <3>1
    <3> QED
      BY <3>2
  <2>2. ASSUME x \in T
        PROVE  \E i \in 1 .. m + n : st[i] = x
    <3>1. PICK i \in 1 .. n : t[i] = x
      BY <1>1, <2>2
    <3>2. i + m \in 1 .. m + n /\ ~ (i + m <= m) /\ (i + m) - m = i
      BY <1>2
    <3>3. st[i + m] = x
      BY <1>2, <3>1, <3>2
    <3> QED
      BY <3>2, <3>3
  <2>3. ASSUME NEW i \in 1 .. m + n, st[i] = x
        PROVE  x \in S \cup T
    <3>1. CASE i <= m
      <4>1. i \in 1 .. m /\ s[i] = x
        BY <1>2, <2>3, <3>1
      <4> QED
        BY <1>1, <4>1
    <3>2. CASE ~ (i <= m)
      <4>1. i - m \in 1 .. n /\ t[i - m] = x
        BY <1>2, <2>3, <3>2
      <4> QED
        BY <1>1, <4>1
    <3> QED
      BY <3>1, <3>2
  <2> QED
    BY <2>1, <2>2, <2>3
<1> QED
  BY <1>2, <1>4, <1>5 DEF Emits, Chain, st

(* The seqs go through the sets of tags T, which precede one another.      *)
InTurn(seqs, n, R, T) ==
  /\ seqs \in [1 .. n -> Seq(Int)]
  /\ \A i \in 1 .. n : Emits(seqs[i], R, T[i])
  /\ \A i, j \in 1 .. n : i < j => Precede(T[i], T[j], R)
UpTo(T, n) == UNION {T[i] : i \in 1 .. n}

(* Many, one after the other.                                              *)
LEMMA EmitsAll ==
  ASSUME NEW R, NEW n \in Nat, NEW seqs, NEW T, InTurn(seqs, n, R, T)
  PROVE  Emits(FlattenSeq(seqs), R, UpTo(T, n))
<1> DEFINE upTo(i) == UNION {T[k] : k \in 1 .. i}
<1> USE DEF UpTo
<1>0. /\ seqs \in [1 .. n -> Seq(Int)]
      /\ \A i \in 1 .. n : Emits(seqs[i], R, T[i])
      /\ \A i, j \in 1 .. n : i < j => Precede(T[i], T[j], R)
  BY DEF InTurn
<1>1. seqs \in Seq(Seq(Int)) /\ Len(seqs) = n
  BY <1>0, FunctionIsSeq
<1>2. CASE n = 0
  <2>1. seqs = <<>>
    BY <1>1, <1>2, EmptySeq
  <2>2. FlattenSeq(seqs) = seqs
    BY <1>1, <1>2 DEF FlattenSeq
  <2>3. upTo(n) = {}
    <3>1. 1 .. 0 = {}
      OBVIOUS
    <3> QED
      BY <1>2, <3>1
  <2>4. Emits(<<>>, R, {})
    BY EmitsNothing
  <2> QED
    BY <2>1, <2>2, <2>3, <2>4
<1>3. CASE n # 0
  <2>1. PICK f \in [1 .. n -> Seq(Int)] :
          /\ f[1] = seqs[1]
          /\ \A i \in 1 .. n - 1 : f[i + 1] = f[i] \o seqs[i + 1]
          /\ FlattenSeq(seqs) = f[n]
    <3>1. Len(seqs) > 0
      BY <1>1, <1>3
    <3>2. \E f \in [1 .. Len(seqs) -> Seq(Int)] :
           /\ f[1] = seqs[1]
           /\ \A i \in 1 .. Len(seqs) - 1 : f[i + 1] = f[i] \o seqs[i + 1]
           /\ FlattenSeq(seqs) = f[Len(seqs)]
      BY <1>1, <3>1, FlattenDef
    <3> QED
      BY <1>1, <3>2
  <2> DEFINE W == {i \in 1 .. n : Emits(f[i], R, upTo(i))}
  <2>2. 1 <= n => 1 \in W
    <3>1. 1 .. 1 = {1} /\ 1 \in 1 .. n
      BY <1>3
    <3>2. upTo(1) = T[1]
      BY <3>1
    <3>3. Emits(f[1], R, T[1])
      BY <1>0, <2>1, <3>1
    <3> QED
      BY <3>1, <3>2, <3>3
  <2>3. ASSUME NEW i \in 1 .. n - 1, i \in W
        PROVE  i + 1 \in W
    <3>1. i + 1 \in 1 .. n /\ i \in 1 .. n
      OBVIOUS
    <3>2. Precede(upTo(i), T[i + 1], R)
      <4>1. ASSUME NEW k \in 1 .. i
            PROVE  Precede(T[k], T[i + 1], R)
        <5>1. k \in 1 .. n /\ k < i + 1
          BY <3>1
        <5> QED
          BY <1>0, <3>1, <5>1
      <4> QED
        BY <4>1 DEF Precede
    <3>3. Emits(f[i], R, upTo(i)) /\ Emits(seqs[i + 1], R, T[i + 1])
      BY <1>0, <2>3, <3>1
    <3>4. upTo(i + 1) = upTo(i) \cup T[i + 1]
      <4>1. 1 .. i + 1 = (1 .. i) \cup {i + 1}
        OBVIOUS
      <4> QED
        BY <4>1
    <3>5. f[i + 1] = f[i] \o seqs[i + 1]
      BY <2>1
    <3> HIDE DEF upTo
    <3>6. Emits(f[i] \o seqs[i + 1], R, upTo(i) \cup T[i + 1])
      BY <3>2, <3>3, EmitsBoth
    <3> QED
      BY <3>1, <3>4, <3>5, <3>6
  <2>4. 1 .. n \subseteq W
    <3>1. 1 \in Int /\ n \in Int
      OBVIOUS
    <3> HIDE DEF W
    <3> QED
      BY <2>2, <2>3, <3>1, IntervalInduction
  <2>5. n \in 1 .. n
    BY <1>3
  <2> QED
    BY <2>1, <2>4, <2>5
<1> QED
  BY <1>2, <1>3

-----------------------------------------------------------------------------
(* What parts emit.                                                        *)

(* Of a field with one tag set, or none, that tag.                         *)
LEMMA EmitsOne ==
  ASSUME NEW R, NEW S \in SUBSET Tag, Cardinality(S) <= 1
  PROVE  Emits(SetToSeq(S), R, S) /\ (S = {} \/ \E t \in S : S = {t})
<1> DEFINE n == Cardinality(S)
           F == [1 .. n -> S]
           s == SetToSeq(S)
<1>1. MaxTag \in Nat
  BY FieldOrderAssumption
<1>2. IsFiniteSet(S) /\ S \subseteq Int
  <2>1. IsFiniteSet(Tag) /\ Tag \subseteq Int
    BY <1>1, FS_Interval DEF Tag
  <2>2. IsFiniteSet(S)
    BY <2>1, FS_Subset
  <2> QED
    BY <2>1, <2>2
<1>3. n \in Nat
  BY <1>2, FS_CardinalityType
<1>4. s = CHOOSE f \in F : IsInjective(f)
  BY DEF SetToSeq
<1> HIDE DEF s
<1>5. CASE n = 0
  <2>1. S = {}
    BY <1>2, <1>5, FS_EmptySet
  <2>2. <<>> \in F /\ \A f \in F : f = <<>>
    <3>1. <<>> \in Seq(S) /\ Len(<<>>) = n
      BY <1>5, EmptySeq
    <3>2. <<>> \in [1 .. Len(<<>>) -> S]
      BY <3>1, LenProperties
    <3>3. ASSUME NEW f \in [1 .. n -> S]
          PROVE  f = <<>>
      <4> HIDE DEF n
      <4>1. f \in Seq(S) /\ Len(f) = n
        BY <1>3, FunctionIsSeq
      <4> QED
        BY <1>5, <4>1, EmptySeq
    <3> QED
      BY <3>1, <3>2, <3>3
  <2>3. IsInjective(<<>>)
    BY DEF IsInjective
  <2>4. s \in F
    BY <1>4, <2>2, <2>3
  <2>5. s = <<>>
    BY <2>2, <2>4
  <2> QED
    BY <2>1, <2>5, EmitsNothing DEF s
<1>6. CASE n = 1
  <2>1. PICK x : S = {x}
    BY <1>2, <1>6, FS_Singleton
  <2>2. 1 .. n = {1}
    BY <1>6
  <2>3. [i \in {1} |-> x] \in F /\ IsInjective([i \in {1} |-> x])
    BY <2>1, <2>2 DEF IsInjective
  <2>4. s \in F
    BY <1>4, <2>3
  <2>5. s \in Seq(Int) /\ Len(s) = 1 /\ s[1] = x
    <3>1. s \in [1 .. n -> Int]
      BY <1>2, <2>4
    <3>2. s \in Seq(Int) /\ Len(s) = n
      <4> HIDE DEF n
      <4> QED
        BY <1>3, <3>1, FunctionIsSeq
    <3>3. s[1] = x
      BY <2>1, <2>2, <2>4
    <3> QED
      BY <1>6, <3>2, <3>3
  <2>6. Chain(s, R)
    BY <2>5 DEF Chain
  <2>7. \A t : t \in S <=> \E i \in 1 .. Len(s) : s[i] = t
    <3>1. 1 .. Len(s) = {1}
      BY <2>5
    <3> QED
      BY <2>1, <2>5, <3>1
  <2>8. Emits(s, R, S)
    BY <2>5, <2>6, <2>7 DEF Emits
  <2> QED
    BY <2>1, <2>8 DEF s
<1> QED
  BY <1>3, <1>5, <1>6

(* Of a run, those of its fields one after the other.                      *)
LEMMA RunEmits ==
  ASSUME NEW X \in SUBSET FieldSet, NEW run \in Seq(X), NEW set, NEW R,
         \A f \in X : Cardinality(f.tags \cap set) <= 1,
         \A i, j \in 1 .. Len(run) : i < j => Precede(run[i].tags, run[j].tags, R)
  PROVE  Emits(EmittedBy(run, set), R, Tags(run) \cap set)
<1> DEFINE n == Len(run)
           T == [i \in 1 .. n |-> run[i].tags \cap set]
           seqs == [i \in 1 .. n |-> SetToSeq(run[i].tags \cap set)]
<1>1. n \in Nat /\ \A i \in 1 .. n : run[i] \in X
  BY ElementOfSeq, LenProperties
<1>2. ASSUME NEW i \in 1 .. n
      PROVE  Emits(seqs[i], R, T[i])
  <2>1. run[i].tags \cap set \in SUBSET Tag
    BY <1>1, FieldTags
  <2>2. Emits(SetToSeq(run[i].tags \cap set), R, run[i].tags \cap set)
    BY <1>1, <2>1, EmitsOne
  <2> QED
    BY <2>2
<1>3. ASSUME NEW i \in 1 .. n, NEW j \in 1 .. n, i < j
      PROVE  Precede(T[i], T[j], R)
  <2>1. Precede(run[i].tags, run[j].tags, R)
    BY <1>3
  <2> QED
    BY <2>1 DEF Precede
<1>4. EmittedBy(run, set) = FlattenSeq(seqs)
  BY DEF EmittedBy
<1>5. UpTo(T, n) = Tags(run) \cap set
  <2>1. ASSUME NEW t
        PROVE  t \in UpTo(T, n) <=> t \in Tags(run) \cap set
    BY TagsAre DEF UpTo
  <2> QED
    BY <2>1
<1>6. DOMAIN seqs = 1 .. n /\ seqs = [i \in 1 .. n |-> seqs[i]]
  OBVIOUS
<1> HIDE DEF seqs, T, n
<1>7. seqs \in [1 .. n -> Seq(Int)]
  <2>1. \A i \in 1 .. n : seqs[i] \in Seq(Int)
    BY <1>2 DEF Emits
  <2> QED
    BY <1>6, <2>1
<1>8. Emits(FlattenSeq(seqs), R, UpTo(T, n))
  <2>1. InTurn(seqs, n, R, T)
    BY <1>2, <1>3, <1>7 DEF InTurn
  <2> QED
    BY <1>1, <2>1, EmitsAll
<1> QED
  BY <1>4, <1>5, <1>8

(* A sequence from the last to the first.                                  *)
LEMMA ReverseIs ==
  ASSUME NEW X, NEW s \in Seq(X)
  PROVE  /\ Reverse(s) \in Seq(X) /\ Len(Reverse(s)) = Len(s)
         /\ \A i \in 1 .. Len(s) :
              /\ Len(s) - i + 1 \in 1 .. Len(s)
              /\ Reverse(s)[i] = s[Len(s) - i + 1]
              /\ Reverse(s)[Len(s) - i + 1] = s[i]
<1> DEFINE n == Len(s)
           r == Reverse(s)
<1>1. n \in Nat
  BY LenProperties
<1>2. ASSUME NEW i \in 1 .. n
      PROVE  /\ n - i + 1 \in 1 .. n
             /\ n - (n - i + 1) + 1 = i
  BY <1>1
<1>3. r = [i \in 1 .. n |-> s[(n - i) + 1]]
  BY DEF Reverse
<1> HIDE DEF r
<1>4. \A i \in 1 .. n : r[i] = s[n - i + 1] /\ r[i] \in X
  <2>1. ASSUME NEW i \in 1 .. n
        PROVE  r[i] = s[n - i + 1] /\ r[i] \in X
    <3>1. r[i] = s[n - i + 1]
      BY <1>3
    <3>2. s[n - i + 1] \in X
      BY <1>2, ElementOfSeq
    <3> QED
      BY <3>1, <3>2
  <2> QED
    BY <2>1
<1>5. r \in [1 .. n -> X]
  BY <1>3, <1>4
<1> HIDE DEF n
<1>6. r \in Seq(X) /\ Len(r) = n
  BY <1>1, <1>5, FunctionIsSeq
<1>7. ASSUME NEW i \in 1 .. n
      PROVE  r[n - i + 1] = s[i]
  <2>1. r[n - i + 1] = s[n - (n - i + 1) + 1]
    BY <1>2, <1>4
  <2> QED
    BY <1>2, <2>1
<1> QED
  BY <1>2, <1>4, <1>6, <1>7 DEF n, r

(* A part emits its tags ascending, or descending if it is prepended.      *)
LEMMA PartEmits ==
  ASSUME NEW X \in SUBSET FieldSet, NEW part \in Part(X), NEW set,
         \A f \in X : Cardinality(f.tags \cap set) <= 1
  PROVE  /\ Emits(EmittedBy(part.fields, set), Less, Tags(part.fields) \cap set)
         /\ Emits(EmittedBy(Reverse(part.fields), set), Greater,
                  Tags(part.fields) \cap set)
<1> DEFINE run == part.fields
           back == Reverse(run)
           n == Len(run)
<1>1. run \in Seq(X) /\ Ascend(run)
  BY DEF Part
<1> HIDE DEF run
<1>2. /\ back \in Seq(X) /\ Len(back) = n /\ n \in Nat
      /\ \A i \in 1 .. n : /\ n - i + 1 \in 1 .. n
                           /\ back[i] = run[n - i + 1]
                           /\ back[n - i + 1] = run[i]
  BY <1>1, ReverseIs, LenProperties
<1> HIDE DEF back, n
<1>3. ASSUME NEW i \in 1 .. n, NEW j \in 1 .. n, i < j
      PROVE  /\ Precede(run[i].tags, run[j].tags, Less)
             /\ Precede(run[j].tags, run[i].tags, Greater)
  <2>1. run[i] \in FieldSet /\ run[j] \in FieldSet
    BY <1>1, ElementOfSeq DEF n
  <2>2. run[i].tags \subseteq Nat /\ run[j].tags \subseteq Nat
    BY <2>1, FieldTags
  <2>3. Below(run[i].tags, run[j].tags)
    BY <1>1, <1>3 DEF Ascend, n
  <2> QED
    BY <2>2, <2>3 DEF Below, Precede, Less, Greater
<1>4. Emits(EmittedBy(run, set), Less, Tags(run) \cap set)
  BY <1>1, <1>3, RunEmits DEF n
<1>5. ASSUME NEW i \in 1 .. n, NEW j \in 1 .. n, i < j
      PROVE  Precede(back[i].tags, back[j].tags, Greater)
  <2>1. /\ n - i + 1 \in 1 .. n /\ n - j + 1 \in 1 .. n
        /\ n - j + 1 < n - i + 1
        /\ back[i] = run[n - i + 1] /\ back[j] = run[n - j + 1]
    BY <1>2, <1>5
  <2> QED
    BY <1>3, <2>1
<1>6. Emits(EmittedBy(back, set), Greater, Tags(back) \cap set)
  BY <1>2, <1>5, RunEmits
<1>7. \A t : t \in Tags(back) <=> t \in Tags(run)
  <2>1. ASSUME NEW t
        PROVE  t \in Tags(back) <=> t \in Tags(run)
    <3>1. t \in Tags(back) <=> \E i \in 1 .. n : t \in back[i].tags
      BY <1>2, TagsAre
    <3>2. t \in Tags(run) <=> \E i \in 1 .. n : t \in run[i].tags
      BY TagsAre DEF n
    <3> QED
      BY <1>2, <3>1, <3>2
  <2> QED
    BY <2>1
<1>8. Tags(back) = Tags(run)
  BY <1>7
<1> QED
  BY <1>4, <1>6, <1>8 DEF back, run

-----------------------------------------------------------------------------
(* What groups emit, in the order of the tags of their parts.              *)

(* A part is sorted by a tag of its own; if it is a oneof, by its only tag *)
(* that is set.                                                            *)
LEMMA SortTagIs ==
  ASSUME NEW X \in SUBSET FieldSet, NEW parts \in Parts(X), NEW set,
         \A f \in X : Cardinality(f.tags \cap set) <= 1,
         NEW p \in Invoked(parts, set)
  PROVE  /\ p \in 1 .. Len(parts)
         /\ parts[p] \in Part(X)
         /\ Tags(parts[p].fields) \subseteq Nat
         /\ SortTag(parts[p], set) \in Tags(parts[p].fields)
         /\ parts[p].kind # "Contiguous" =>
              Tags(parts[p].fields) \cap set = {SortTag(parts[p], set)}
<1> DEFINE part == parts[p]
           f == part.fields[1]
<1>1. p \in 1 .. Len(parts) /\ parts \in Seq(Part(X))
  BY DEF Invoked, Parts
<1>2. /\ part \in Part(X) /\ part.fields \in Seq(X)
      /\ Tags(part.fields) \subseteq Nat
  BY <1>1, PartsTyped
<1>3. /\ part.fields # <<>>
      /\ part.kind \in {"Contiguous", "OneofPart"}
      /\ part.kind = "OneofPart" => Len(part.fields) = 1
  BY <1>2 DEF Part
<1>4. part.kind = "Contiguous" \/ f.tags \cap set # {}
  BY DEF Invoked
<1>5. SortTag(part, set) =
        IF part.kind = "Contiguous" THEN FirstTag(f)
        ELSE FirstTag([tags |-> f.tags \cap set])
  BY DEF SortTag
<1> HIDE DEF part
<1>6. 1 \in 1 .. Len(part.fields) /\ f \in X
  BY <1>2, <1>3, EmptySeq, ElementOfSeq
<1>7. f.tags \subseteq Tags(part.fields)
  BY <1>6, TagsAre
<1> HIDE DEF f
<1>8. CASE part.kind = "Contiguous"
  <2>1. FirstTag(f) \in f.tags
    BY <1>6, FieldTags
  <2> QED
    BY <1>1, <1>2, <1>5, <1>7, <1>8, <2>1 DEF part
<1>9. CASE part.kind # "Contiguous"
  <2> DEFINE S == f.tags \cap set
             one == [tags |-> S]
  <2>1. Tags(part.fields) = f.tags
    <3>1. Len(part.fields) = 1 /\ 1 .. 1 = {1}
      BY <1>3, <1>9
    <3>2. \A t : t \in Tags(part.fields) <=> t \in f.tags
      BY <3>1, TagsAre DEF f
    <3> QED
      BY <3>2
  <2>2. S \in SUBSET Tag /\ Cardinality(S) <= 1 /\ S # {}
    BY <1>4, <1>6, <1>9, FieldTags
  <2>3. one.tags = S
    OBVIOUS
  <2> HIDE DEF S, one
  <2>4. PICK t \in S : S = {t}
    BY <2>2, EmitsOne
  <2>5. FirstTag(one) \in S
    BY <2>2, <2>3, FirstAndLast
  <2>6. SortTag(part, set) = FirstTag(one)
    BY <1>5, <1>9 DEF one, S
  <2> QED
    BY <1>1, <1>2, <2>1, <2>4, <2>5, <2>6 DEF S, part
<1> QED
  BY <1>8, <1>9

(* Parts with different tags to sort by are apart.                         *)
LEMMA PartsApart ==
  ASSUME NEW X \in SUBSET FieldSet, NEW parts \in Parts(X), NEW set,
         \A f \in X : Cardinality(f.tags \cap set) <= 1,
         NEW p \in Invoked(parts, set), NEW q \in Invoked(parts, set), p # q
  PROVE  /\ SortTag(parts[p], set) # SortTag(parts[q], set)
         /\ SortTag(parts[p], set) < SortTag(parts[q], set) =>
              Below(Tags(parts[p].fields) \cap set, Tags(parts[q].fields) \cap set)
<1> DEFINE P == Tags(parts[p].fields)
           Q == Tags(parts[q].fields)
           s == SortTag(parts[p], set)
           t == SortTag(parts[q], set)
<1>1. /\ p \in 1 .. Len(parts) /\ P \subseteq Nat /\ s \in P
      /\ parts[p].kind # "Contiguous" => P \cap set = {s}
  BY SortTagIs, SMTT(30)
<1>2. /\ q \in 1 .. Len(parts) /\ Q \subseteq Nat /\ t \in Q
      /\ parts[q].kind # "Contiguous" => Q \cap set = {t}
  BY SortTagIs
<1>3. \A i, j \in 1 .. Len(parts) : i < j => FitsAfter(parts[i], parts[j])
  BY DEF Parts
<1>4. p < q => /\ P \cap Q = {}
               /\ parts[p].kind = "Contiguous" => Below(P, Q)
               /\ parts[q].kind = "Contiguous" => \A x \in P : Beside(Q, x)
  BY <1>1, <1>2, <1>3 DEF FitsAfter
<1>5. q < p => /\ P \cap Q = {}
               /\ parts[q].kind = "Contiguous" => Below(Q, P)
               /\ parts[p].kind = "Contiguous" => \A x \in Q : Beside(P, x)
  BY <1>1, <1>2, <1>3 DEF FitsAfter
<1>6. p < q \/ q < p
  BY <1>1, <1>2
<1> HIDE DEF P, Q, s, t
<1>7. s # t /\ s \in Nat /\ t \in Nat
  BY <1>1, <1>2, <1>4, <1>5, <1>6
<1>8. ASSUME s < t
      PROVE  Below(P \cap set, Q \cap set)
  <2>1. CASE parts[p].kind # "Contiguous" /\ parts[q].kind # "Contiguous"
    BY <1>1, <1>2, <1>8, <2>1 DEF Below
  <2>2. CASE p < q /\ parts[p].kind = "Contiguous"
    BY <1>4, <2>2 DEF Below
  <2>3. CASE q < p /\ parts[q].kind = "Contiguous"
    <3>1. t < s
      BY <1>1, <1>2, <1>5, <2>3 DEF Below
    <3> QED
      BY <1>7, <1>8, <3>1
  <2>4. CASE p < q /\ parts[p].kind # "Contiguous" /\ parts[q].kind = "Contiguous"
    <3>1. Beside(Q, s)
      BY <1>1, <1>4, <2>4
    <3>2. ~ (t < s)
      BY <1>7, <1>8
    <3>3. \A y \in Q : s < y
      BY <1>2, <3>1, <3>2 DEF Beside
    <3> QED
      BY <1>1, <2>4, <3>3 DEF Below
  <2>5. CASE q < p /\ parts[q].kind # "Contiguous" /\ parts[p].kind = "Contiguous"
    <3>1. Beside(P, t)
      BY <1>2, <1>5, <2>5
    <3>2. ~ (t < s)
      BY <1>7, <1>8
    <3>3. \A x \in P : x < t
      BY <1>1, <3>1, <3>2 DEF Beside
    <3> QED
      BY <1>2, <2>5, <3>3 DEF Below
  <2> QED
    BY <1>6, <2>1, <2>2, <2>3, <2>4, <2>5
<1> QED
  BY <1>7, <1>8 DEF P, Q, s, t

(* What out has for the parts that are invoked, in the order of their keys.*)
LEMMA PartsEmit ==
  ASSUME NEW X \in SUBSET FieldSet, NEW parts \in Parts(X), NEW set, NEW R,
         NEW key \in [Invoked(parts, set) -> Int], NEW out,
         \A p \in 1 .. Len(parts) :
           Emits(out[p], R, Tags(parts[p].fields) \cap set),
         \A p, q \in Invoked(parts, set) :
           /\ key[p] = key[q] => p = q
           /\ key[p] < key[q] =>
                Precede(Tags(parts[p].fields) \cap set,
                        Tags(parts[q].fields) \cap set, R)
  PROVE  LET order == InOrder(Invoked(parts, set), key)
         IN /\ Emits(FlattenSeq([i \in 1 .. Len(order) |-> out[order[i]]]), R,
                     PartsTags(parts) \cap set)
            /\ \A i \in 1 .. Len(order) : order[i] \in 1 .. Len(parts)
<1> DEFINE I == Invoked(parts, set)
           order == InOrder(I, key)
           n == Len(order)
           seqs == [i \in 1 .. n |-> out[order[i]]]
           T == [i \in 1 .. n |-> Tags(parts[order[i]].fields) \cap set]
<1>1. parts \in Seq(Part(X)) /\ Len(parts) \in Nat
  BY LenProperties DEF Parts
<1>2. I \subseteq 1 .. Len(parts)
  BY DEF Invoked
<1>3. IsFiniteSet(I)
  <2>1. IsFiniteSet(1 .. Len(parts))
    BY <1>1, FS_Interval
  <2> HIDE DEF I
  <2> QED
    BY <1>2, <2>1, FS_Subset
<1>4. key \in [I -> Int] /\ \A p, q \in I : key[p] = key[q] => p = q
  OBVIOUS
<1>5. \A p, q \in I : key[p] < key[q] =>
        Precede(Tags(parts[p].fields) \cap set, Tags(parts[q].fields) \cap set, R)
  OBVIOUS
<1>6. \A p \in I : Emits(out[p], R, Tags(parts[p].fields) \cap set)
  BY <1>2
<1>7. \A p \in (1 .. Len(parts)) \ I : Tags(parts[p].fields) \cap set = {}
  <2>1. ASSUME NEW p \in (1 .. Len(parts)) \ I
        PROVE  Tags(parts[p].fields) \cap set = {}
    <3>1. parts[p] \in Part(X)
      BY <1>1, ElementOfSeq
    <3>2. /\ parts[p].kind # "Contiguous"
          /\ parts[p].fields[1].tags \cap set = {}
      BY <2>1 DEF Invoked
    <3>3. Len(parts[p].fields) = 1 /\ 1 .. 1 = {1}
      BY <3>1, <3>2 DEF Part
    <3>4. \A t : t \in Tags(parts[p].fields) <=> t \in parts[p].fields[1].tags
      BY <3>3, TagsAre
    <3> QED
      BY <3>2, <3>4
  <2> QED
    BY <2>1
<1> HIDE DEF I
<1>8. /\ order \in Seq(I) /\ n \in Nat
      /\ \A i, j \in 1 .. n : i < j => key[order[i]] < key[order[j]]
      /\ \A p \in I : \E i \in 1 .. n : order[i] = p
  <2>1. /\ order \in Seq(I)
        /\ \A i, j \in 1 .. n : i < j => key[order[i]] < key[order[j]]
        /\ \A p \in I : \E i \in 1 .. n : order[i] = p
    BY <1>3, <1>4, InOrderIs
  <2> QED
    BY <2>1, LenProperties
<1> HIDE DEF order
<1>9. \A i \in 1 .. n : order[i] \in I
  BY <1>8, ElementOfSeq
<1>10. InTurn(seqs, n, R, T)
  <2>1. ASSUME NEW i \in 1 .. n
        PROVE  Emits(out[order[i]], R, Tags(parts[order[i]].fields) \cap set)
    BY <1>6, <1>9
  <2>2. ASSUME NEW i \in 1 .. n, NEW j \in 1 .. n, i < j
        PROVE  Precede(Tags(parts[order[i]].fields) \cap set,
                       Tags(parts[order[j]].fields) \cap set, R)
    BY <1>5, <1>8, <1>9, <2>2
  <2>3. \A i \in 1 .. n : out[order[i]] \in Seq(Int)
    BY <2>1 DEF Emits
  <2> QED
    BY <2>1, <2>2, <2>3 DEF InTurn
<1>11. UpTo(T, n) = PartsTags(parts) \cap set
  <2>1. ASSUME NEW t, t \in UpTo(T, n)
        PROVE  t \in PartsTags(parts) \cap set
    <3>1. PICK i \in 1 .. n : t \in Tags(parts[order[i]].fields) \cap set
      BY <2>1 DEF UpTo
    <3> QED
      BY <1>2, <1>9, <3>1, PartsTagsAre
  <2>2. ASSUME NEW t, t \in PartsTags(parts) \cap set
        PROVE  t \in UpTo(T, n)
    <3>1. PICK p \in 1 .. Len(parts) : t \in Tags(parts[p].fields)
      BY <2>2, PartsTagsAre
    <3>2. p \in I
      BY <1>7, <2>2, <3>1
    <3>3. PICK i \in 1 .. n : order[i] = p
      BY <1>8, <3>2
    <3>4. t \in T[i]
      BY <2>2, <3>1, <3>3
    <3> QED
      BY <3>4 DEF UpTo
  <2> QED
    BY <2>1, <2>2
<1>12. Emits(FlattenSeq(seqs), R, UpTo(T, n))
  <2> HIDE DEF seqs, T, n
  <2> QED
    BY <1>8, <1>10, EmitsAll
<1> QED
  BY <1>2, <1>9, <1>11, <1>12 DEF order, I

(* A chunk emits the tags of its parts that are set, ascending, or         *)
(* descending if it is prepended.                                          *)
LEMMA ChunkEmits ==
  ASSUME NEW X \in SUBSET FieldSet, NEW chunk \in Chunk(X), NEW set,
         \A f \in X : Cardinality(f.tags \cap set) <= 1
  PROVE  /\ Emits(EncodedChunk(chunk, set), Less, PartsTags(chunk.parts) \cap set)
         /\ Emits(PrependedChunk(chunk, set), Greater,
                  PartsTags(chunk.parts) \cap set)
<1> DEFINE parts == chunk.parts
           I == Invoked(parts, set)
           T(p) == Tags(parts[p].fields) \cap set
<1>1. parts \in Parts(X)
  BY DEF Chunk
<1> HIDE DEF parts
<1>2. parts \in Seq(Part(X)) /\ \A p \in 1 .. Len(parts) : parts[p] \in Part(X)
  BY <1>1, ElementOfSeq DEF Parts
<1>3. ASSUME NEW p \in I
      PROVE  SortTag(parts[p], set) \in Nat /\ T(p) \subseteq Nat
  BY <1>1, SortTagIs
<1>4. ASSUME NEW p \in I, NEW q \in I
      PROVE  /\ SortTag(parts[p], set) = SortTag(parts[q], set) => p = q
             /\ SortTag(parts[p], set) < SortTag(parts[q], set) =>
                  Precede(T(p), T(q), Less) /\ Precede(T(q), T(p), Greater)
  <2>1. p # q => SortTag(parts[p], set) # SortTag(parts[q], set)
    BY <1>1, PartsApart
  <2>2. SortTag(parts[p], set) < SortTag(parts[q], set) => p # q
    BY <1>3
  <2>3. SortTag(parts[p], set) < SortTag(parts[q], set) => Below(T(p), T(q))
    BY <1>1, <2>2, PartsApart
  <2>4. T(p) \subseteq Nat /\ T(q) \subseteq Nat
    BY <1>3
  <2> HIDE DEF T
  <2>5. Below(T(p), T(q)) => Precede(T(p), T(q), Less) /\ Precede(T(q), T(p), Greater)
    BY <2>4 DEF Below, Precede, Less, Greater
  <2> QED
    BY <2>1, <2>3, <2>5
<1>5. Emits(EncodedChunk(chunk, set), Less, PartsTags(parts) \cap set)
  <2> DEFINE key == [p \in I |-> SortTag(parts[p], set)]
             out == [p \in 1 .. Len(parts) |-> EmittedBy(parts[p].fields, set)]
             order == InOrder(I, key)
             n == Len(order)
  <2>1. key \in [I -> Int] /\ \A p \in I : key[p] = SortTag(parts[p], set)
    BY <1>3
  <2>2. \A p \in 1 .. Len(parts) : out[p] = EmittedBy(parts[p].fields, set)
    OBVIOUS
  <2>3. EncodedChunk(chunk, set) =
          FlattenSeq([i \in 1 .. n |-> EmittedBy(parts[order[i]].fields, set)])
    BY DEF EncodedChunk, parts
  <2> HIDE DEF key, out
  <2>4. \A p \in 1 .. Len(parts) : Emits(out[p], Less, T(p))
    BY <1>2, <2>2, PartEmits
  <2>5. \A p, q \in I : /\ key[p] = key[q] => p = q
                        /\ key[p] < key[q] => Precede(T(p), T(q), Less)
    BY <1>4, <2>1
  <2>6. /\ Emits(FlattenSeq([i \in 1 .. n |-> out[order[i]]]), Less,
                 PartsTags(parts) \cap set)
        /\ \A i \in 1 .. n : order[i] \in 1 .. Len(parts)
    BY <1>1, <2>1, <2>4, <2>5, PartsEmit
  <2> HIDE DEF order, n
  <2>7. [i \in 1 .. n |-> out[order[i]]] =
          [i \in 1 .. n |-> EmittedBy(parts[order[i]].fields, set)]
    BY <2>2, <2>6
  <2> QED
    BY <2>3, <2>6, <2>7
<1>6. Emits(PrependedChunk(chunk, set), Greater, PartsTags(parts) \cap set)
  <2> DEFINE key == [p \in I |-> -SortTag(parts[p], set)]
             out == [p \in 1 .. Len(parts) |-> EmittedBy(Reverse(parts[p].fields), set)]
             order == InOrder(I, key)
             n == Len(order)
  <2>1. key \in [I -> Int] /\ \A p \in I : key[p] = -SortTag(parts[p], set)
    BY <1>3
  <2>2. \A p \in 1 .. Len(parts) : out[p] = EmittedBy(Reverse(parts[p].fields), set)
    OBVIOUS
  <2>3. PrependedChunk(chunk, set) =
          FlattenSeq([i \in 1 .. n |-> EmittedBy(Reverse(parts[order[i]].fields), set)])
    BY DEF PrependedChunk, parts
  <2> HIDE DEF key, out
  <2>4. \A p \in 1 .. Len(parts) : Emits(out[p], Greater, T(p))
    BY <1>2, <2>2, PartEmits
  <2>5. ASSUME NEW p \in I, NEW q \in I
        PROVE  /\ key[p] = key[q] => p = q
               /\ key[p] < key[q] => Precede(T(p), T(q), Greater)
    <3>1. SortTag(parts[p], set) \in Nat /\ SortTag(parts[q], set) \in Nat
      BY <1>3
    <3>2. /\ key[p] = key[q] => SortTag(parts[p], set) = SortTag(parts[q], set)
          /\ key[p] < key[q] => SortTag(parts[q], set) < SortTag(parts[p], set)
      BY <2>1, <3>1
    <3> QED
      BY <1>4, <3>2
  <2>6. /\ Emits(FlattenSeq([i \in 1 .. n |-> out[order[i]]]), Greater,
                 PartsTags(parts) \cap set)
        /\ \A i \in 1 .. n : order[i] \in 1 .. Len(parts)
    BY <1>1, <2>1, <2>4, <2>5, PartsEmit
  <2> HIDE DEF order, n
  <2>7. [i \in 1 .. n |-> out[order[i]]] =
          [i \in 1 .. n |-> EmittedBy(Reverse(parts[order[i]].fields), set)]
    BY <2>2, <2>6
  <2> QED
    BY <2>3, <2>6, <2>7
<1> QED
  BY <1>5, <1>6 DEF parts

(* The message emits the tags that are set in its chunks.                  *)
LEMMA MessageEmits ==
  ASSUME NEW X \in SUBSET FieldSet, chunks \in Chunks(X), NEW set,
         ChunksTags(chunks) \subseteq Nat,
         \A f \in X : Cardinality(f.tags \cap set) <= 1
  PROVE  /\ Emits(Encoded(set), Less, ChunksTags(chunks) \cap set)
         /\ Emits(Prepended(set), Greater, ChunksTags(chunks) \cap set)
<1> DEFINE n == Len(chunks)
           last == Reverse(chunks)
           seqs == [i \in 1 .. n |-> EncodedChunk(chunks[i], set)]
           back == [i \in 1 .. n |-> PrependedChunk(last[i], set)]
           S == [i \in 1 .. n |-> PartsTags(chunks[i].parts) \cap set]
           T == [i \in 1 .. n |-> PartsTags(last[i].parts) \cap set]
<1>1. /\ chunks \in Seq(Chunk(X)) /\ n \in Nat
      /\ \A i \in 1 .. n : chunks[i] \in Chunk(X)
  BY LenProperties, ElementOfSeq DEF Chunks
<1>2. /\ Len(last) = n
      /\ \A i \in 1 .. n : /\ n - i + 1 \in 1 .. n
                           /\ last[i] = chunks[n - i + 1]
                           /\ last[n - i + 1] = chunks[i]
  BY <1>1, ReverseIs
<1>3. Encoded(set) = FlattenSeq(seqs) /\ Prepended(set) = FlattenSeq(back)
  BY <1>2 DEF Encoded, Prepended
<1>4. ASSUME NEW i \in 1 .. n, NEW j \in 1 .. n, i < j
      PROVE  LET A == PartsTags(chunks[i].parts) \cap set
                 B == PartsTags(chunks[j].parts) \cap set
             IN Precede(A, B, Less) /\ Precede(B, A, Greater)
  <2>1. Below(PartsTags(chunks[i].parts), PartsTags(chunks[j].parts))
    BY <1>4 DEF Chunks
  <2>2. /\ PartsTags(chunks[i].parts) \subseteq Nat
        /\ PartsTags(chunks[j].parts) \subseteq Nat
    BY ChunksTagsAre
  <2> QED
    BY <2>1, <2>2 DEF Below, Precede, Less, Greater
<1> HIDE DEF n, last
<1>5. InTurn(seqs, n, Less, S)
  <2>1. \A i \in 1 .. n :
          Emits(EncodedChunk(chunks[i], set), Less, PartsTags(chunks[i].parts) \cap set)
    BY <1>1, ChunkEmits
  <2>2. \A i \in 1 .. n : EncodedChunk(chunks[i], set) \in Seq(Int)
    BY <2>1 DEF Emits
  <2> QED
    BY <1>4, <2>1, <2>2 DEF InTurn
<1>6. InTurn(back, n, Greater, T)
  <2>1. ASSUME NEW i \in 1 .. n
        PROVE  Emits(PrependedChunk(last[i], set), Greater,
                     PartsTags(last[i].parts) \cap set)
    BY <1>1, <1>2, ChunkEmits
  <2>2. \A i \in 1 .. n : PrependedChunk(last[i], set) \in Seq(Int)
    BY <2>1 DEF Emits
  <2>3. ASSUME NEW i \in 1 .. n, NEW j \in 1 .. n, i < j
        PROVE  Precede(PartsTags(last[i].parts) \cap set,
                       PartsTags(last[j].parts) \cap set, Greater)
    <3>1. /\ n - i + 1 \in 1 .. n /\ n - j + 1 \in 1 .. n
          /\ n - j + 1 < n - i + 1
          /\ last[i] = chunks[n - i + 1] /\ last[j] = chunks[n - j + 1]
      BY <1>1, <1>2, <2>3
    <3> QED
      BY <1>4, <3>1
  <2> QED
    BY <2>1, <2>2, <2>3 DEF InTurn
<1>7. \A t : t \in ChunksTags(chunks) <=>
               \E i \in 1 .. n : t \in PartsTags(chunks[i].parts)
  BY ChunksTagsAre DEF n
<1>8. UpTo(S, n) = ChunksTags(chunks) \cap set
  <2>1. \A t : t \in UpTo(S, n) <=> t \in ChunksTags(chunks) \cap set
    BY <1>7 DEF UpTo
  <2> QED
    BY <2>1
<1>9. UpTo(T, n) = ChunksTags(chunks) \cap set
  <2>1. ASSUME NEW t
        PROVE  t \in UpTo(T, n) <=>
                 \E i \in 1 .. n : t \in PartsTags(last[i].parts) \cap set
    BY DEF UpTo
  <2>2. ASSUME NEW t
        PROVE  t \in UpTo(T, n) <=> t \in ChunksTags(chunks) \cap set
    <3>1. ASSUME NEW i \in 1 .. n, t \in PartsTags(last[i].parts) \cap set
          PROVE  t \in ChunksTags(chunks) \cap set
      <4>1. n - i + 1 \in 1 .. n /\ last[i] = chunks[n - i + 1]
        BY <1>2
      <4> QED
        BY <1>7, <3>1, <4>1
    <3>2. ASSUME t \in ChunksTags(chunks) \cap set
          PROVE  \E i \in 1 .. n : t \in PartsTags(last[i].parts) \cap set
      <4>1. PICK i \in 1 .. n : t \in PartsTags(chunks[i].parts)
        BY <1>7, <3>2
      <4>2. n - i + 1 \in 1 .. n /\ last[n - i + 1] = chunks[i]
        BY <1>2
      <4>3. t \in PartsTags(last[n - i + 1].parts) \cap set
        BY <3>2, <4>1, <4>2
      <4> QED
        BY <4>2, <4>3
    <3> QED
      BY <2>1, <3>1, <3>2
  <2> QED
    BY <2>2
<1> HIDE DEF seqs, back, S, T
<1>10. Emits(FlattenSeq(seqs), Less, UpTo(S, n))
  BY <1>1, <1>5, EmitsAll
<1>11. Emits(FlattenSeq(back), Greater, UpTo(T, n))
  BY <1>1, <1>6, EmitsAll
<1> QED
  BY <1>3, <1>8, <1>9, <1>10, <1>11

(* Going through the same tags in the opposite order.                      *)
LEMMA ReverseEmits ==
  ASSUME NEW s, NEW T, Emits(s, Less, T)
  PROVE  Emits(Reverse(s), Greater, T)
<1> DEFINE n == Len(s)
           r == Reverse(s)
<1>1. /\ s \in Seq(Int) /\ Chain(s, Less)
      /\ \A t : t \in T <=> \E i \in 1 .. n : s[i] = t
  BY DEF Emits
<1>2. /\ r \in Seq(Int) /\ Len(r) = n /\ n \in Nat
      /\ \A i \in 1 .. n : /\ n - i + 1 \in 1 .. n
                           /\ r[i] = s[n - i + 1]
                           /\ r[n - i + 1] = s[i]
  BY <1>1, ReverseIs, LenProperties
<1>3. \A i, j \in 1 .. n : i < j => <<s[i], s[j]>> \in Less
  BY <1>1 DEF Chain
<1> HIDE DEF n, r
<1>4. ASSUME NEW i \in 1 .. n, NEW j \in 1 .. n, i < j
      PROVE  <<r[i], r[j]>> \in Greater
  <2>1. /\ n - i + 1 \in 1 .. n /\ n - j + 1 \in 1 .. n
        /\ n - j + 1 < n - i + 1
        /\ r[i] = s[n - i + 1] /\ r[j] = s[n - j + 1]
    BY <1>2, <1>4
  <2>2. <<r[j], r[i]>> \in Less
    BY <1>3, <2>1
  <2> QED
    BY <2>2 DEF Less, Greater
<1>5. ASSUME NEW t
      PROVE  t \in T <=> \E i \in 1 .. n : r[i] = t
  <2>1. ASSUME NEW i \in 1 .. n, r[i] = t
        PROVE  t \in T
    <3>1. n - i + 1 \in 1 .. n /\ s[n - i + 1] = t
      BY <1>2, <2>1
    <3> QED
      BY <1>1, <3>1
  <2>2. ASSUME t \in T
        PROVE  \E i \in 1 .. n : r[i] = t
    <3>1. PICK i \in 1 .. n : s[i] = t
      BY <1>1, <2>2
    <3>2. n - i + 1 \in 1 .. n /\ r[n - i + 1] = t
      BY <1>2, <3>1
    <3> QED
      BY <3>2
  <2> QED
    BY <2>1, <2>2
<1> QED
  BY <1>2, <1>4, <1>5 DEF Emits, Chain, r

(* There is only one way to go through them: the first place where two     *)
(* sequences differ would lack a tag in one of them.                       *)
LEMMA NoFirstDifference ==
  ASSUME NEW s, NEW u, NEW T, Emits(s, Greater, T), Emits(u, Greater, T),
         NEW n \in Nat \ {0}, n <= Len(s),
         \A k \in 1 .. n - 1 : k <= Len(s) /\ k <= Len(u) /\ s[k] = u[k]
  PROVE  n <= Len(u) /\ ~ (u[n] < s[n])
<1>1. /\ s \in Seq(Int) /\ u \in Seq(Int) /\ Len(s) \in Nat /\ Len(u) \in Nat
      /\ \A t : t \in T <=> \E i \in 1 .. Len(s) : s[i] = t
      /\ \A t : t \in T <=> \E i \in 1 .. Len(u) : u[i] = t
  BY LenProperties DEF Emits
<1>2. /\ \A i, j \in 1 .. Len(s) : i < j => s[j] < s[i]
      /\ \A i, j \in 1 .. Len(u) : i < j => u[j] < u[i]
  <2>1. /\ \A i, j \in 1 .. Len(s) : i < j => <<s[i], s[j]>> \in Greater
        /\ \A i, j \in 1 .. Len(u) : i < j => <<u[i], u[j]>> \in Greater
    BY DEF Emits, Chain
  <2>2. \A x, y : <<x, y>> \in Greater => y < x
    BY DEF Greater
  <2> QED
    BY <2>1, <2>2
<1>3. n \in 1 .. Len(s) /\ s[n] \in Int
  BY <1>1, ElementOfSeq
<1>4. PICK i \in 1 .. Len(u) : u[i] = s[n]
  BY <1>1, <1>3
<1>5. ~ (i < n)
  <2>1. SUFFICES ASSUME i < n PROVE FALSE
    OBVIOUS
  <2>2. i \in 1 .. n - 1 /\ i \in 1 .. Len(s)
    BY <1>1, <1>3, <2>1
  <2>3. s[i] = s[n] /\ s[n] < s[i]
    BY <1>2, <1>3, <1>4, <2>1, <2>2
  <2> QED
    BY <1>3, <2>3
<1>6. n <= Len(u) /\ n \in 1 .. Len(u)
  BY <1>1, <1>3, <1>4, <1>5
<1>7. ~ (u[n] < s[n])
  <2>1. u[n] \in Int
    BY <1>1, <1>6, ElementOfSeq
  <2>2. CASE i = n
    BY <1>3, <1>4, <2>2
  <2>3. CASE n < i
    <3>1. u[i] < u[n]
      BY <1>2, <1>6, <2>3
    <3> QED
      BY <1>3, <1>4, <2>1, <3>1
  <2> QED
    BY <1>1, <1>5, <2>2, <2>3
<1> QED
  BY <1>6, <1>7

(* There is one way to go through a set of tags downwards: at the first    *)
(* position where two of them differed, one would have left a tag out.     *)
LEMMA SameDescent ==
  ASSUME NEW s, NEW u, NEW T, Emits(s, Greater, T), Emits(u, Greater, T)
  PROVE  s = u
<1>1. /\ s \in Seq(Int) /\ u \in Seq(Int) /\ Len(s) \in Nat /\ Len(u) \in Nat
  BY LenProperties DEF Emits
<1> DEFINE D == {n \in Nat \ {0} : /\ n <= Len(s) \/ n <= Len(u)
                                   /\ ~ (n <= Len(s) /\ n <= Len(u) /\ s[n] = u[n])}
<1>2. D = {}
  <2>1. SUFFICES ASSUME D # {} PROVE FALSE
    OBVIOUS
  <2>2. PICK n \in D : \A k \in D : n <= k
    <3>1. D \in SUBSET Nat
      OBVIOUS
    <3> HIDE DEF D
    <3> QED
      BY <2>1, <3>1, LeastNatural
  <2>3. n \in Nat \ {0} /\ (n <= Len(s) \/ n <= Len(u))
    OBVIOUS
  <2>4. ASSUME NEW k \in 1 .. n - 1
        PROVE  k <= Len(s) /\ k <= Len(u) /\ s[k] = u[k]
    <3>1. k \in Nat \ {0} /\ ~ (n <= k)
      BY <2>3
    <3>2. k \notin D
      BY <2>2, <3>1
    <3>3. k <= Len(s) \/ k <= Len(u)
      BY <1>1, <2>3, <3>1
    <3> QED
      BY <3>1, <3>2, <3>3
  <2>5. n <= Len(s) => n <= Len(u) /\ ~ (u[n] < s[n])
    BY <2>3, <2>4, NoFirstDifference
  <2>6. n <= Len(u) => n <= Len(s) /\ ~ (s[n] < u[n])
    BY <2>3, <2>4, NoFirstDifference
  <2>7. n \in 1 .. Len(s) /\ n \in 1 .. Len(u)
    BY <1>1, <2>3, <2>5, <2>6
  <2>8. s[n] \in Int /\ u[n] \in Int
    BY <1>1, <2>7, ElementOfSeq
  <2>9. s[n] = u[n]
    BY <2>3, <2>5, <2>6, <2>8
  <2> QED
    BY <2>7, <2>9
<1>3. \A n \in Nat \ {0} : n <= Len(s) \/ n <= Len(u) =>
        n <= Len(s) /\ n <= Len(u) /\ s[n] = u[n]
  BY <1>2
<1>4. Len(s) = Len(u)
  BY <1>1, <1>3
<1>5. \A i \in 1 .. Len(s) : s[i] = u[i]
  BY <1>1, <1>3
<1> QED
  BY <1>1, <1>4, <1>5, SeqEqual

-----------------------------------------------------------------------------
(* The properties.                                                         *)

(* What is emitted for a value of the message.                             *)
LEMMA DoneEmits ==
  ASSUME OrderInv, phase = "done", NEW set \in Instances
  PROVE  /\ Emits(Encoded(set), Less, set)
         /\ Prepended(set) = Reverse(Encoded(set))
         /\ set \subseteq Nat /\ set \subseteq Tags(parsed)
<1>1. /\ parsed \in Seq(FieldSet) /\ ScanInv /\ Seen = Tags(parsed)
      /\ fields = <<>>
  BY DEF OrderInv
<1>2. /\ chunks \in Chunks(FieldsOf)
      /\ group = <<>> /\ contiguous = <<>>
  BY <1>1 DEF ScanInv, ScanOK
<1>3. FieldsOf \in SUBSET FieldSet
  BY <1>1, FieldsOfTyped
<1>4. ChunksTags(chunks) = Tags(parsed)
  BY <1>1, <1>2, NoParts DEF Seen, AllTags
<1>5. Tags(parsed) \subseteq Nat
  BY <1>1, TagsTyped
<1>6. set \subseteq Tags(parsed) /\ \A f \in FieldsOf : Cardinality(f.tags \cap set) <= 1
  BY DEF Instances, FieldsOf
<1>7. ChunksTags(chunks) \cap set = set
  BY <1>4, <1>6
<1>8. /\ Emits(Encoded(set), Less, ChunksTags(chunks) \cap set)
      /\ Emits(Prepended(set), Greater, ChunksTags(chunks) \cap set)
  BY <1>2, <1>3, <1>4, <1>5, <1>6, MessageEmits
<1>9. Emits(Encoded(set), Less, set) /\ Emits(Prepended(set), Greater, set)
  BY <1>7, <1>8
<1>10. Prepended(set) = Reverse(Encoded(set))
  BY <1>9, ReverseEmits, SameDescent
<1> QED
  BY <1>5, <1>6, <1>9, <1>10

(* The tags of an ascending sequence, one by one.                          *)
LEMMA Ascending ==
  ASSUME NEW s, NEW T, Emits(s, Less, T)
  PROVE  /\ s \in Seq(Int) /\ Len(s) \in Nat
         /\ {s[i] : i \in 1 .. Len(s)} = T
         /\ \A i \in 1 .. Len(s) - 1 : s[i] < s[i + 1]
<1>1. /\ s \in Seq(Int) /\ Len(s) \in Nat /\ Chain(s, Less)
      /\ \A t : t \in T <=> \E i \in 1 .. Len(s) : s[i] = t
  BY LenProperties DEF Emits
<1>2. ASSUME NEW i \in 1 .. Len(s) - 1
      PROVE  s[i] < s[i + 1]
  <2>1. i \in 1 .. Len(s) /\ i + 1 \in 1 .. Len(s) /\ i < i + 1
    BY <1>1
  <2>2. <<s[i], s[i + 1]>> \in Less
    BY <1>1, <2>1 DEF Chain
  <2> QED
    BY <2>2 DEF Less
<1> QED
  BY <1>1, <1>2

(* Whichever fields are set, what is encoded is every set tag once and in  *)
(* ascending order, and prepending goes through them in the opposite one.  *)
LEMMA InvAscending == OrderInv => EncodesAscending
<1> SUFFICES ASSUME OrderInv
             PROVE  EncodesAscending
  OBVIOUS
<1>1. ASSUME phase = "done", NEW set \in Instances
      PROVE  LET tags == Encoded(set) IN
               /\ {tags[i] : i \in 1 .. Len(tags)} = set
               /\ \A i \in 1 .. Len(tags) - 1 : tags[i] < tags[i + 1]
               /\ Prepended(set) = Reverse(tags)
  BY <1>1, DoneEmits, Ascending
<1>2. ASSUME NEW c \in 1 .. Len(chunks), NEW p \in 1 .. Len(chunks[c].parts),
             chunks[c].parts[p].kind = "OneofPart"
      PROVE  chunks[c].parts[p].fields[1].kind = "Oneof"
  <2>1. phase \in {"scan", "done"}
    <3>1. SUFFICES ASSUME phase \notin {"scan", "done"} PROVE FALSE
      OBVIOUS
    <3>2. Len(chunks) = 0
      BY <3>1 DEF OrderInv, Unscanned
    <3> QED
      BY <3>2
  <2>2. chunks \in Seq(Chunk(FieldsOf))
    BY <2>1 DEF OrderInv, ScanInv, ScanOK, Chunks
  <2>3. chunks[c].parts \in Parts(FieldsOf)
    <3>1. chunks[c] \in Chunk(FieldsOf)
      BY <2>2, ElementOfSeq
    <3> QED
      BY <3>1 DEF Chunk
  <2>4. chunks[c].parts[p] \in Part(FieldsOf)
    BY <2>3, ElementOfSeq DEF Parts
  <2> QED
    BY <1>2, <2>4 DEF Part
<1> QED
  BY <1>1, <1>2 DEF EncodesAscending

(* Whatever struct or variant is declared and whichever of its fields are  *)
(* set, the chunks that the derived encode loop emits from (runtime-sorted *)
(* groups and runs without a sort) bring every set tag once and in ascending*)
(* order; derived prepending brings exactly the reverse.                   *)
THEOREM FieldsEncodeAscending == Spec => []EncodesAscending
  BY ScanInvariant, InvAscending, PTL

-----------------------------------------------------------------------------
(* What has been accepted, of which the tags of variants are known.        *)

Accepted ==
  /\ phase \in {"parse", "scan", "done"} =>
       declared.kind \in {"struct", "variant"} /\ ~ AttributesRefused
  /\ phase = "derived" =>
       declared.kind \in {"oneof", "enumeration"} /\ ~ EnumRefused

(* Nothing is parsed or derived that has been refused for its attributes.  *)
LEMMA AcceptedInvariant == Spec => []Accepted
<1>1. Init => Accepted
  BY DEF Init, Accepted
<1>2. ASSUME Accepted, [Next]_vars
      PROVE  Accepted'
  <2>1. /\ declared' = declared
        /\ phase' \in {"parse", "scan", "done"} =>
             \/ phase \in {"parse", "scan", "done"}
             \/ declared.kind \in {"struct", "variant"} /\ ~ AttributesRefused
        /\ phase' = "derived" =>
             \/ phase = "derived"
             \/ declared.kind \in {"oneof", "enumeration"} /\ ~ EnumRefused
    <3>1. CASE ReadAttributes
      BY <3>1 DEF ReadAttributes, Refuse
    <3>2. CASE DeriveEnum
      BY <3>2 DEF DeriveEnum
    <3>3. CASE ParseField
      BY <3>3 DEF ParseField, AddField, Refuse
    <3>4. CASE StartScan
      BY <3>4 DEF StartScan, Refuse
    <3>5. CASE AddOverlapping
      BY <3>5 DEF AddOverlapping, Settle
    <3>6. CASE AddInterleaved
      BY <3>6 DEF AddInterleaved, Settle
    <3>7. CASE AddContiguous
      BY <3>7 DEF AddContiguous, Settle
    <3>8. CASE StartGroup
      BY <3>8 DEF StartGroup, Settle
    <3>9. CASE AddAlwaysOrdered
      BY <3>9 DEF AddAlwaysOrdered
    <3>10. CASE EndScan
      BY <3>10 DEF EndScan
    <3>11. CASE UNCHANGED vars
      BY <3>11 DEF vars
    <3> QED
      BY <1>2, <3>1, <3>2, <3>3, <3>4, <3>5, <3>6, <3>7, <3>8, <3>9, <3>10,
         <3>11 DEF Next
  <2>2. AttributesRefused' = AttributesRefused /\ EnumRefused' = EnumRefused
    BY <2>1 DEF AttributesRefused, EnumRefused, attributes
  <2> QED
    BY <1>2, <2>1, <2>2 DEF Accepted
<1> QED
  BY <1>1, <1>2, PTL DEF Spec

(* A variant that is not refused, nor the empty one, has a tag.            *)
LEMMA VariantTagTyped ==
  ASSUME NEW variant, ~ VariantRefused(variant), ~ IsEmptyVariant(variant)
  PROVE  VariantTag(variant) \in Tag
<1> DEFINE attrs == BilrostAttrs(variant.attrs)
<1>1. /\ Given(attrs, "tag")
      /\ \A i \in Named(attrs, "tag") : ~ TagRefused(attrs[i].arg)
  BY DEF VariantRefused, IsEmptyVariant, TagAttrRefused
<1> HIDE DEF attrs
<1>2. PICK i \in Named(attrs, "tag") : The(attrs, "tag") = attrs[i].arg
  BY <1>1 DEF Given, The
<1>3. The(attrs, "tag")[1].low \in Tag
  BY <1>1, <1>2 DEF TagRefused
<1> QED
  BY <1>3 DEF VariantTag, attrs

(* A message variant that is parsed has a tag.                             *)
LEMMA DeclaredTag ==
  ASSUME OrderInv, Accepted, phase = "done", declared.kind = "variant"
  PROVE  VariantTag(declared) \in Tag
<1> DEFINE v == [attrs |-> declared.attrs, fields |-> declared.fields]
<1>1. declared \in Declarations
  BY DEF OrderInv
<1>2. ~ VariantRefused(v)
  BY DEF Accepted, AttributesRefused
<1>3. Given(BilrostAttrs(declared.attrs), "message")
  BY <1>1, FieldOrderAssumption
<1>4. ~ IsEmptyVariant(v)
  BY <1>3 DEF IsEmptyVariant, LooksEmpty, Given, Named
<1>5. VariantTag(v) \in Tag
  <2> HIDE DEF v
  <2> QED
    BY <1>2, <1>4, VariantTagTyped
<1> QED
  BY <1>5 DEF VariantTag

(* The tags of a oneof that is derived.                                    *)
LEMMA DerivedTags ==
  ASSUME Accepted, phase = "derived", declared.kind = "oneof"
  PROVE  VariantTags(declared.variants) \subseteq Tag
<1> DEFINE variants == declared.variants
<1>1. ~ OneofDeclRefused(declared.attrs, variants)
  BY DEF Accepted, EnumRefused, DeriveOneofRefused
<1>2. \A i \in 1 .. Len(variants) : ~ VariantRefused(variants[i])
  BY <1>1 DEF OneofDeclRefused
<1>3. ASSUME NEW i \in (1 .. Len(variants)) \ EmptyVariants(variants)
      PROVE  VariantTag(variants[i]) \in Tag
  BY <1>2, <1>3, VariantTagTyped DEF EmptyVariants
<1> QED
  BY <1>3 DEF VariantTags

-----------------------------------------------------------------------------
(* Lengths of keys.                                                        *)

(* A single key of a oneof's variant takes what its measurer counts: the   *)
(* trivial one is chosen only if all the tags are small.                   *)
LEMMA OneofMeasured ==
  ASSUME NEW tags \in SUBSET Tag, NEW tag \in tags
  PROVE  OneofKeys(tags, tag) = WrittenKeys(<<tag>>)
<1>1. MaxTag \in Nat /\ ShortDelta \in Nat
  BY FieldOrderAssumption
<1>2. tag \in Nat
  BY <1>1 DEF Tag
<1>3. CASE Trivial(tags)
  <2>1. tag < ShortDelta
    BY <1>3 DEF Trivial
  <2>2. KeyLength(tag - 0) = 1
    BY <1>1, <1>2, <2>1 DEF KeyLength
  <2>3. WrittenKeys(<<tag>>) = [i \in 1 .. 1 |-> 1]
    BY <2>2 DEF WrittenKeys
  <2>4. OneofKeys(tags, tag) = [i \in 1 .. 1 |-> 1]
    BY <1>3 DEF OneofKeys, MeasuredKeys
  <2> QED
    BY <2>3, <2>4
<1>4. CASE ~ Trivial(tags)
  BY <1>4 DEF OneofKeys, MeasuredKeys
<1> QED
  BY <1>3, <1>4

(* The keys written backwards are those written forwards.                  *)
LEMMA KeysReversed ==
  ASSUME NEW tags \in Seq(Int)
  PROVE  PrependedKeys(Reverse(tags)) = Reverse(WrittenKeys(tags))
<1> DEFINE n == Len(tags)
           rev == Reverse(tags)
           written == WrittenKeys(tags)
<1>1. n \in Nat
  BY LenProperties
<1>2. rev = [i \in 1 .. n |-> tags[n - i + 1]] /\ Len(rev) = n
  BY <1>1, ReverseIs DEF Reverse
<1>3. Len(written) = n
  BY <1>1 DEF WrittenKeys
<1>4. Reverse(written) = [i \in 1 .. n |-> written[n - i + 1]]
  BY <1>3 DEF Reverse
<1>5. PrependedKeys(rev) = [i \in 1 .. n |->
        KeyLength(rev[i] - (IF i = n THEN 0 ELSE rev[i + 1]))]
  BY <1>2 DEF PrependedKeys
<1>6. ASSUME NEW i \in 1 .. n
      PROVE  KeyLength(rev[i] - (IF i = n THEN 0 ELSE rev[i + 1]))
               = written[n - i + 1]
  <2> DEFINE j == n - i + 1
  <2>1. j \in 1 .. n /\ (i = n <=> j = 1)
    BY <1>1
  <2>2. rev[i] = tags[j]
    BY <1>2
  <2>3. i # n => rev[i + 1] = tags[j - 1]
    <3>1. i # n => i + 1 \in 1 .. n /\ n - (i + 1) + 1 = j - 1
      BY <1>1
    <3> QED
      BY <1>2, <3>1
  <2>4. written[j] = KeyLength(tags[j] - (IF j = 1 THEN 0 ELSE tags[j - 1]))
    BY <2>1 DEF WrittenKeys
  <2> HIDE DEF j, written, rev
  <2>5. (IF i = n THEN 0 ELSE rev[i + 1]) = (IF j = 1 THEN 0 ELSE tags[j - 1])
    BY <2>1, <2>3
  <2> QED
    BY <2>2, <2>4, <2>5 DEF j
<1> HIDE DEF written, rev
<1>7. PrependedKeys(rev) = Reverse(written)
  BY <1>4, <1>5, <1>6
<1> QED
  BY <1>7 DEF rev, written

(* The keys of fields, however many, and of variants, in whatever oneof.   *)
LEMMA InvMeasures == OrderInv /\ Accepted => MeasuresKeys
<1> SUFFICES ASSUME OrderInv, Accepted
             PROVE  MeasuresKeys
  OBVIOUS
<1>1. ASSUME phase = "done", NEW set \in Instances
      PROVE  /\ FieldKeys(set) = WrittenKeys(Encoded(set))
             /\ PrependedKeys(Prepended(set)) = Reverse(WrittenKeys(Encoded(set)))
             /\ declared.kind = "variant" =>
                  \A others \in SUBSET Tag :
                    VariantKeys(others \cup {VariantTag(declared)}, set)
                      = WrittenKeys(<<VariantTag(declared)>>)
                          \o WrittenKeys(Encoded(set))
  <2>1. Emits(Encoded(set), Less, set) /\ Prepended(set) = Reverse(Encoded(set))
    BY <1>1, DoneEmits
  <2>2. Encoded(set) \in Seq(Int)
    BY <2>1 DEF Emits
  <2>3. ~ Trivial(Tags(fields))
    <3>1. fields = <<>>
      BY <1>1 DEF OrderInv
    <3>2. Tags(fields) = {}
      BY <3>1 DEF Tags
    <3> QED
      BY <3>2 DEF Trivial
  <2>4. FieldKeys(set) = WrittenKeys(Encoded(set))
    BY <2>3 DEF FieldKeys, MeasuredKeys
  <2>5. PrependedKeys(Prepended(set)) = Reverse(WrittenKeys(Encoded(set)))
    BY <2>1, <2>2, KeysReversed
  <2>6. ASSUME declared.kind = "variant", NEW others \in SUBSET Tag
        PROVE  VariantKeys(others \cup {VariantTag(declared)}, set)
                 = WrittenKeys(<<VariantTag(declared)>>)
                     \o WrittenKeys(Encoded(set))
    <3>1. VariantTag(declared) \in Tag
      BY <1>1, <2>6, DeclaredTag
    <3>2. OneofKeys(others \cup {VariantTag(declared)}, VariantTag(declared))
            = WrittenKeys(<<VariantTag(declared)>>)
      BY <3>1, OneofMeasured
    <3> QED
      BY <2>4, <3>2 DEF VariantKeys
  <2> QED
    BY <2>4, <2>5, <2>6
<1>2. ASSUME phase = "derived", declared.kind = "oneof",
             NEW tag \in VariantTags(declared.variants)
      PROVE  OneofKeys(VariantTags(declared.variants), tag) = WrittenKeys(<<tag>>)
  BY <1>2, DerivedTags, OneofMeasured
<1> QED
  BY <1>1, <1>2 DEF MeasuresKeys

(* Whatever is declared and set, encoded_len counts the keys that are      *)
(* written: the trivial measurer, which a oneof that is a message is given *)
(* when all its tags are small, one byte for the key of its variant, the   *)
(* variant's fields by a measurer of their own; and TagRevWriter, which    *)
(* learns the distance of a key one field later, writes the same ones.     *)
THEOREM FieldsMeasureKeys == Spec => []MeasuresKeys
  BY ScanInvariant, AcceptedInvariant, InvMeasures, PTL

=============================================================================
