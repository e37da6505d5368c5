------------------------- MODULE ReverseBufferProofs -------------------------
(***************************************************************************)
(* The invariants and action properties of ReverseBuffer, that it          *)
(* implements PrependQueue, and that a reader over it reads and copies its *)
(* content: for every set of bytes, every minimum chunk and every argument.*)
(***************************************************************************)
EXTENDS ReverseBufferReader, DataInduction

-----------------------------------------------------------------------------
(* Overwriting within a chunk changes the bytes of the range written only. *)
LEMMA OverwriteProperties ==
  ASSUME NEW chunk \in Seq(Cell), NEW data \in Seq(Byte), NEW at \in Nat,
         at + Len(data) <= Len(chunk)
  PROVE  /\ Overwrite(chunk, at, data) \in Seq(Cell)
         /\ Len(Overwrite(chunk, at, data)) = Len(chunk)
         /\ \A k \in 1 .. Len(chunk) :
              /\ k \in at + 1 .. at + Len(data) =>
                   Overwrite(chunk, at, data)[k] = data[k - at]
              /\ k \notin at + 1 .. at + Len(data) =>
                   Overwrite(chunk, at, data)[k] = chunk[k]
<1>1. /\ Len(chunk) \in Nat /\ Len(data) \in Nat
      /\ \A k \in 1 .. Len(chunk) : chunk[k] \in Cell
      /\ \A k \in 1 .. Len(data) : data[k] \in Byte
  BY LenProperties, ElementOfSeq
<1>2. \A k \in at + 1 .. at + Len(data) : k - at \in 1 .. Len(data)
  BY <1>1
<1>3. Overwrite(chunk, at, data) \in [1 .. Len(chunk) -> Cell]
  BY <1>1, <1>2 DEF Overwrite, Cell
<1>4. /\ Overwrite(chunk, at, data) \in Seq(Cell)
      /\ Len(Overwrite(chunk, at, data)) = Len(chunk)
  BY <1>1, <1>3, FunctionIsSeq
<1>5. \A k \in 1 .. Len(chunk) :
        Overwrite(chunk, at, data)[k] =
          IF k \in at + 1 .. at + Len(data) THEN data[k - at] ELSE chunk[k]
  BY DEF Overwrite
<1>6. QED
  BY <1>4, <1>5

-----------------------------------------------------------------------------
(* The inductive invariant: what the runs check, each chunk lies below the *)
(* later ones (which follows from CapacityAccounting, but by induction), a *)
(* kept chunk is there and not empty, and a plan covers what it promised.  *)

Ordered == \A i, j \in 1 .. Count : i < j => base[i] + Size(i) <= base[j]

KeptBack == keep_back => chunks # <<>> /\ Size(1) > 0

PlanInv ==
  /\ planned_exact => planned_allocation >= capacity
  /\ promise <= capacity + planned_allocation

IInv ==
  /\ TypeOK
  /\ CapacityAccounting
  /\ FrontValid
  /\ Initialized
  /\ Ordered
  /\ KeptBack
  /\ PlanInv

(* The shape of the stack of chunks, as arithmetic facts.                  *)
LEMMA Shape ==
  ASSUME TypeOK
  PROVE  /\ Count \in Nat
         /\ chunks = <<>> <=> Count = 0
         /\ \A i \in 1 .. Count : /\ chunks[i] \in Seq(Cell)
                                  /\ Size(i) \in Nat
                                  /\ base[i] \in Nat
                                  /\ \A k \in 1 .. Size(i) : chunks[i][k] \in Cell
<1>1. Count \in Nat /\ (chunks = <<>> <=> Count = 0)
  BY EmptySeq, LenProperties DEF TypeOK, Count
<1>2. \A i \in 1 .. Count : chunks[i] \in Seq(Cell) /\ base[i] \in Nat
  BY ElementOfSeq DEF TypeOK, Count
<1>3. QED
  BY <1>1, <1>2, LenProperties, ElementOfSeq DEF Size

(* No chunk is larger than the capacity.                                   *)
LEMMA WithinCapacity ==
  ASSUME IInv, NEW i \in 1 .. Count
  PROVE  base[i] + Size(i) <= capacity
<1>1. /\ Count \in Nat /\ i \in Nat /\ i <= Count /\ i >= 1 /\ Count \in 1 .. Count
      /\ base[i] \in Nat /\ Size(i) \in Nat
      /\ base[Count] \in Nat /\ Size(Count) \in Nat
  BY Shape DEF IInv
<1>2. capacity = base[Count] + Size(Count)
  BY <1>1, Shape DEF IInv, CapacityAccounting
<1>3. CASE i = Count
  BY <1>1, <1>2, <1>3
<1>4. CASE i # Count
  <2>1. base[i] + Size(i) <= base[Count]
    BY <1>1, <1>4 DEF IInv, Ordered
  <2>2. QED
    BY <1>1, <1>2, <2>1
<1>5. QED
  BY <1>3, <1>4

(* Writing before front touches the front chunk only.                      *)
LEMMA WrittenProperties ==
  ASSUME TypeOK, NEW data \in Seq(Byte), NEW at \in Nat,
         Count > 0 => at + Len(data) <= Size(Count)
  PROVE  /\ WrittenInFront(at, data) \in Seq(Seq(Cell))
         /\ Len(WrittenInFront(at, data)) = Count
         /\ \A i \in 1 .. Count : Len(WrittenInFront(at, data)[i]) = Size(i)
         /\ \A i \in 1 .. Count - 1 : WrittenInFront(at, data)[i] = chunks[i]
         /\ Count > 0 =>
              \A k \in 1 .. Size(Count) :
                /\ k \in at + 1 .. at + Len(data) =>
                     /\ WrittenInFront(at, data)[Count][k] = data[k - at]
                     /\ WrittenInFront(at, data)[Count][k] \in Byte
                /\ k \notin at + 1 .. at + Len(data) =>
                     WrittenInFront(at, data)[Count][k] = chunks[Count][k]
<1> DEFINE top == Overwrite(chunks[Count], at, data)
           w == WrittenInFront(at, data)
<1>1. \A i \in 1 .. Count : w[i] = IF i = Count THEN top ELSE chunks[i]
  BY DEF WrittenInFront
<1>2. Count > 0 => /\ top \in Seq(Cell)
                   /\ Len(top) = Size(Count)
                   /\ \A k \in 1 .. Size(Count) :
                        /\ k \in at + 1 .. at + Len(data) => top[k] = data[k - at]
                        /\ k \notin at + 1 .. at + Len(data) => top[k] = chunks[Count][k]
  <2> SUFFICES ASSUME Count > 0
               PROVE  /\ top \in Seq(Cell)
                      /\ Len(top) = Size(Count)
                      /\ \A k \in 1 .. Size(Count) :
                           /\ k \in at + 1 .. at + Len(data) => top[k] = data[k - at]
                           /\ k \notin at + 1 .. at + Len(data) => top[k] = chunks[Count][k]
    OBVIOUS
  <2>1. chunks[Count] \in Seq(Cell) /\ Count \in 1 .. Count
    BY Shape
  <2>2. at + Len(data) <= Len(chunks[Count])
    BY DEF Size
  <2>3. QED
    BY <2>1, <2>2, OverwriteProperties DEF Size
<1>3. \A k \in at + 1 .. at + Len(data) : data[k - at] \in Byte
  <2>1. Len(data) \in Nat
    BY LenProperties
  <2>2. \A k \in at + 1 .. at + Len(data) : k - at \in 1 .. Len(data)
    BY <2>1
  <2>3. QED
    BY <2>2, ElementOfSeq
<1>4. w \in [1 .. Count -> Seq(Cell)]
  BY <1>2, Shape DEF WrittenInFront
<1>5. w \in Seq(Seq(Cell)) /\ Len(w) = Count
  BY <1>4, Shape, FunctionIsSeq
<1> HIDE DEF top, w
<1>6. \A i \in 1 .. Count : Len(w[i]) = Size(i)
  BY <1>1, <1>2, Shape, SMTT(30) DEF Size
<1>7. \A i \in 1 .. Count - 1 : w[i] = chunks[i]
  BY <1>1, Shape
<1>8. Count > 0 =>
        \A k \in 1 .. Size(Count) :
          /\ k \in at + 1 .. at + Len(data) =>
               w[Count][k] = data[k - at] /\ w[Count][k] \in Byte
          /\ k \notin at + 1 .. at + Len(data) => w[Count][k] = chunks[Count][k]
  <2>1. Count > 0 => w[Count] = top
    BY <1>1, Shape
  <2>2. QED
    BY <1>2, <1>3, <2>1
<1>9. QED
  BY <1>5, <1>6, <1>7, <1>8 DEF w

-----------------------------------------------------------------------------
(* Steps.                                                                  *)

(* What every way of growing does: the back of data fills the room before  *)
(* front, in cs, and its first bytes end the new chunk.                    *)
Grows(data, cs, new, size, early) ==
  /\ size \in Nat \ {0} /\ early \in 1 .. Len(data) /\ early <= size
  /\ Len(data) = early + front
  /\ cs \in Seq(Seq(Cell)) /\ Len(cs) = Count
  /\ \A i \in 1 .. Count : Len(cs[i]) = Size(i)
  /\ \A i \in 1 .. Count - 1 : cs[i] = chunks[i]
  /\ Count > 0 =>
       \A k \in 1 .. Size(Count) :
         cs[Count][k] = IF k <= front THEN data[early + k] ELSE chunks[Count][k]
  /\ new \in Seq(Cell) /\ Len(new) = size
  /\ \A k \in size - early + 1 .. size : new[k] = data[k - (size - early)]
  /\ chunks' = Append(cs, new)
  /\ Grown(size, size - early)

(* A chunk pushed on the stack keeps the invariant.                        *)
LEMMA GrownKeeps ==
  ASSUME IInv, ~popping, NEW data \in Seq(Byte), NEW cs, NEW new, NEW size, NEW early,
         Grows(data, cs, new, size, early)
  PROVE  IInv'
<1> DEFINE f == size - early
<1>0. /\ size \in Nat \ {0} /\ f \in 0 .. size - 1
      /\ cs \in Seq(Seq(Cell)) /\ Len(cs) = Count
      /\ new \in Seq(Cell) /\ Len(new) = size
      /\ \A i \in 1 .. Count : Len(cs[i]) = Size(i)
      /\ chunks' = Append(cs, new)
      /\ Grown(size, f)
  BY LenProperties DEF Grows
<1>14. \A i \in 1 .. Len(data) : data[i] \in Byte
  BY ElementOfSeq
<1>15. /\ Len(data) \in Nat /\ front \in Nat /\ Len(data) = early + front
       /\ early \in 1 .. Len(data) /\ early <= size
  BY LenProperties DEF Grows, IInv, TypeOK
<1>16. \A k \in f + 1 .. size : new[k] \in Byte
  <2>1. \A k \in f + 1 .. size : new[k] = data[k - f]
    BY DEF Grows
  <2>2. \A k \in f + 1 .. size : k - f \in 1 .. Len(data)
    BY <1>0, <1>15
  <2>3. QED
    BY <1>14, <2>1, <2>2
<1>17. ASSUME NEW i \in 1 .. Count, NEW k \in 1 .. Size(i)
       PROVE  cs[i][k] \in Byte
  <2>1. Count \in Nat /\ Size(i) \in Nat
    BY Shape DEF IInv
  <2>2. CASE i < Count
    <3>1. i \in 1 .. Count - 1 /\ chunks[i][k] \in Byte
      BY <2>1, <2>2 DEF IInv, Initialized
    <3>2. cs[i] = chunks[i]
      BY <3>1 DEF Grows
    <3>3. QED
      BY <3>1, <3>2
  <2>3. CASE i = Count
    <3>1. cs[i][k] = IF k <= front THEN data[early + k] ELSE chunks[i][k]
      BY <2>1, <2>3 DEF Grows
    <3>2. CASE k <= front
      <4>1. early + k \in 1 .. Len(data)
        BY <1>15, <2>1, <3>2
      <4>2. QED
        BY <1>14, <3>1, <3>2, <4>1
    <3>3. CASE ~(k <= front)
      <4>1. front < k
        BY <1>15, <2>1, <3>3
      <4>2. QED
        BY <3>1, <3>3, <4>1 DEF IInv, Initialized
    <3>4. QED
      BY <3>2, <3>3
  <2>4. QED
    BY <2>1, <2>2, <2>3
<1> HIDE DEF f
<1>1. /\ Count \in Nat
      /\ \A i \in 1 .. Count : Size(i) \in Nat /\ base[i] \in Nat
      /\ chunks = <<>> <=> Count = 0
      /\ base \in Seq(Nat) /\ Len(base) = Count
      /\ capacity \in Nat /\ front \in Nat
  BY Shape DEF IInv, TypeOK
<1>2. /\ chunks' \in Seq(Seq(Cell)) /\ chunks' # <<>>
      /\ Count' = Count + 1
      /\ \A i \in 1 .. Count : chunks'[i] = cs[i]
      /\ chunks'[Count + 1] = new
  BY <1>0, AppendProperties DEF Count
<1>3. /\ base' \in Seq(Nat) /\ Len(base') = Count + 1
      /\ \A i \in 1 .. Count : base'[i] = base[i]
      /\ base'[Count + 1] = capacity
  BY <1>0, <1>1, AppendProperties DEF Grown
<1>4. /\ capacity' = capacity + size
      /\ front' = f
      /\ planned_allocation' = 0 /\ planned_exact' = FALSE /\ promise' = 0
      /\ keep_back' = keep_back /\ popping' = popping
  BY <1>0 DEF Grown, Unplan
<1>5. /\ \A i \in 1 .. Count : Len(chunks'[i]) = Size(i)
      /\ Len(chunks'[Count + 1]) = size
  BY <1>0, <1>2
<1>6. TypeOK'
  <2>1. Len(base') = Count'
    BY <1>2, <1>3
  <2>2. capacity' \in Nat /\ front' \in Nat
    BY <1>0, <1>1, <1>4
  <2>3. QED
    BY <1>2, <1>3, <1>4, <2>1, <2>2 DEF IInv, TypeOK
<1>7. CapacityAccounting'
  <2>1. \A i \in 1 .. Count : base'[i + 1] = base'[i] + Len(chunks'[i])
    <3> SUFFICES ASSUME NEW i \in 1 .. Count
                 PROVE  base'[i + 1] = base'[i] + Len(chunks'[i])
      OBVIOUS
    <3>1. CASE i < Count
      <4>1. i \in 1 .. Count - 1 /\ i + 1 \in 1 .. Count
        BY <1>1, <3>1
      <4>2. base[i + 1] = base[i] + Size(i)
        BY <4>1 DEF IInv, CapacityAccounting
      <4>3. QED
        BY <1>3, <1>5, <4>1, <4>2
    <3>2. CASE i = Count
      BY <1>1, <1>3, <1>5, <3>2 DEF IInv, CapacityAccounting
    <3>3. QED
      BY <1>1, <3>1, <3>2
  <2>2. base'[1] = 0
    <3>1. CASE Count = 0
      BY <1>1, <1>3, <3>1 DEF IInv, CapacityAccounting
    <3>2. CASE Count # 0
      <4>1. 1 \in 1 .. Count /\ base[1] = 0
        BY <1>1, <3>2 DEF IInv, CapacityAccounting
      <4>2. QED
        BY <1>3, <4>1
    <3>3. QED
      BY <3>1, <3>2
  <2>3. Count' - 1 = Count
    BY <1>1, <1>2
  <2>4. capacity' = base'[Count'] + Len(chunks'[Count']) /\ front' <= capacity'
    <3>1. base'[Count'] = capacity /\ Len(chunks'[Count']) = size
      BY <1>2, <1>3, <1>5
    <3>2. QED
      BY <1>0, <1>1, <1>4, <3>1
  <2>5. QED
    BY <1>2, <2>1, <2>2, <2>3, <2>4 DEF CapacityAccounting, Size
<1>8. FrontValid'
  BY <1>0, <1>1, <1>2, <1>4, <1>5 DEF FrontValid, FrontChunk
<1>9. Initialized'
  <2> SUFFICES ASSUME NEW i \in 1 .. Count + 1, NEW k \in 1 .. Len(chunks'[i]),
                      i < Count + 1 \/ f < k
               PROVE  chunks'[i][k] \in Byte
    BY <1>2, <1>4 DEF Initialized, Size
  <2>1. CASE i \in 1 .. Count
    BY <1>2, <1>5, <1>17, <2>1
  <2>2. CASE i = Count + 1
    BY <1>0, <1>1, <1>2, <1>5, <1>16, <2>2
  <2>3. QED
    BY <1>1, <2>1, <2>2
<1>10. KeptBack'
  <2> SUFFICES ASSUME keep_back
               PROVE  Len(chunks'[1]) > 0
    BY <1>2, <1>4 DEF KeptBack, Size
  <2>1. 1 \in 1 .. Count /\ Size(1) > 0
    BY <1>1 DEF IInv, KeptBack
  <2>2. QED
    BY <1>5, <2>1
<1>11. PlanInv'
  BY <1>0, <1>1, <1>4 DEF PlanInv
<1>12. Ordered'
  <2> SUFFICES ASSUME NEW i \in 1 .. Count + 1, NEW j \in 1 .. Count + 1, i < j
               PROVE  base'[i] + Len(chunks'[i]) <= base'[j]
    BY <1>2 DEF Ordered, Size
  <2>1. /\ i \in 1 .. Count
        /\ base'[i] + Len(chunks'[i]) = base[i] + Size(i)
    <3>1. i \in 1 .. Count
      BY <1>1
    <3>2. base'[i] = base[i] /\ Len(chunks'[i]) = Size(i)
      BY <1>3, <1>5, <3>1
    <3> QED
      BY <3>1, <3>2
  <2>2. CASE j = Count + 1
    BY <1>3, <2>1, <2>2, WithinCapacity
  <2>3. CASE j \in 1 .. Count
    BY <1>3, <2>1, <2>3 DEF IInv, Ordered
  <2>4. QED
    BY <1>1, <2>2, <2>3
<1>13. QED
  BY <1>6, <1>7, <1>8, <1>9, <1>10, <1>11, <1>12 DEF IInv

(* What an allocation is sized for: the data that needs it, doubling, and  *)
(* the promise made by the plan.                                           *)
LEMMA ReservedSize ==
  ASSUME IInv, NEW n \in Nat, n > front
  PROVE  /\ AllocationSize(Reserved(n)) \in Nat \ {0}
         /\ AllocationSize(Reserved(n)) >= n - front
         /\ AllocationSize(Reserved(n)) >= capacity
         /\ capacity + AllocationSize(Reserved(n)) >= promise
<1>1. /\ front \in Nat /\ capacity \in Nat /\ planned_allocation \in Nat
      /\ planned_exact \in BOOLEAN /\ promise \in Nat
      /\ planned_exact => planned_allocation >= capacity
      /\ promise <= capacity + planned_allocation
      /\ MinChunk \in Nat \ {0}
  BY BufferAssumption DEF IInv, TypeOK, PlanInv
<1>2. CASE planned_allocation > n - front
  <2>1. Reserved(n) = [size |-> planned_allocation, exact |-> planned_exact]
    BY <1>1, <1>2 DEF Reserved
  <2>2. AllocationSize(Reserved(n)) =
          IF planned_exact THEN planned_allocation
          ELSE Larger(Larger(MinChunk, capacity), planned_allocation)
    BY <2>1 DEF AllocationSize
  <2>3. QED
    BY <1>1, <1>2, <2>2 DEF Larger
<1>3. CASE ~(planned_allocation > n - front)
  <2>1. Reserved(n) = [size |-> n - front, exact |-> FALSE]
    BY <1>1, <1>3 DEF Reserved
  <2>2. AllocationSize(Reserved(n)) = Larger(Larger(MinChunk, capacity), n - front)
    BY <2>1 DEF AllocationSize
  <2>3. QED
    BY <1>1, <1>3, <2>2 DEF Larger
<1>4. QED
  BY <1>2, <1>3

(* An allocation that was planned has room for what was promised.          *)
LEMMA PlannedSize ==
  ASSUME IInv
  PROVE  LET size == AllocationSize([size |-> planned_allocation, exact |-> planned_exact])
         IN size \in Nat /\ size >= capacity /\ capacity + size >= promise
<1>1. /\ capacity \in Nat /\ planned_allocation \in Nat
      /\ planned_exact \in BOOLEAN /\ promise \in Nat
      /\ planned_exact => planned_allocation >= capacity
      /\ promise <= capacity + planned_allocation
      /\ MinChunk \in Nat \ {0}
  BY BufferAssumption DEF IInv, TypeOK, PlanInv
<1>2. QED
  BY <1>1 DEF AllocationSize, Larger

(* A written part of a blank chunk.                                        *)
LEMMA BlankProperties ==
  ASSUME NEW size \in Nat, NEW at \in Nat, NEW data \in Seq(Byte),
         at + Len(data) = size
  PROVE  /\ Overwrite(Blank(size), at, data) \in Seq(Cell)
         /\ Len(Overwrite(Blank(size), at, data)) = size
         /\ \A k \in at + 1 .. size :
              Overwrite(Blank(size), at, data)[k] = data[k - at]
<1>1. Blank(size) \in [1 .. size -> Cell]
  BY DEF Blank, Cell
<1>2. Blank(size) \in Seq(Cell) /\ Len(Blank(size)) = size
  BY <1>1, FunctionIsSeq
<1>3. /\ Overwrite(Blank(size), at, data) \in Seq(Cell)
      /\ Len(Overwrite(Blank(size), at, data)) = size
      /\ \A k \in 1 .. size :
           k \in at + 1 .. at + Len(data) =>
             Overwrite(Blank(size), at, data)[k] = data[k - at]
  BY <1>2, OverwriteProperties
<1>4. \A k \in at + 1 .. size : k \in 1 .. size /\ k \in at + 1 .. at + Len(data)
  BY LenProperties
<1>5. QED
  BY <1>3, <1>4

(* Data that fits before front.                                            *)
LEMMA PlaceKeeps ==
  ASSUME IInv, ~popping, NEW data \in Seq(Byte), Len(data) > 0, PlaceInFront(data)
  PROVE  IInv'
<1> DEFINE w == WrittenInFront(front - Len(data), data)
<1>1. /\ front \in Nat /\ capacity \in Nat /\ Len(data) \in Nat
      /\ Len(data) <= front /\ chunks' = w
      /\ front' = front - Len(data)
      /\ UNCHANGED <<capacity, plan, keep_back, popping, base>>
  BY LenProperties DEF PlaceInFront, IInv, TypeOK
<1>2. /\ Count \in Nat /\ Count > 0 /\ chunks # <<>>
      /\ \A i \in 1 .. Count : Size(i) \in Nat
  BY <1>1, Shape DEF IInv, CapacityAccounting
<1>3. front <= Size(Count)
  BY <1>1, <1>2 DEF IInv, FrontValid, FrontChunk, Size
<1>4. /\ w \in Seq(Seq(Cell)) /\ Len(w) = Count
      /\ \A i \in 1 .. Count : Len(w[i]) = Size(i)
      /\ \A i \in 1 .. Count - 1 : w[i] = chunks[i]
      /\ \A k \in 1 .. Size(Count) :
           /\ k \in front' + 1 .. front => w[Count][k] \in Byte
           /\ k \notin front' + 1 .. front => w[Count][k] = chunks[Count][k]
  <2>1. front' \in Nat /\ front' + Len(data) = front
    BY <1>1
  <2>2. QED
    BY <1>1, <1>2, <1>3, <2>1, WrittenProperties DEF IInv
<1> HIDE DEF w
<1>5. /\ Count' = Count /\ chunks' # <<>>
      /\ \A i \in 1 .. Count : Len(chunks'[i]) = Size(i)
  <2>1. Count' = Count
    BY <1>1, <1>4 DEF Count
  <2>2. QED
    BY <1>1, <1>2, <1>4, <2>1, EmptySeq DEF Count
<1>6. TypeOK'
  BY <1>1, <1>4, <1>5 DEF IInv, TypeOK, plan
<1>7. CapacityAccounting'
  BY <1>1, <1>2, <1>5 DEF IInv, CapacityAccounting, Size
<1>8. FrontValid'
  BY <1>1, <1>2, <1>3, <1>5 DEF FrontValid, FrontChunk
<1>9. Initialized'
  <2> SUFFICES ASSUME NEW i \in 1 .. Count, NEW k \in 1 .. Size(i),
                      i < Count \/ front' < k
               PROVE  chunks'[i][k] \in Byte
    BY <1>5 DEF Initialized, Size
  <2>1. CASE i < Count
    <3>1. i \in 1 .. Count - 1 /\ chunks[i][k] \in Byte
      BY <1>2, <2>1 DEF IInv, Initialized
    <3>2. QED
      BY <1>1, <1>4, <3>1
  <2>2. CASE i = Count /\ k <= front
    BY <1>1, <1>2, <1>4, <2>2
  <2>3. CASE i = Count /\ k > front
    BY <1>1, <1>2, <1>4, <2>3 DEF IInv, Initialized
  <2>4. QED
    BY <1>1, <1>2, <2>1, <2>2, <2>3
<1>10. KeptBack' /\ PlanInv'
  BY <1>1, <1>2, <1>5 DEF IInv, KeptBack, PlanInv, Size, plan
<1>11. Ordered'
  BY <1>1, <1>5 DEF IInv, Ordered, Size
<1>12. QED
  BY <1>6, <1>7, <1>8, <1>9, <1>10, <1>11 DEF IInv

(* The written prefix and suffix of data split at early bytes.             *)
LEMMA SplitProperties ==
  ASSUME NEW data \in Seq(Byte), NEW early \in 1 .. Len(data)
  PROVE  /\ SubSeq(data, 1, early) \in Seq(Byte)
         /\ Len(SubSeq(data, 1, early)) = early
         /\ \A k \in 1 .. early : SubSeq(data, 1, early)[k] = data[k]
         /\ SubSeq(data, early + 1, Len(data)) \in Seq(Byte)
         /\ Len(SubSeq(data, early + 1, Len(data))) = Len(data) - early
         /\ \A k \in 1 .. Len(data) - early :
              SubSeq(data, early + 1, Len(data))[k] = data[early + k]
<1>1. Len(data) \in Nat /\ early \in Nat /\ early >= 1 /\ early <= Len(data)
  BY LenProperties
<1>2. \A i \in 1 .. Len(data) : data[i] \in Byte
  BY ElementOfSeq
<1>3. \A i \in 1 .. early : data[i] \in Byte
  BY <1>1, <1>2
<1>4. \A i \in early + 1 .. Len(data) : data[i] \in Byte
  BY <1>1, <1>2
<1>5. /\ SubSeq(data, 1, early) \in Seq(Byte)
      /\ Len(SubSeq(data, 1, early)) = IF 1 <= early THEN early - 1 + 1 ELSE 0
      /\ \A k \in 1 .. early - 1 + 1 : SubSeq(data, 1, early)[k] = data[1 + k - 1]
  BY <1>1, <1>3, SubSeqProperties
<1>6. /\ SubSeq(data, early + 1, Len(data)) \in Seq(Byte)
      /\ Len(SubSeq(data, early + 1, Len(data))) =
           IF early + 1 <= Len(data) THEN Len(data) - (early + 1) + 1 ELSE 0
      /\ \A k \in 1 .. Len(data) - (early + 1) + 1 :
           SubSeq(data, early + 1, Len(data))[k] = data[(early + 1) + k - 1]
  BY <1>1, <1>4, SubSeqProperties
<1>7. /\ Len(SubSeq(data, 1, early)) = early
      /\ \A k \in 1 .. early : SubSeq(data, 1, early)[k] = data[k]
  <2>1. early - 1 + 1 = early /\ \A k \in 1 .. early : 1 + k - 1 = k
    BY <1>1
  <2>2. QED
    BY <1>1, <1>5, <2>1
<1>8. /\ Len(SubSeq(data, early + 1, Len(data))) = Len(data) - early
      /\ \A k \in 1 .. Len(data) - early :
           SubSeq(data, early + 1, Len(data))[k] = data[early + k]
  <2>1. /\ Len(data) - (early + 1) + 1 = Len(data) - early
        /\ \A k \in 1 .. Len(data) - early : (early + 1) + k - 1 = early + k
    BY <1>1
  <2>2. early + 1 <= Len(data) => Len(data) - (early + 1) + 1 = Len(data) - early
    BY <1>1
  <2>3. ~(early + 1 <= Len(data)) => 0 = Len(data) - early
    BY <1>1
  <2>4. Len(SubSeq(data, early + 1, Len(data))) = Len(data) - early
    BY <1>6, <2>2, <2>3
  <2>5. \A k \in 1 .. Len(data) - early :
          SubSeq(data, early + 1, Len(data))[k] = data[(early + 1) + k - 1]
    BY <1>6, <2>1
  <2>6. QED
    BY <2>1, <2>4, <2>5
<1>9. QED
  BY <1>5, <1>6, <1>7, <1>8

(* Data that does not fit: its back fills the front chunk, its front goes  *)
(* to the end of a new one.                                                *)
LEMMA GrowBufGrows ==
  ASSUME IInv, ~popping, NEW data \in Seq(Byte), GrowAndCopyBuf(data)
  PROVE  \E cs, new, size, early : Grows(data, cs, new, size, early)
<1> DEFINE size == AllocationSize(Reserved(Len(data)))
           early == Len(data) - front
           back == SubSeq(data, early + 1, Len(data))
           first == SubSeq(data, 1, early)
           cs == WrittenInFront(0, back)
           new == Overwrite(Blank(size), size - early, first)
<1>1. /\ front \in Nat /\ Len(data) \in Nat /\ Len(data) > front
      /\ chunks' = Append(cs, Overwrite(Blank(size), size + front - Len(data), first))
      /\ Grown(size, size + front - Len(data))
  BY LenProperties DEF GrowAndCopyBuf, IInv, TypeOK
<1>2. early \in 1 .. Len(data) /\ early \in Nat /\ Len(data) = early + front
  BY <1>1
<1>3. size \in Nat \ {0} /\ size >= early
  BY <1>1, ReservedSize
<1>4. size + front - Len(data) = size - early
  BY <1>1, <1>2, <1>3
<1>5. chunks' = Append(cs, new) /\ Grown(size, size - early)
  BY <1>1, <1>4
<1>6. /\ back \in Seq(Byte) /\ Len(back) = front
      /\ \A k \in 1 .. front : back[k] = data[early + k]
      /\ first \in Seq(Byte) /\ Len(first) = early
      /\ \A k \in 1 .. early : first[k] = data[k]
  <2>1. /\ first \in Seq(Byte) /\ Len(first) = early
        /\ \A k \in 1 .. early : first[k] = data[k]
        /\ back \in Seq(Byte) /\ Len(back) = Len(data) - early
        /\ \A k \in 1 .. Len(data) - early : back[k] = data[early + k]
    <3> HIDE DEF early
    <3> QED
      BY <1>2, SplitProperties
  <2>2. Len(data) - early = front
    BY <1>1
  <2>3. QED
    BY <2>1, <2>2
<1> HIDE DEF size, early, back, first, new
<1>7. /\ cs \in Seq(Seq(Cell)) /\ Len(cs) = Count
      /\ \A i \in 1 .. Count : Len(cs[i]) = Size(i)
      /\ \A i \in 1 .. Count - 1 : cs[i] = chunks[i]
      /\ Count > 0 =>
           \A k \in 1 .. Size(Count) :
             cs[Count][k] = IF k <= front THEN data[early + k] ELSE chunks[Count][k]
  <2>1. Count > 0 => front <= Size(Count) /\ Size(Count) \in Nat
    BY <1>1, Shape DEF IInv, FrontValid, FrontChunk, Size
  <2>2. TypeOK /\ 0 \in Nat /\ (Count > 0 => 0 + Len(back) <= Size(Count))
    BY <1>1, <1>6, <2>1 DEF IInv
  <2>3. /\ cs \in Seq(Seq(Cell)) /\ Len(cs) = Count
        /\ \A i \in 1 .. Count : Len(cs[i]) = Size(i)
        /\ \A i \in 1 .. Count - 1 : cs[i] = chunks[i]
        /\ Count > 0 =>
             \A k \in 1 .. Size(Count) :
               /\ k \in 0 + 1 .. 0 + Len(back) =>
                    cs[Count][k] = back[k - 0] /\ cs[Count][k] \in Byte
               /\ k \notin 0 + 1 .. 0 + Len(back) => cs[Count][k] = chunks[Count][k]
    BY <1>6, <2>2, WrittenProperties
  <2> HIDE DEF cs
  <2>4. ASSUME Count > 0, NEW k \in 1 .. Size(Count)
        PROVE  cs[Count][k] = IF k <= front THEN data[early + k] ELSE chunks[Count][k]
    <3>1. CASE k <= front
      <4>1. k \in 1 .. front /\ k \in 0 + 1 .. 0 + Len(back) /\ k - 0 = k
        BY <1>1, <1>6, <2>1, <2>4, <3>1
      <4>2. QED
        BY <1>6, <2>3, <2>4, <3>1, <4>1
    <3>2. CASE ~(k <= front)
      <4>1. k \notin 0 + 1 .. 0 + Len(back)
        BY <1>1, <1>6, <2>1, <2>4, <3>2
      <4>2. QED
        BY <2>3, <2>4, <3>2, <4>1
    <3>3. QED
      BY <3>1, <3>2
  <2>5. QED
    BY <2>3, <2>4
<1>8. /\ new \in Seq(Cell) /\ Len(new) = size
      /\ \A k \in size - early + 1 .. size : new[k] = data[k - (size - early)]
  <2>1. size - early \in Nat /\ (size - early) + Len(first) = size
    BY <1>2, <1>3, <1>6
  <2>2. /\ new \in Seq(Cell) /\ Len(new) = size
        /\ \A k \in (size - early) + 1 .. size : new[k] = first[k - (size - early)]
    BY <1>3, <1>6, <2>1, BlankProperties, ZenonT(60) DEF new
  <2>3. \A k \in (size - early) + 1 .. size : k - (size - early) \in 1 .. early
    BY <1>2, <1>3
  <2>4. QED
    BY <1>6, <2>2, <2>3
<1> HIDE DEF cs
<1>9. Grows(data, cs, new, size, early)
  BY <1>2, <1>3, <1>5, <1>7, <1>8 DEF Grows
<1>10. QED
  BY <1>9

(* Data of which no byte goes to the front chunk.                          *)
LEMMA PushGrows ==
  ASSUME IInv, NEW data \in Seq(Byte), Len(data) > 0, front = 0,
         NEW size \in Nat, size >= Len(data),
         chunks' = Append(chunks, Overwrite(Blank(size), size - Len(data), data)),
         Grown(size, size - Len(data))
  PROVE  \E cs, new, n, early : Grows(data, cs, new, n, early)
<1> DEFINE new == Overwrite(Blank(size), size - Len(data), data)
<1>1. Len(data) \in Nat \ {0} /\ size \in Nat \ {0}
  BY LenProperties
<1>2. /\ new \in Seq(Cell) /\ Len(new) = size
      /\ \A k \in (size - Len(data)) + 1 .. size : new[k] = data[k - (size - Len(data))]
  <2>1. size - Len(data) \in Nat /\ (size - Len(data)) + Len(data) = size
    BY <1>1
  <2>2. QED
    BY <1>1, <2>1, BlankProperties
<1>3. /\ chunks \in Seq(Seq(Cell)) /\ Len(chunks) = Count
      /\ \A i \in 1 .. Count : Len(chunks[i]) = Size(i)
  BY DEF IInv, TypeOK, Count, Size
<1>4. chunks' = Append(chunks, new)
  OBVIOUS
<1> HIDE DEF new
<1>5. Grows(data, chunks, new, size, Len(data))
  <2>1. \A k \in 1 .. Size(Count) : ~(k <= front)
    OBVIOUS
  <2>2. Len(data) \in 1 .. Len(data) /\ Len(data) <= size /\ Len(data) = Len(data) + front
    BY <1>1
  <2>3. QED
    BY <1>1, <1>2, <1>3, <1>4, <2>1, <2>2 DEF Grows
<1>6. QED
  BY <1>5

(* Growing for a slice, where a full front chunk takes no part.            *)
LEMMA GrowSliceGrows ==
  ASSUME IInv, ~popping, NEW data \in Seq(Byte), GrowAndCopySlice(data)
  PROVE  \E cs, new, size, early : Grows(data, cs, new, size, early)
<1> DEFINE size == AllocationSize(Reserved(Len(data)))
           new(f) == Overwrite(Blank(size), f, data)
<1>1. /\ front \in Nat /\ Len(data) \in Nat /\ Len(data) > front
      /\ Grown(size, front + size - Len(data))
  BY LenProperties DEF GrowAndCopySlice, IInv, TypeOK
<1>2. size \in Nat \ {0} /\ size >= Len(data) - front
  BY <1>1, ReservedSize
<1>3. CASE front > 0
  <2>1. front + size - Len(data) = size + front - Len(data)
    BY <1>1, <1>2
  <2>2. GrowAndCopyBuf(data)
    BY <1>1, <1>3, <2>1 DEF GrowAndCopySlice, GrowAndCopyBuf
  <2>3. QED
    BY <2>2, GrowBufGrows
<1>4. CASE front = 0
  <2>1. chunks' = Append(chunks, new(front + size - Len(data)))
    BY <1>1, <1>4 DEF GrowAndCopySlice
  <2>2. size - Len(data) = front + size - Len(data) /\ size >= Len(data) /\ size \in Nat
    BY <1>1, <1>2, <1>4
  <2>3. chunks' = Append(chunks, new(size - Len(data))) /\ Grown(size, size - Len(data))
    BY <1>1, <2>1, <2>2
  <2> HIDE DEF size
  <2>4. QED
    BY <1>1, <1>4, <2>2, <2>3, PushGrows
<1>5. QED
  BY <1>1, <1>3, <1>4

(* A single byte goes before front, or in a new chunk if there is no room. *)
LEMMA PrependU8Grows ==
  ASSUME IInv, NEW b \in Byte, PrependU8(b), ~PlaceInFront(<<b>>)
  PROVE  \E cs, new, size, early : Grows(<<b>>, cs, new, size, early)
<1> DEFINE size == AllocationSize([size |-> planned_allocation, exact |-> planned_exact])
           data == <<b>>
<1>1. /\ front = 0 /\ size > 0
      /\ chunks' = Append(chunks, Overwrite(Blank(size), size - 1, <<b>>))
      /\ Grown(size, size - 1)
  BY DEF PrependU8
<1>2. size \in Nat
  BY PlannedSize
<1>3. data \in Seq(Byte) /\ Len(data) = 1
  OBVIOUS
<1> HIDE DEF size
<1>4. /\ chunks' = Append(chunks, Overwrite(Blank(size), size - Len(data), data))
      /\ Grown(size, size - Len(data))
  BY <1>1, <1>3 DEF data
<1> HIDE DEF data
<1>5. \E cs, new, n, early : Grows(data, cs, new, n, early)
  <2>1. Len(data) > 0 /\ size >= Len(data)
    BY <1>1, <1>2, <1>3
  <2>2. QED
    BY <1>1, <1>2, <1>3, <1>4, <2>1, PushGrows
<1>6. QED
  BY <1>5 DEF data

(* Dropping the front chunk.                                               *)
LEMMA PopKeeps ==
  ASSUME IInv, PopChunk
  PROVE  IInv'
<1> DEFINE n == Count - 1
<1>1. /\ popping /\ chunks # <<>> /\ front >= Size(Count)
      /\ ~(keep_back /\ Count = 1)
      /\ chunks' = SubSeq(chunks, 1, n)
      /\ base' = SubSeq(base, 1, n)
      /\ capacity' = capacity - Size(Count)
      /\ front' = front - Size(Count)
      /\ planned_allocation' = 0 /\ planned_exact' = FALSE /\ promise' = 0
      /\ keep_back' = keep_back /\ popping' = popping
  BY DEF PopChunk, Spent, FrontChunk, Size, Unplan
<1>2. /\ Count \in Nat \ {0} /\ n \in Nat
      /\ \A i \in 1 .. Count : Size(i) \in Nat
      /\ front \in Nat /\ capacity \in Nat
      /\ base \in Seq(Nat) /\ Len(base) = Count /\ base # <<>>
  BY <1>1, Shape, EmptySeq DEF IInv, TypeOK
<1>3. /\ chunks' \in Seq(Seq(Cell)) /\ Count' = n
      /\ \A i \in 1 .. n : chunks'[i] = chunks[i]
  BY <1>1, DropLast DEF IInv, TypeOK, Count
<1>4. /\ base' \in Seq(Nat) /\ Len(base') = n
      /\ \A i \in 1 .. n : base'[i] = base[i]
  BY <1>1, <1>2, DropLast
<1>5. /\ capacity = base[Count] + Size(Count) /\ base[1] = 0
      /\ \A i \in 1 .. n : base[i + 1] = base[i] + Size(i)
      /\ front <= capacity
  BY <1>1 DEF IInv, CapacityAccounting
<1>6. chunks' = <<>> <=> n = 0
  BY <1>2, <1>3, EmptySeq DEF Count
<1>7. \A i \in 1 .. Count : base[i] \in Nat
  BY <1>2, ElementOfSeq
<1>8. TypeOK'
  <2>1. base[Count] \in Nat /\ Size(Count) \in Nat
    BY <1>2, <1>7
  <2>2. capacity' = base[Count]
    BY <1>1, <1>5, <2>1
  <2>3. front' \in Nat
    BY <1>1, <1>2, <2>1
  <2>4. QED
    BY <1>1, <1>3, <1>4, <2>1, <2>2, <2>3 DEF IInv, TypeOK
<1>9. CapacityAccounting'
  <2>1. front' <= capacity'
    BY <1>1, <1>2, <1>5
  <2>2. CASE n = 0
    BY <1>1, <1>2, <1>3, <1>5, <1>6, <2>1, <2>2 DEF CapacityAccounting
  <2>3. CASE n > 0
    <3>1. n \in 1 .. n /\ n + 1 = Count /\ 1 \in 1 .. n
      BY <1>2, <2>3
    <3>2. capacity' = base'[n] + Len(chunks'[n]) /\ base'[1] = 0
      <4> HIDE DEF n
      <4>1. base'[n] = base[n] /\ base'[1] = base[1]
        BY ONLY <1>4, <3>1
      <4>2. chunks'[n] = chunks[n]
        BY ONLY <1>3, <3>1
      <4>3. base[Count] = base[n] + Size(n)
        BY ONLY <1>5, <3>1
      <4>4. capacity' = base[Count]
        <5>1. base[Count] \in Nat /\ Size(Count) \in Nat
          BY <1>2, <1>7
        <5> QED
          BY ONLY <1>1, <1>5, <5>1
      <4> QED
        BY ONLY <1>5, <4>1, <4>2, <4>3, <4>4 DEF Size
    <3>3. \A i \in 1 .. n - 1 : base'[i + 1] = base'[i] + Len(chunks'[i])
      <4> SUFFICES ASSUME NEW i \in 1 .. n - 1
                   PROVE  base'[i + 1] = base'[i] + Len(chunks'[i])
        OBVIOUS
      <4>1. i \in 1 .. n /\ i + 1 \in 1 .. n
        BY <1>2
      <4>2. QED
        BY <1>3, <1>4, <1>5, <4>1 DEF Size
    <3>4. QED
      BY <1>3, <1>6, <2>1, <2>3, <3>2, <3>3 DEF CapacityAccounting, Size
  <2>4. QED
    BY <1>2, <2>2, <2>3
<1>10. FrontValid'
  BY <1>1 DEF FrontValid
<1>11. Initialized'
  <2> SUFFICES ASSUME NEW i \in 1 .. n, NEW k \in 1 .. Size(i)
               PROVE  chunks[i][k] \in Byte
    BY <1>3 DEF Initialized, Size
  <2>1. i \in 1 .. Count /\ i < Count
    BY <1>2
  <2>2. QED
    BY <2>1 DEF IInv, Initialized
<1>12. KeptBack'
  <2> SUFFICES ASSUME keep_back
               PROVE  chunks' # <<>> /\ Len(chunks'[1]) > 0
    BY <1>1 DEF KeptBack, Size
  <2>1. 1 \in 1 .. n
    BY <1>1, <1>2
  <2>2. QED
    BY <1>3, <1>6, <2>1 DEF IInv, KeptBack, Size
<1>13. PlanInv'
  BY <1>1, <1>8 DEF PlanInv, TypeOK
<1>14. Ordered'
  <2> SUFFICES ASSUME NEW i \in 1 .. n, NEW j \in 1 .. n, i < j
               PROVE  base[i] + Size(i) <= base[j]
    BY <1>3, <1>4 DEF Ordered, Size
  <2>1. i \in 1 .. Count /\ j \in 1 .. Count
    BY <1>2
  <2>2. QED
    BY <2>1 DEF IInv, Ordered
<1>15. QED
  BY <1>8, <1>9, <1>10, <1>11, <1>12, <1>13, <1>14 DEF IInv

(* The operations that leave the chunks alone.                             *)
LEMMA BookkeepingKeeps ==
  ASSUME IInv,
         \/ \E n \in Reservations : PlanReservation(n)
         \/ \E n \in Reservations : PlanReservationExact(n)
         \/ \E cnt \in 1 .. Length : Advance(cnt)
         \/ AdvanceDone
  PROVE  IInv'
<1>1. /\ front \in Nat /\ capacity \in Nat /\ planned_allocation \in Nat
      /\ promise \in Nat /\ planned_exact \in BOOLEAN
      /\ front <= capacity /\ Length = capacity - front
      /\ planned_exact => planned_allocation >= capacity
      /\ promise <= capacity + planned_allocation
  BY DEF IInv, TypeOK, CapacityAccounting, PlanInv, Length
<1>2. UNCHANGED <<chunks, capacity, keep_back, base>>
  BY DEF PlanReservation, PlanReservationExact, Advance, AdvanceDone
<1>3. KeptBack' /\ Ordered'
  BY <1>2 DEF IInv, KeptBack, Ordered, Size, Count
<1>4. \A i : Size(i)' = Size(i)
  BY <1>2 DEF Size
<1>5. ASSUME NEW n \in Reservations, PlanReservation(n)
      PROVE  IInv'
  <2>1. n \in Nat /\ UNCHANGED <<front, popping>>
    BY <1>5, BufferAssumption DEF PlanReservation
  <2>2. /\ planned_allocation' \in Nat /\ planned_exact' \in BOOLEAN /\ promise' \in Nat
        /\ planned_exact' => planned_allocation' >= capacity
        /\ promise' <= capacity + planned_allocation'
    <3>1. promise' = Larger(promise, Length + n)
      BY <1>5 DEF PlanReservation
    <3>2. CASE front > n \/ planned_allocation > n - front
      <4>1. planned_allocation' = planned_allocation /\ planned_exact' = planned_exact
        BY <1>5, <3>2 DEF PlanReservation, Reserved
      <4>2. QED
        BY <1>1, <2>1, <3>1, <3>2, <4>1 DEF Larger
    <3>3. CASE ~(front > n \/ planned_allocation > n - front)
      <4>1. planned_allocation' = n - front /\ planned_exact' = FALSE
        BY <1>5, <3>3 DEF PlanReservation, Reserved
      <4>2. /\ n - front \in Nat /\ planned_allocation <= n - front
            /\ Length + n = capacity + (n - front)
        BY <1>1, <2>1, <3>3
      <4>3. promise <= capacity + (n - front)
        BY <1>1, <4>2
      <4>4. promise' \in Nat /\ promise' <= capacity + (n - front)
        <5>1. Length + n \in Nat
          BY <1>1, <2>1
        <5>2. QED
          BY <1>1, <3>1, <4>2, <4>3, <5>1 DEF Larger
      <4>5. QED
        BY <4>1, <4>2, <4>4
    <3>4. QED
      BY <3>2, <3>3
  <2>3. QED
    BY <1>2, <1>3, <2>1, <2>2
       DEF IInv, TypeOK, CapacityAccounting, FrontValid, FrontChunk, Initialized,
           PlanInv, Size, Count
<1>6. ASSUME NEW n \in Reservations, PlanReservationExact(n)
      PROVE  IInv'
  <2>1. n \in Nat /\ UNCHANGED <<front, popping>> /\ n >= front
    BY <1>6, BufferAssumption DEF PlanReservationExact
  <2>2. /\ planned_allocation' = capacity + (n - front) /\ planned_exact' = TRUE
        /\ promise' = Length + n
    BY <1>6 DEF PlanReservationExact
  <2>3. /\ planned_allocation' \in Nat /\ promise' \in Nat
        /\ planned_allocation' >= capacity
        /\ promise' <= capacity + planned_allocation'
    BY <1>1, <2>1, <2>2
  <2>4. QED
    BY <1>2, <1>3, <2>1, <2>2, <2>3
       DEF IInv, TypeOK, CapacityAccounting, FrontValid, FrontChunk, Initialized,
           PlanInv, Size, Count
<1>7. ASSUME NEW cnt \in 1 .. Length, Advance(cnt)
      PROVE  IInv'
  <2>1. /\ ~popping /\ popping' = TRUE /\ front' = front + cnt
        /\ UNCHANGED plan
    BY <1>7 DEF Advance
  <2>2. front' \in Nat /\ front' >= front /\ front' <= capacity
    BY <1>1, <1>7, <2>1
  <2>3. Initialized'
    <3> SUFFICES ASSUME NEW i \in 1 .. Count, NEW k \in 1 .. Size(i),
                        i < Count \/ front' < k
                 PROVE  chunks[i][k] \in Byte
      BY <1>2 DEF Initialized, Size, Count
    <3>1. i < Count \/ front < k
      BY <1>1, <2>2, Shape DEF IInv
    <3>2. QED
      BY <3>1 DEF IInv, Initialized
  <2>4. QED
    BY <1>2, <1>3, <2>1, <2>2, <2>3
       DEF IInv, TypeOK, CapacityAccounting, FrontValid, PlanInv, Size, Count, plan
<1>8. ASSUME AdvanceDone
      PROVE  IInv'
  <2>1. /\ ~Spent /\ popping' = FALSE /\ UNCHANGED <<front, plan>>
    BY <1>8 DEF AdvanceDone
  <2>2. FrontValid'
    <3> SUFFICES ASSUME chunks # <<>>, ~(front < Size(Count))
                 PROVE  front = Size(Count) /\ Count = 1 /\ keep_back
      BY <1>2, <2>1 DEF FrontValid, FrontChunk, Size, Count
    <3>1. keep_back /\ Count = 1 /\ Size(Count) \in Nat
      BY <1>1, <2>1, Shape DEF IInv, Spent, FrontChunk, Size
    <3>2. capacity = Size(Count)
      BY <1>1, <3>1 DEF IInv, CapacityAccounting
    <3>3. QED
      BY <1>1, <3>1, <3>2
  <2>3. QED
    BY <1>2, <1>3, <2>1, <2>2
       DEF IInv, TypeOK, CapacityAccounting, Initialized, PlanInv, Size, Count, plan
<1>9. QED
  BY <1>5, <1>6, <1>7, <1>8

(* clear keeps the invariant, with a kept chunk or without one.            *)
LEMMA ClearKeeps ==
  ASSUME IInv, Clear
  PROVE  IInv'
<1>1. /\ ~popping /\ keep_back' = keep_back /\ popping' = popping
      /\ capacity' = front'
      /\ planned_allocation' = 0 /\ planned_exact' = FALSE /\ promise' = 0
  BY DEF Clear, Unplan
<1>2. CASE keep_back
  <2>1. /\ chunks' = <<chunks[1]>> /\ base' = <<0>> /\ front' = Size(1)
    BY <1>2 DEF Clear, Size
  <2>2. /\ chunks[1] \in Seq(Cell) /\ Size(1) \in Nat /\ Size(1) > 0
    BY <1>2, Shape DEF IInv, KeptBack
  <2>3. /\ chunks' \in Seq(Seq(Cell)) /\ Len(chunks') = 1 /\ chunks'[1] = chunks[1]
        /\ base' \in Seq(Nat) /\ Len(base') = 1 /\ base'[1] = 0
        /\ chunks' # <<>>
    BY <2>1, <2>2
  <2>4. TypeOK'
    BY <1>1, <2>1, <2>2, <2>3 DEF IInv, TypeOK, Count
  <2>5. CapacityAccounting'
    BY <1>1, <2>1, <2>2, <2>3 DEF CapacityAccounting, Size, Count
  <2>6. FrontValid' /\ Initialized'
    BY <1>1, <1>2, <2>1, <2>2, <2>3 DEF FrontValid, FrontChunk, Initialized, Size, Count
  <2>7. KeptBack' /\ PlanInv' /\ Ordered'
    BY <1>1, <2>1, <2>2, <2>3 DEF KeptBack, PlanInv, Ordered, Size, Count
  <2>8. QED
    BY <2>4, <2>5, <2>6, <2>7 DEF IInv
<1>3. CASE ~keep_back
  <2>1. /\ chunks' = <<>> /\ base' = <<>> /\ front' = 0
        /\ Len(chunks') = 0 /\ Len(base') = 0
        /\ chunks' \in Seq(Seq(Cell)) /\ base' \in Seq(Nat)
    BY <1>3 DEF Clear
  <2>2. TypeOK'
    BY <1>1, <2>1 DEF IInv, TypeOK, Count
  <2>3. CapacityAccounting'
    BY <1>1, <2>1 DEF CapacityAccounting, Count
  <2>4. FrontValid' /\ Initialized' /\ Ordered' /\ KeptBack' /\ PlanInv'
    BY <1>1, <1>3, <2>1 DEF FrontValid, Initialized, Ordered, KeptBack, PlanInv, Count
  <2>5. QED
    BY <2>2, <2>3, <2>4 DEF IInv
<1>4. QED
  BY <1>2, <1>3

-----------------------------------------------------------------------------
(* Theorems.                                                               *)

(* The buffers constructors make satisfy the invariant.                    *)
LEMMA InitKeeps ==
  ASSUME Init
  PROVE  IInv
<1>1. CASE New
  <2>1. /\ chunks = <<>> /\ base = <<>> /\ front = 0 /\ capacity = 0 /\ keep_back = FALSE
        /\ planned_allocation = 0 /\ planned_exact = FALSE
        /\ popping = FALSE /\ promise = 0
    BY <1>1 DEF New, Made
  <2>2. /\ Len(chunks) = 0 /\ Len(base) = 0
        /\ chunks \in Seq(Seq(Cell)) /\ base \in Seq(Nat)
    BY <2>1
  <2>3. TypeOK
    BY <2>1, <2>2 DEF TypeOK, Count
  <2>4. CapacityAccounting
    BY <2>1, <2>2 DEF CapacityAccounting, Count
  <2>5. FrontValid /\ Initialized /\ Ordered /\ KeptBack /\ PlanInv
    BY <2>1, <2>2 DEF FrontValid, Initialized, Ordered, KeptBack, PlanInv, Count
  <2>6. QED
    BY <2>3, <2>4, <2>5 DEF IInv
<1>2. ASSUME NEW data \in Seq(Cell), NEW f \in {0, Len(data)}, NEW keep \in BOOLEAN,
             Made(<<data>>, f, Len(data), keep),
             \/ keep /\ f = Len(data) /\ Len(data) > 0
             \/ ~keep /\ f = 0 /\ data \in Seq(Byte)
      PROVE  IInv
  <2>1. /\ chunks = <<data>> /\ base = <<0>> /\ front = f /\ capacity = Len(data)
        /\ keep_back = keep
        /\ planned_allocation = 0 /\ planned_exact = FALSE
        /\ popping = FALSE /\ promise = 0
    BY <1>2 DEF Made
  <2>2. /\ Len(chunks) = 1 /\ chunks[1] = data /\ chunks # <<>>
        /\ Len(base) = 1 /\ base[1] = 0
        /\ chunks \in Seq(Seq(Cell)) /\ base \in Seq(Nat)
        /\ Len(data) \in Nat /\ f \in Nat /\ f <= Len(data)
    BY <2>1, LenProperties
  <2>3. TypeOK
    BY <2>1, <2>2 DEF TypeOK, Count
  <2>4. CapacityAccounting
    BY <2>1, <2>2 DEF CapacityAccounting, Size, Count
  <2>5. FrontValid
    BY <1>2, <2>1, <2>2 DEF FrontValid, FrontChunk, Count
  <2>6. Initialized
    BY <1>2, <2>1, <2>2, ElementOfSeq DEF Initialized, Size, Count
  <2>7. KeptBack /\ PlanInv /\ Ordered
    BY <1>2, <2>1, <2>2 DEF KeptBack, PlanInv, Ordered, Size, Count
  <2>8. QED
    BY <2>3, <2>4, <2>5, <2>6, <2>7 DEF IInv
<1>3. ASSUME NEW size \in Capacities, WithCapacity(size)
      PROVE  IInv
  <2>1. size \in Nat
    BY BufferAssumption
  <2>2. CASE size = 0
    BY <1>1, <1>3, <2>2 DEF WithCapacity
  <2>3. CASE size # 0
    <3>1. Blank(size) \in [1 .. size -> Cell]
      BY DEF Blank, Cell
    <3>2. Blank(size) \in Seq(Cell) /\ Len(Blank(size)) = size
      BY <2>1, <3>1, FunctionIsSeq
    <3>3. size > 0
      BY <2>1, <2>3
    <3>4. Made(<<Blank(size)>>, size, size, TRUE)
      BY <1>3, <2>3, Zenon DEF WithCapacity
    <3>5. QED
      BY <1>2, <3>2, <3>3, <3>4
  <2>4. QED
    BY <2>2, <2>3
<1>4. ASSUME NEW data \in Boxes, FromBox(data)
      PROVE  IInv
  <2>1. data \in Seq(Byte) /\ data \in Seq(Cell)
    <3>1. Byte \subseteq Cell
      BY DEF Cell
    <3>2. data \in Seq(Byte)
      BY BufferAssumption
    <3>3. QED
      BY <3>1, <3>2, SeqMonotonic
  <2>2. QED
    BY <1>2, <1>4, <2>1 DEF FromBox
<1>5. QED
  BY <1>1, <1>3, <1>4 DEF Init

(* Every operation, and every turn of the loop of advance, keeps the       *)
(* invariant.                                                              *)
LEMMA NextKeeps ==
  ASSUME IInv, [Next]_vars
  PROVE  IInv'
<1>1. \A data \in Writes : data \in Seq(Byte) /\ Len(data) > 0
  <2>1. \A data \in Writes : data \in Seq(Byte) /\ data # <<>>
    BY BufferAssumption
  <2>2. QED
    BY <2>1, EmptySeq
<1>2. ASSUME NEW data \in Writes, Prepend(data)
      PROVE  IInv'
  BY <1>1, <1>2, PlaceKeeps, GrowBufGrows, GrownKeeps DEF Prepend
<1>3. ASSUME NEW data \in Writes, PrependSlice(data)
      PROVE  IInv'
  BY <1>1, <1>3, PlaceKeeps, GrowSliceGrows, GrownKeeps DEF PrependSlice
<1>4. ASSUME NEW b \in Byte, PrependU8(b)
      PROVE  IInv'
  <2> DEFINE data == <<b>>
  <2>1. data \in Seq(Byte) /\ Len(data) > 0
    OBVIOUS
  <2>2. ~popping
    BY <1>4 DEF PrependU8
  <2>3. CASE PlaceInFront(<<b>>)
    <3>1. PlaceInFront(data)
      BY <2>3
    <3> HIDE DEF data
    <3>2. QED
      BY <2>1, <2>2, <3>1, PlaceKeeps
  <2>4. CASE ~PlaceInFront(<<b>>)
    <3>1. PICK cs, new, size, early : Grows(data, cs, new, size, early)
      BY <1>4, <2>4, PrependU8Grows
    <3> HIDE DEF data
    <3>2. QED
      BY <2>1, <2>2, <3>1, GrownKeeps
  <2>5. QED
    BY <2>3, <2>4
<1>5. CASE UNCHANGED vars
  BY <1>5 DEF IInv, TypeOK, CapacityAccounting, FrontValid, Initialized, Ordered,
              KeptBack, PlanInv, FrontChunk, Size, Count, vars, plan
<1>6. QED
  BY <1>2, <1>3, <1>4, <1>5, BookkeepingKeeps, PopKeeps, ClearKeeps DEF Next

(* In every reachable state the buffer is well formed: the capacity is the *)
(* total of the chunks and front is within it, front is a valid index of   *)
(* the front chunk outside advance, and no byte from front on is ever      *)
(* uninitialized, whatever is prepended, planned, read and cleared.        *)
THEOREM BufferInvariant == Spec => []IInv
<1>1. Init => IInv
  BY InitKeeps
<1>2. IInv /\ [Next]_vars => IInv'
  BY NextKeeps
<1>3. QED
  BY <1>1, <1>2, PTL DEF Spec

(* The fields of struct ReverseBuffer stay in their types: no size is ever *)
(* negative.                                                               *)
THEOREM BufferTypeOK == Spec => []TypeOK
<1>1. IInv => TypeOK
  BY DEF IInv
<1>2. QED
  BY <1>1, BufferInvariant, PTL

(* len(), the difference of capacity and front, never underflows, for any  *)
(* buffer and any order of calls.                                          *)
THEOREM BufferCapacityAccounting == Spec => []CapacityAccounting
<1>1. IInv => CapacityAccounting
  BY DEF IInv
<1>2. QED
  BY <1>1, BufferInvariant, PTL

(* front is a valid index of the front chunk whenever advance has returned,*)
(* with the exceptions the field's documentation makes.                    *)
THEOREM BufferFrontValid == Spec => []FrontValid
<1>1. IInv => FrontValid
  BY DEF IInv
<1>2. QED
  BY <1>1, BufferInvariant, PTL

(* chunk() and slices() never transmute a byte that was not written.       *)
THEOREM BufferInitialized == Spec => []Initialized
<1>1. IInv => Initialized
  BY DEF IInv
<1>2. QED
  BY <1>1, BufferInvariant, PTL

(* A step that allocates takes its size from the plan or the reservation.  *)
LEMMA AllocatingStep ==
  ASSUME IInv, Next, capacity' > capacity
  PROVE  capacity' >= promise /\ capacity' >= 2 * capacity
<1>1. /\ capacity \in Nat /\ front \in Nat /\ promise \in Nat
      /\ chunks # <<>> => Size(Count) \in Nat
  BY Shape DEF IInv, TypeOK
<1>2. ASSUME NEW data \in Writes, GrowAndCopyBuf(data) \/ GrowAndCopySlice(data)
      PROVE  capacity' >= promise /\ capacity' >= 2 * capacity
  <2>1. Len(data) \in Nat /\ Len(data) > front
    BY <1>2, BufferAssumption, LenProperties DEF GrowAndCopyBuf, GrowAndCopySlice
  <2>2. capacity' = capacity + AllocationSize(Reserved(Len(data)))
    BY <1>2 DEF GrowAndCopyBuf, GrowAndCopySlice, Grown
  <2>3. QED
    BY <1>1, <2>1, <2>2, ReservedSize
<1>3. ASSUME NEW b \in Byte, PrependU8(b)
      PROVE  capacity' >= promise /\ capacity' >= 2 * capacity
  <2> DEFINE size == AllocationSize([size |-> planned_allocation, exact |-> planned_exact])
  <2>1. capacity' = capacity \/ capacity' = capacity + size
    BY <1>3 DEF PrependU8, PlaceInFront, Grown
  <2>2. size \in Nat /\ size >= capacity /\ capacity + size >= promise
    BY PlannedSize
  <2> HIDE DEF size
  <2>3. QED
    BY <1>1, <2>1, <2>2
<1>4. ASSUME NEW data \in Writes, Prepend(data) \/ PrependSlice(data)
      PROVE  capacity' >= promise /\ capacity' >= 2 * capacity
  <2>1. CASE PlaceInFront(data)
    BY <1>1, <2>1 DEF PlaceInFront
  <2>2. QED
    BY <1>2, <1>4, <2>1 DEF Prepend, PrependSlice
<1>5. CASE PopChunk
  <2>1. capacity' = capacity - Size(Count) /\ chunks # <<>>
    BY <1>5 DEF PopChunk, Spent, FrontChunk, Size
  <2>2. QED
    BY <1>1, <2>1
<1>6. CASE Clear
  <2>1. CASE keep_back
    <3>1. capacity' = Size(1) /\ chunks # <<>>
      BY <1>6, <2>1 DEF Clear, Size, IInv, KeptBack
    <3>2. Size(1) <= capacity /\ Size(1) \in Nat
      <4>1. 1 \in 1 .. Count /\ Size(1) \in Nat /\ base[1] = 0
        BY <3>1, Shape DEF IInv, CapacityAccounting
      <4>2. base[1] + Size(1) <= capacity
        BY <4>1, WithinCapacity
      <4>3. QED
        BY <4>1, <4>2
    <3>3. QED
      BY <1>1, <3>1, <3>2
  <2>2. CASE ~keep_back
    BY <1>1, <1>6, <2>2 DEF Clear
  <2>3. QED
    BY <2>1, <2>2
<1>7. CASE \/ \E n \in Reservations : PlanReservation(n)
           \/ \E n \in Reservations : PlanReservationExact(n)
           \/ \E cnt \in 1 .. Length : Advance(cnt)
           \/ AdvanceDone
  <2>1. capacity' = capacity
    BY <1>7 DEF PlanReservation, PlanReservationExact, Advance, AdvanceDone
  <2>2. QED
    BY <1>1, <2>1
<1>8. QED
  BY <1>3, <1>4, <1>5, <1>6, <1>7 DEF Next

(* What plan_reservation promised is kept by the next allocation.          *)
THEOREM BufferPlanHonoured == Spec => PlanHonoured
<1>1. IInv /\ [Next]_vars => [capacity' > capacity => capacity' >= promise]_vars
  BY AllocatingStep
<1>2. QED
  BY <1>1, BufferInvariant, PTL DEF Spec, PlanHonoured

(* However its size was chosen, an allocation doubles the capacity.        *)
THEOREM BufferAllocationDoubles == Spec => AllocationDoubles
<1>1. IInv /\ [Next]_vars => [capacity' > capacity => capacity' >= 2 * capacity]_vars
  BY AllocatingStep
<1>2. QED
  BY <1>1, BufferInvariant, PTL DEF Spec, AllocationDoubles

-----------------------------------------------------------------------------
(* The content, and the queue of bytes that it implements.                 *)

(* The bytes of the chunks, each by how many others follow it.             *)
Bytes == [d \in 0 .. capacity - 1 |-> ByteBefore(d)]

(* What the content is, without the choice of a chunk.                     *)
ContentFacts ==
  /\ Length \in Nat /\ Length = capacity - front
  /\ capacity \in Nat /\ front \in Nat
  /\ \A d \in 0 .. capacity - 1 :
       \E i \in 1 .. Count : base[i] <= d /\ d < base[i] + Len(chunks[i])
  /\ \A i \in 1 .. Count : \A d \in 0 .. capacity - 1 :
       base[i] <= d /\ d < base[i] + Len(chunks[i]) =>
         Bytes[d] = chunks[i][Len(chunks[i]) - (d - base[i])]
  /\ Content \in Seq(Byte)
  /\ Len(Content) = Length
  /\ \A k \in 1 .. Length : Content[k] = Bytes[Length - k]

(* Every byte of the capacity is in exactly one chunk, and those of the    *)
(* content are written.                                                    *)
LEMMA ContentIs == IInv => ContentFacts
<1> SUFFICES ASSUME IInv PROVE ContentFacts
  OBVIOUS
<1> DEFINE Holds(i, d) == base[i] <= d /\ d < base[i] + Size(i)
<1>1. /\ Count \in Nat /\ capacity \in Nat /\ front \in Nat /\ front <= capacity
      /\ Length = capacity - front /\ Length \in Nat
      /\ \A i \in 1 .. Count : base[i] \in Nat /\ Size(i) \in Nat
      /\ chunks = <<>> <=> Count = 0
  BY Shape DEF IInv, TypeOK, CapacityAccounting, Length
<1>2. ASSUME NEW d \in 0 .. capacity - 1
      PROVE  \E i \in 1 .. Count : Holds(i, d)
  <2> DEFINE T == {i \in 1 .. Count : d < base[i] + Size(i)}
  <2>1. Count # 0
    BY <1>1 DEF IInv, CapacityAccounting
  <2>2. Count \in T
    <3>1. capacity = base[Count] + Size(Count) /\ Count \in 1 .. Count
      BY <1>1, <2>1 DEF IInv, CapacityAccounting
    <3>2. QED
      BY <1>1, <3>1
  <2>3. T \in SUBSET Nat
    BY <1>1
  <2>4. PICK m \in T : \A i \in T : m <= i
    <3> HIDE DEF T
    <3>1. QED
      BY <2>2, <2>3, LeastNatural
  <2>5. base[m] <= d
    <3>1. CASE m = 1
      BY <1>1, <2>1, <3>1 DEF IInv, CapacityAccounting
    <3>2. CASE m # 1
      <4>1. m - 1 \in 1 .. Count /\ m - 1 \in 1 .. Count - 1 /\ m - 1 \notin T /\ (m - 1) + 1 = m
        BY <1>1, <2>4, <3>2
      <4>2. base[(m - 1) + 1] = base[m - 1] + Size(m - 1)
        BY <4>1 DEF IInv, CapacityAccounting
      <4>3. ~ (d < base[m - 1] + Size(m - 1)) /\ base[m - 1] \in Nat /\ Size(m - 1) \in Nat
        BY <1>1, <4>1
      <4>4. QED
        BY <4>1, <4>2, <4>3
    <3>3. QED
      BY <3>1, <3>2
  <2>6. QED
    BY <2>4, <2>5
<1>3. ASSUME NEW i \in 1 .. Count, NEW j \in 1 .. Count, NEW d \in Nat,
             Holds(i, d), Holds(j, d)
      PROVE  i = j
  <2>1. ASSUME NEW a \in 1 .. Count, NEW b \in 1 .. Count, Holds(a, d), Holds(b, d), a < b
        PROVE  FALSE
    <3>1. base[a] + Size(a) <= base[b]
      BY <2>1 DEF IInv, Ordered
    <3>2. QED
      BY <1>1, <2>1, <3>1
  <2>2. QED
    BY <1>1, <1>3, <2>1
<1>4. ASSUME NEW i \in 1 .. Count, NEW d \in Nat, Holds(i, d)
      PROVE  ByteBefore(d) = chunks[i][Size(i) - (d - base[i])]
  <2>1. Home(d) = i
    BY <1>3, <1>4 DEF Home
  <2>2. QED
    BY <2>1 DEF ByteBefore
<1>5. ASSUME NEW k \in 1 .. Length
      PROVE  ByteBefore(Length - k) \in Byte /\ Length - k \in 0 .. capacity - 1
  <2>1. Length - k \in Nat /\ Length - k \in 0 .. capacity - 1
    BY <1>1
  <2>2. PICK i \in 1 .. Count : Holds(i, Length - k)
    BY <1>2, <2>1
  <2> DEFINE n == Size(i) - (Length - k - base[i])
  <2>3. ByteBefore(Length - k) = chunks[i][n]
    BY <1>4, <2>1, <2>2
  <2>4. n \in 1 .. Size(i)
    BY <1>1, <2>1, <2>2
  <2>5. i < Count \/ front < n
    <3>1. SUFFICES ASSUME i = Count PROVE front < n
      BY <1>1
    <3>2. capacity = base[i] + Size(i)
      BY <1>1, <3>1 DEF IInv, CapacityAccounting
    <3>3. \A c, f, l, b, m \in Nat :
            c = b + m => m - ((c - f) - l - b) = f + l
      OBVIOUS
    <3>4. /\ base[i] \in Nat /\ Size(i) \in Nat /\ k \in Nat /\ k >= 1
          /\ capacity \in Nat /\ front \in Nat /\ Length = capacity - front
      BY <1>1
    <3>5. n = Size(i) - ((capacity - front) - k - base[i])
      BY <3>4
    <3> HIDE DEF n
    <3>6. n = front + k
      BY <3>2, <3>3, <3>4, <3>5
    <3>7. QED
      BY <3>4, <3>6
  <2>6. QED
    BY <2>1, <2>3, <2>4, <2>5 DEF IInv, Initialized
<1>6. Content \in [1 .. Length -> Byte]
  BY <1>5 DEF Content
<1>7. Content \in Seq(Byte) /\ Len(Content) = Length
  BY <1>1, <1>6, FunctionIsSeq
<1>8. \A k \in 1 .. Length : Content[k] = Bytes[Length - k]
  BY <1>5 DEF Content, Bytes
<1>9. \A i \in 1 .. Count : \A d \in 0 .. capacity - 1 :
        base[i] <= d /\ d < base[i] + Len(chunks[i]) =>
          Bytes[d] = chunks[i][Len(chunks[i]) - (d - base[i])]
  BY <1>1, <1>4 DEF Bytes, Size
<1>10. \A d \in 0 .. capacity - 1 :
         \E i \in 1 .. Count : base[i] <= d /\ d < base[i] + Len(chunks[i])
  BY <1>2 DEF Size
<1>11. QED
  BY <1>1, <1>7, <1>8, <1>9, <1>10 DEF ContentFacts

(* The contents before and after a step that prepends.                     *)
LEMMA Prepended ==
  ASSUME ContentFacts, ContentFacts', NEW data \in Seq(Byte),
         Length' = Length + Len(data),
         \A d \in 0 .. Length - 1 : Bytes'[d] = Bytes[d],
         \A j \in 1 .. Len(data) : Bytes'[Length' - j] = data[j]
  PROVE  Content' = data \o Content
<1> DEFINE c == data \o Content
           l == Len(data)
<1>1. /\ Length \in Nat /\ l \in Nat /\ Length' = Length + l
      /\ Content \in Seq(Byte) /\ Len(Content) = Length
      /\ \A k \in 1 .. Length : Content[k] = Bytes[Length - k]
      /\ Content' \in Seq(Byte) /\ Len(Content') = Length'
      /\ \A k \in 1 .. Length' : Content'[k] = Bytes'[Length' - k]
  BY LenProperties DEF ContentFacts
<1>2. /\ c \in Seq(Byte) /\ Len(c) = l + Length
      /\ \A k \in 1 .. l + Length : c[k] = IF k <= l THEN data[k] ELSE Content[k - l]
  <2> DEFINE old == Content
  <2>1. old \in Seq(Byte) /\ Len(old) = Length
    BY <1>1
  <2> HIDE DEF old
  <2>2. /\ data \o old \in Seq(Byte) /\ Len(data \o old) = Len(data) + Len(old)
        /\ \A k \in 1 .. Len(data) + Len(old) :
             (data \o old)[k] = IF k <= Len(data) THEN data[k] ELSE old[k - Len(data)]
    BY <2>1, ConcatProperties
  <2>3. QED
    BY <2>1, <2>2 DEF old
<1> HIDE DEF c
<1>3. ASSUME NEW k \in 1 .. Length'
      PROVE  Content'[k] = c[k]
  <2>1. CASE k <= l
    <3>1. k \in 1 .. l /\ k \in 1 .. l + Length
      BY <1>1, <2>1
    <3>2. QED
      BY <1>1, <1>2, <2>1, <3>1
  <2>2. CASE k > l
    <3>1. /\ k - l \in 1 .. Length /\ Length' - k = Length - (k - l)
          /\ Length' - k \in 0 .. Length - 1 /\ k \in 1 .. l + Length /\ ~ (k <= l)
      BY <1>1, <2>2
    <3>2. Content'[k] = Bytes[Length' - k]
      BY <1>1, <3>1
    <3>3. QED
      BY <1>1, <1>2, <3>1, <3>2
  <2>3. QED
    BY <1>1, <2>1, <2>2
<1>4. Len(Content') = Len(c)
  BY <1>1, <1>2
<1>5. Content' = c
  BY <1>1, <1>2, <1>3, <1>4, SeqEqual
<1>6. QED
  BY <1>5 DEF c

(* What growing does to the arithmetic of the chunks.                      *)
LEMMA GrownShape ==
  ASSUME IInv, ~popping, NEW data \in Seq(Byte), NEW cs, NEW new, NEW size, NEW early,
         Grows(data, cs, new, size, early)
  PROVE  /\ Count \in Nat /\ Len(data) \in Nat /\ front \in Nat /\ capacity \in Nat
         /\ size \in Nat \ {0} /\ early \in Nat \ {0} /\ early <= size
         /\ Len(data) = early + front /\ front <= capacity
         /\ Length = capacity - front
         /\ capacity' = capacity + size /\ front' = size - early
         /\ Count' = Count + 1
         /\ \A i \in 1 .. Count : /\ chunks'[i] = cs[i] /\ Len(cs[i]) = Len(chunks[i])
                                  /\ base'[i] = base[i] /\ base[i] \in Nat
                                  /\ Len(chunks[i]) \in Nat
         /\ chunks'[Count + 1] = new /\ Len(new) = size /\ base'[Count + 1] = capacity
         /\ front > 0 => Count > 0
         /\ Count > 0 => /\ front <= Len(chunks[Count])
                         /\ capacity = base[Count] + Len(chunks[Count])
<1>1. /\ Count \in Nat /\ Len(data) \in Nat /\ front \in Nat /\ capacity \in Nat
      /\ size \in Nat \ {0} /\ early \in Nat \ {0} /\ early <= size
      /\ Len(data) = early + front /\ front <= capacity
      /\ Length = capacity - front
      /\ base \in Seq(Nat) /\ Len(base) = Count
      /\ chunks = <<>> <=> Count = 0
  BY LenProperties, Shape DEF Grows, IInv, TypeOK, CapacityAccounting, Length
<1>2. capacity' = capacity + size /\ front' = size - early
  BY DEF Grows, Grown
<1>3. /\ cs \in Seq(Seq(Cell)) /\ Len(cs) = Count
      /\ new \in Seq(Cell) /\ Len(new) = size
      /\ chunks' = Append(cs, new) /\ base' = Append(base, capacity)
  BY DEF Grows, Grown
<1>4. /\ Count' = Count + 1
      /\ \A i \in 1 .. Count : chunks'[i] = cs[i]
      /\ chunks'[Count + 1] = new
  BY <1>3, AppendProperties DEF Count
<1>5. /\ \A i \in 1 .. Count : base'[i] = base[i]
      /\ base'[Count + 1] = capacity
  BY <1>1, <1>3, AppendProperties
<1>6. \A i \in 1 .. Count : /\ Len(cs[i]) = Len(chunks[i])
                            /\ base[i] \in Nat /\ Len(chunks[i]) \in Nat
  BY Shape DEF Grows, IInv, Size
<1>7. front > 0 => Count > 0
  BY <1>1 DEF IInv, CapacityAccounting
<1>8. Count > 0 => /\ front <= Len(chunks[Count])
                   /\ capacity = base[Count] + Len(chunks[Count])
  BY <1>1, <1>6 DEF IInv, CapacityAccounting, FrontValid, FrontChunk, Size
<1>9. QED
  BY <1>1, <1>2, <1>3, <1>4, <1>5, <1>6, <1>7, <1>8

(* Where the bytes behind front lie in a chunk.                            *)
LEMMA Place ==
  ASSUME NEW n \in Nat, NEW b \in Nat, NEW f \in Nat, NEW d \in Nat,
         b <= d, d < b + n
  PROVE  /\ n - (d - b) \in 1 .. n
         /\ d < b + n - f => f < n - (d - b)
OBVIOUS

(* Which byte of a chunk is the one of that index.                         *)
LEMMA Index ==
  ASSUME NEW n \in Nat, NEW b \in Nat, NEW k \in 1 .. n, NEW c \in Nat, c = b + n
  PROVE  /\ n - ((c - k) - b) = k
         /\ b <= c - k /\ c - k < b + n /\ c - k \in 0 .. c - 1
OBVIOUS

(* Growing puts data before the content, whatever part of it goes to which *)
(* chunk.                                                                  *)
LEMMA GrownPrepends ==
  ASSUME IInv, IInv', ~popping, NEW data \in Seq(Byte),
         NEW cs, NEW new, NEW size, NEW early,
         Grows(data, cs, new, size, early)
  PROVE  Content' = data \o Content
<1>1. /\ Count \in Nat /\ Len(data) \in Nat /\ front \in Nat /\ capacity \in Nat
      /\ size \in Nat \ {0} /\ early \in Nat \ {0} /\ early <= size
      /\ Len(data) = early + front /\ front <= capacity
      /\ Length = capacity - front
      /\ capacity' = capacity + size /\ front' = size - early
      /\ Count' = Count + 1
      /\ \A i \in 1 .. Count : /\ chunks'[i] = cs[i] /\ Len(cs[i]) = Len(chunks[i])
                               /\ base'[i] = base[i] /\ base[i] \in Nat
                               /\ Len(chunks[i]) \in Nat
      /\ chunks'[Count + 1] = new /\ Len(new) = size /\ base'[Count + 1] = capacity
      /\ front > 0 => Count > 0
      /\ Count > 0 => /\ front <= Len(chunks[Count])
                      /\ capacity = base[Count] + Len(chunks[Count])
  BY GrownShape
<1>2. ContentFacts
  BY ContentIs
<1>3. ContentFacts'
  BY ContentIs, PTL
<1>4. Length' = Length + Len(data)
  <2>1. Length' = capacity' - front'
    BY <1>3 DEF ContentFacts
  <2>2. QED
    BY <1>1, <2>1
<1>5. \A i \in 1 .. Count' : \A d \in 0 .. capacity' - 1 :
        base'[i] <= d /\ d < base'[i] + Len(chunks'[i]) =>
          Bytes'[d] = chunks'[i][Len(chunks'[i]) - (d - base'[i])]
  BY <1>3 DEF ContentFacts
<1>6. ASSUME NEW d \in 0 .. Length - 1
      PROVE  Bytes'[d] = Bytes[d]
  <2>1. d \in 0 .. capacity - 1 /\ d \in 0 .. capacity' - 1 /\ d \in Nat /\ d < capacity - front
    BY <1>1
  <2>2. PICK i \in 1 .. Count : base[i] <= d /\ d < base[i] + Len(chunks[i])
    BY <1>2, <2>1 DEF ContentFacts
  <2> DEFINE n == Len(chunks[i])
             k == n - (d - base[i])
  <2>3. n \in Nat /\ base[i] \in Nat /\ Len(cs[i]) = n /\ chunks'[i] = cs[i] /\ base'[i] = base[i]
    BY <1>1
  <2>4. Bytes[d] = chunks[i][k]
    BY <1>2, <2>1, <2>2 DEF ContentFacts
  <2>5. Bytes'[d] = cs[i][k]
    <3>1. i \in 1 .. Count'
      BY <1>1
    <3>2. QED
      BY <1>5, <2>1, <2>2, <2>3, <3>1
  <2>6. k \in 1 .. n /\ (d < base[i] + n - front => front < k)
    <3>1. base[i] <= d /\ d < base[i] + n
      BY <2>2
    <3> HIDE DEF n
    <3>2. QED
      BY <1>1, <2>1, <2>3, <3>1, Place
  <2>7. n = Size(i)
    BY DEF Size
  <2> HIDE DEF n, k
  <2>8. CASE i = Count
    <3>1. n = Len(chunks[Count]) /\ capacity = base[i] + n
      BY <1>1, <2>7, <2>8 DEF Size
    <3>2. front < k /\ k \in Nat
      <4>1. d < (base[i] + n) - front /\ front \in Nat
        BY <1>1, <2>1, <3>1
      <4>2. QED
        BY <2>3, <2>6, <4>1
    <3>3. \A j \in 1 .. Size(Count) :
            cs[Count][j] = IF j <= front THEN data[early + j] ELSE chunks[Count][j]
      BY <1>1, <2>8 DEF Grows
    <3>4. cs[i][k] = chunks[i][k]
      BY <1>1, <2>6, <2>7, <2>8, <3>2, <3>3
    <3>5. QED
      BY <2>4, <2>5, <3>4
  <2>9. CASE i # Count
    <3>1. i \in 1 .. Count - 1
      BY <1>1, <2>9
    <3>2. QED
      BY <2>4, <2>5, <3>1 DEF Grows
  <2>10. QED
    BY <2>8, <2>9
<1>7. ASSUME NEW j \in 1 .. Len(data)
      PROVE  Bytes'[Length' - j] = data[j]
  <2>1. Length' - j = capacity + early - j /\ j \in Nat /\ j >= 1 /\ j <= early + front
    BY <1>1, <1>4
  <2>2. CASE j <= early
    <3> DEFINE d == capacity + (early - j)
    <3>1. d = Length' - j /\ d \in 0 .. capacity' - 1 /\ capacity <= d /\ d < capacity + size
      BY <1>1, <2>1, <2>2
    <3>2. size - (d - capacity) = size - early + j
      BY <1>1, <2>1
    <3> HIDE DEF d
    <3>3. Count + 1 \in 1 .. Count'
      BY <1>1
    <3>4. Bytes'[d] = new[size - early + j]
      <4>1. /\ chunks'[Count + 1] = new /\ Len(chunks'[Count + 1]) = size
            /\ base'[Count + 1] = capacity
        BY <1>1
      <4>2. Bytes'[d] = chunks'[Count + 1][Len(chunks'[Count + 1]) - (d - base'[Count + 1])]
        BY <1>5, <3>1, <3>3, <4>1
      <4>3. QED
        BY <3>2, <4>1, <4>2
    <3>5. /\ size - early + j \in size - early + 1 .. size
          /\ (size - early + j) - (size - early) = j
      BY <1>1, <2>1, <2>2
    <3>6. new[size - early + j] = data[j]
      BY <3>5 DEF Grows
    <3>7. QED
      BY <3>1, <3>4, <3>6
  <2>3. CASE j > early
    <3> DEFINE k == j - early
               d == capacity - k
               n == Len(chunks[Count])
    <3>1. Count > 0 /\ Count \in 1 .. Count /\ Count \in 1 .. Count'
      BY <1>1, <2>1, <2>3
    <3>2. /\ n \in Nat /\ base[Count] \in Nat /\ front <= n /\ capacity = base[Count] + n
          /\ Len(cs[Count]) = n /\ chunks'[Count] = cs[Count] /\ base'[Count] = base[Count]
      BY <1>1, <3>1
    <3>3. n = Size(Count)
      BY DEF Size
    <3> HIDE DEF n
    <3>4. k \in 1 .. n /\ k <= front /\ early + k = j /\ Length' - j = capacity - k
      <4>1. /\ early \in Nat /\ capacity \in Nat /\ front \in Nat /\ n \in Nat /\ front <= n
            /\ j \in Nat /\ j > early /\ j <= early + front
        BY <1>1, <2>1, <2>3, <3>2
      <4>2. Length' - j = capacity + early - j
        BY <2>1
      <4>3. QED
        BY <4>1, <4>2
    <3> HIDE DEF k
    <3>5. /\ n - (d - base[Count]) = k
          /\ base[Count] <= d /\ d < base[Count] + n /\ d \in 0 .. capacity - 1
      <4>1. /\ k \in 1 .. n /\ n \in Nat /\ base[Count] \in Nat
            /\ capacity = base[Count] + n /\ capacity \in Nat
        BY <1>1, <3>2, <3>4
      <4>2. QED
        BY <3>4, <4>1, Index, SMTT(30)
    <3>6. d = Length' - j /\ d \in 0 .. capacity' - 1
      BY <1>1, <3>4, <3>5
    <3> HIDE DEF d
    <3>7. Bytes'[d] = cs[Count][k]
      BY <1>5, <3>1, <3>2, <3>5, <3>6
    <3>8. \A l \in 1 .. Size(Count) :
            cs[Count][l] = IF l <= front THEN data[early + l] ELSE chunks[Count][l]
      BY <3>1 DEF Grows
    <3>9. cs[Count][k] = data[j]
      BY <3>3, <3>4, <3>8
    <3>10. QED
      BY <3>6, <3>7, <3>9
  <2>4. QED
    BY <1>1, <2>1, <2>2, <2>3, SMTT(30)
<1>8. QED
  BY <1>2, <1>3, <1>4, <1>6, <1>7, Prepended

(* So does writing it into the room before front.                          *)
LEMMA PlacePrepends ==
  ASSUME IInv, IInv', ~popping, NEW data \in Seq(Byte), Len(data) > 0, PlaceInFront(data)
  PROVE  Content' = data \o Content
<1> DEFINE at == front - Len(data)
           w == WrittenInFront(at, data)
<1>1. /\ front \in Nat /\ capacity \in Nat /\ Len(data) \in Nat
      /\ Len(data) <= front /\ chunks' = w /\ front' = at
      /\ capacity' = capacity /\ base' = base
      /\ front <= capacity /\ Length = capacity - front
      /\ at \in Nat /\ at + Len(data) = front
  BY LenProperties DEF PlaceInFront, IInv, TypeOK, CapacityAccounting, Length
<1>2. /\ Count \in Nat /\ Count > 0 /\ Count \in 1 .. Count
      /\ \A i \in 1 .. Count : Size(i) \in Nat /\ base[i] \in Nat
      /\ capacity = base[Count] + Size(Count)
      /\ front <= Size(Count)
  <2>1. /\ Count \in Nat /\ Count > 0 /\ Count \in 1 .. Count
        /\ \A i \in 1 .. Count : Size(i) \in Nat /\ base[i] \in Nat
        /\ chunks # <<>>
    BY <1>1, Shape DEF IInv, CapacityAccounting
  <2>2. capacity = base[Count] + Size(Count)
    BY <2>1 DEF IInv, CapacityAccounting
  <2>3. front <= Size(Count)
    BY <1>1, <2>1 DEF IInv, FrontValid, FrontChunk, Size
  <2>4. QED
    BY <2>1, <2>2, <2>3
<1> HIDE DEF at
<1>3. /\ Len(w) = Count
      /\ \A i \in 1 .. Count : Len(w[i]) = Size(i)
      /\ \A i \in 1 .. Count - 1 : w[i] = chunks[i]
      /\ \A k \in 1 .. Size(Count) :
           /\ k \in at + 1 .. at + Len(data) => w[Count][k] = data[k - at]
           /\ k \notin at + 1 .. at + Len(data) => w[Count][k] = chunks[Count][k]
  <2>1. TypeOK /\ (Count > 0 => at + Len(data) <= Size(Count))
    BY <1>1, <1>2 DEF IInv
  <2>2. QED
    BY <1>1, <1>2, <2>1, WrittenProperties, ZenonT(60)
<1> HIDE DEF w
<1>4. Count' = Count
  BY <1>1, <1>3 DEF Count
<1>5. ContentFacts
  BY ContentIs
<1>6. ContentFacts'
  BY ContentIs, PTL
<1>7. Length' = Length + Len(data)
  <2>1. Length' = capacity' - front'
    BY <1>6 DEF ContentFacts
  <2>2. QED
    BY <1>1, <2>1
<1>8. \A i \in 1 .. Count : \A d \in 0 .. capacity - 1 :
        base[i] <= d /\ d < base[i] + Size(i) =>
          /\ Bytes[d] = chunks[i][Size(i) - (d - base[i])]
          /\ Bytes'[d] = w[i][Size(i) - (d - base[i])]
  <2>1. \A i \in 1 .. Count' : \A d \in 0 .. capacity' - 1 :
          base'[i] <= d /\ d < base'[i] + Len(chunks'[i]) =>
            Bytes'[d] = chunks'[i][Len(chunks'[i]) - (d - base'[i])]
    BY <1>6 DEF ContentFacts
  <2>2. \A i \in 1 .. Count : \A d \in 0 .. capacity - 1 :
          base[i] <= d /\ d < base[i] + Len(chunks[i]) =>
            Bytes[d] = chunks[i][Len(chunks[i]) - (d - base[i])]
    BY <1>5 DEF ContentFacts
  <2>3. \A i \in 1 .. Count : Len(chunks[i]) = Size(i)
    BY DEF Size
  <2>4. QED
    BY <1>1, <1>3, <1>4, <2>1, <2>2, <2>3, SMTT(30)
<1>9. ASSUME NEW d \in 0 .. Length - 1
      PROVE  Bytes'[d] = Bytes[d]
  <2>1. d \in 0 .. capacity - 1 /\ d \in Nat /\ d < capacity - front
    BY <1>1
  <2>2. PICK i \in 1 .. Count : base[i] <= d /\ d < base[i] + Size(i)
    BY <1>5, <2>1 DEF ContentFacts, Size
  <2> DEFINE k == Size(i) - (d - base[i])
  <2>3. Size(i) \in Nat /\ base[i] \in Nat
    BY <1>2
  <2>4. Bytes[d] = chunks[i][k] /\ Bytes'[d] = w[i][k]
    BY <1>8, <2>1, <2>2
  <2>5. k \in 1 .. Size(i) /\ (d < base[i] + Size(i) - front => front < k)
    BY <1>1, <2>1, <2>2, <2>3, Place
  <2> HIDE DEF k
  <2>6. CASE i = Count
    <3>1. front < k /\ k \in Nat
      <4>1. capacity = base[i] + Size(i) /\ front \in Nat
        BY <1>1, <1>2, <2>6
      <4>2. d < (base[i] + Size(i)) - front
        BY <2>1, <4>1
      <4>3. QED
        BY <2>3, <2>5, <4>1, <4>2
    <3>2. k \notin at + 1 .. at + Len(data)
      BY <1>1, <3>1
    <3>3. QED
      BY <1>3, <2>4, <2>5, <2>6, <3>2
  <2>7. CASE i # Count
    <3>1. i \in 1 .. Count - 1
      BY <1>2, <2>7
    <3>2. QED
      BY <1>3, <2>4, <3>1
  <2>8. QED
    BY <2>6, <2>7
<1>10. ASSUME NEW j \in 1 .. Len(data)
       PROVE  Bytes'[Length' - j] = data[j]
  <2> DEFINE k == at + j
             d == capacity - k
             n == Size(Count)
  <2>1. n \in Nat /\ base[Count] \in Nat /\ capacity = base[Count] + n /\ front <= n
    BY <1>2
  <2> HIDE DEF n
  <2>2. k \in 1 .. n /\ k \in at + 1 .. at + Len(data) /\ k - at = j
    BY <1>1, <2>1
  <2>3. Length' - j = capacity - k
    <3>1. Length' = capacity - front + Len(data)
      BY <1>1, <1>7
    <3>2. QED
      BY <1>1, <3>1
  <2> HIDE DEF k
  <2>4. /\ n - (d - base[Count]) = k
        /\ base[Count] <= d /\ d < base[Count] + n /\ d \in 0 .. capacity - 1
    <3>1. /\ k \in 1 .. n /\ n \in Nat /\ base[Count] \in Nat
          /\ capacity = base[Count] + n /\ capacity \in Nat
      BY <1>1, <2>1, <2>2
    <3>2. QED
      BY <3>1, <2>3, Index, SMTT(30)
  <2> HIDE DEF d
  <2>5. Bytes'[d] = w[Count][k]
    BY <1>2, <1>8, <2>4 DEF n
  <2>6. w[Count][k] = data[j]
    BY <1>3, <2>2 DEF n
  <2>7. QED
    BY <2>3, <2>5, <2>6 DEF d
<1>11. QED
  BY <1>5, <1>6, <1>7, <1>9, <1>10, Prepended

(* A byte whose chunk stays where it is stays the same.                    *)
LEMMA SameByte ==
  ASSUME ContentFacts, ContentFacts',
         NEW d \in 0 .. capacity - 1, d \in 0 .. capacity' - 1,
         NEW i \in 1 .. Count, i \in 1 .. Count',
         base[i] <= d, d < base[i] + Len(chunks[i]),
         chunks'[i] = chunks[i], base'[i] = base[i]
  PROVE  Bytes'[d] = Bytes[d]
<1>1. Bytes[d] = chunks[i][Len(chunks[i]) - (d - base[i])]
  BY DEF ContentFacts
<1>2. Bytes'[d] = chunks'[i][Len(chunks'[i]) - (d - base'[i])]
  <2>1. base'[i] <= d /\ d < base'[i] + Len(chunks'[i])
    OBVIOUS
  <2>2. QED
    BY <2>1 DEF ContentFacts
<1>3. QED
  BY <1>1, <1>2

(* The contents before and after a step that drops cnt bytes.              *)
LEMMA Dropped ==
  ASSUME ContentFacts, ContentFacts', NEW cnt \in 0 .. Length,
         Length' = Length - cnt,
         \A d \in 0 .. Length' - 1 : Bytes'[d] = Bytes[d]
  PROVE  Content' = SubSeq(Content, cnt + 1, Len(Content))
<1>1. /\ Length \in Nat /\ cnt \in Nat /\ cnt <= Length /\ Length' = Length - cnt
      /\ Content \in Seq(Byte) /\ Len(Content) = Length
      /\ \A k \in 1 .. Length : Content[k] = Bytes[Length - k]
      /\ Content' \in Seq(Byte) /\ Len(Content') = Length'
      /\ \A k \in 1 .. Length' : Content'[k] = Bytes'[Length' - k]
  <2>1. /\ Length \in Nat
        /\ Content \in Seq(Byte) /\ Len(Content) = Length
        /\ \A k \in 1 .. Length : Content[k] = Bytes[Length - k]
    BY DEF ContentFacts
  <2>2. /\ Content' \in Seq(Byte) /\ Len(Content') = Length'
        /\ \A k \in 1 .. Length' : Content'[k] = Bytes'[Length' - k]
    BY DEF ContentFacts
  <2>3. cnt \in Nat /\ cnt <= Length
    BY <2>1
  <2>4. QED
    BY <2>1, <2>2, <2>3
<1> DEFINE old == Content
           rest == SubSeq(old, cnt + 1, Len(old))
<1>2. old \in Seq(Byte) /\ Len(old) = Length /\ \A k \in 1 .. Length : old[k] = Bytes[Length - k]
  BY <1>1
<1> HIDE DEF old
<1>3. /\ rest \in Seq(Byte) /\ Len(rest) = Length - cnt
      /\ \A k \in 1 .. Length - cnt : rest[k] = old[cnt + k]
  <2>1. /\ cnt + 1 \in Int /\ Len(old) \in Int
        /\ Len(old) - (cnt + 1) + 1 = Length - cnt
        /\ \A k \in 1 .. Length - cnt : (cnt + 1) + k - 1 = cnt + k
        /\ ~(cnt + 1 <= Len(old)) => Length - cnt = 0
    BY <1>1, <1>2
  <2>2. \A i \in cnt + 1 .. Len(old) : old[i] \in Byte
    <3>1. \A i \in 1 .. Len(old) : old[i] \in Byte
      BY <1>2, ElementOfSeq
    <3>2. \A i \in cnt + 1 .. Len(old) : i \in 1 .. Len(old)
      BY <1>1
    <3>3. QED
      BY <3>1, <3>2
  <2> DEFINE m == cnt + 1
             l == Len(old)
  <2>3. m \in Int /\ l \in Int /\ \A i \in m .. l : old[i] \in Byte
    BY <2>1, <2>2
  <2>4. /\ SubSeq(old, m, l) \in Seq(Byte)
        /\ Len(SubSeq(old, m, l)) = IF m <= l THEN l - m + 1 ELSE 0
        /\ \A k \in 1 .. l - m + 1 : SubSeq(old, m, l)[k] = old[m + k - 1]
    <3> HIDE DEF m, l
    <3> QED
      BY <2>3, SubSeqProperties
  <2>5. Len(SubSeq(old, m, l)) = Length - cnt
    BY <2>1, <2>4
  <2>6. \A k \in 1 .. Length - cnt : SubSeq(old, m, l)[k] = old[cnt + k]
    BY <2>1, <2>4
  <2>7. QED
    BY <2>4, <2>5, <2>6
<1> HIDE DEF rest
<1>4. ASSUME NEW k \in 1 .. Length'
      PROVE  Content'[k] = rest[k]
  <2>1. /\ k \in 1 .. Length - cnt /\ cnt + k \in 1 .. Length
        /\ Length' - k = Length - (cnt + k) /\ Length' - k \in 0 .. Length' - 1
    BY <1>1
  <2>2. Content'[k] = Bytes[Length' - k]
    BY <1>1, <2>1
  <2>3. QED
    BY <1>2, <1>3, <2>1, <2>2
<1>5. Content' = rest
  BY <1>1, <1>3, <1>4, SeqEqual
<1>6. QED
  BY <1>5 DEF rest, old

(* Reading past the front drops from the content what was read.            *)
LEMMA AdvanceDrops ==
  ASSUME IInv, IInv', NEW cnt \in 1 .. Length, Advance(cnt)
  PROVE  Content' = SubSeq(Content, cnt + 1, Len(Content))
<1>1. ContentFacts
  BY ContentIs
<1>2. ContentFacts'
  BY ContentIs, PTL
<1>3. /\ chunks' = chunks /\ base' = base /\ capacity' = capacity
      /\ front' = front + cnt
  BY DEF Advance
<1>4. /\ Length = capacity - front /\ Length \in Nat /\ front \in Nat /\ capacity \in Nat
      /\ Length' = capacity' - front' /\ Count' = Count
  BY <1>1, <1>2, <1>3 DEF ContentFacts, Count
<1>5. Length' = Length - cnt /\ cnt \in 0 .. Length
  BY <1>3, <1>4
<1>6. ASSUME NEW d \in 0 .. Length' - 1
      PROVE  Bytes'[d] = Bytes[d]
  <2>1. d \in 0 .. capacity - 1 /\ d \in 0 .. capacity' - 1
    BY <1>3, <1>4, <1>5
  <2>2. PICK i \in 1 .. Count : base[i] <= d /\ d < base[i] + Len(chunks[i])
    BY <1>1, <2>1 DEF ContentFacts
  <2>3. QED
    BY <1>1, <1>2, <1>3, <1>4, <2>1, <2>2, SameByte
<1>7. QED
  BY <1>1, <1>2, <1>5, <1>6, Dropped

(* Dropping a spent chunk drops nothing of the content.                    *)
LEMMA PopIsInvisible ==
  ASSUME IInv, IInv', PopChunk
  PROVE  Content' = Content
<1>1. ContentFacts
  BY ContentIs
<1>2. ContentFacts'
  BY ContentIs, PTL
<1> DEFINE n == Count - 1
           s == Size(Count)
<1>3. /\ chunks # <<>> /\ front >= s
      /\ chunks' = SubSeq(chunks, 1, n) /\ base' = SubSeq(base, 1, n)
      /\ capacity' = capacity - s /\ front' = front - s
  BY DEF PopChunk, Spent, FrontChunk, Size
<1>4. /\ Count \in Nat \ {0} /\ n \in Nat
      /\ Count \in 1 .. Count
      /\ base \in Seq(Nat) /\ Len(base) = Count /\ base # <<>>
      /\ chunks \in Seq(Seq(Cell))
  <2>1. TypeOK
    BY DEF IInv
  <2>2. base \in Seq(Nat) /\ Len(base) = Count /\ chunks \in Seq(Seq(Cell))
    BY <2>1 DEF TypeOK, Count
  <2>3. Count \in Nat \ {0}
    BY <1>3, <2>1, Shape
  <2>4. base # <<>>
    BY <2>2, <2>3, EmptySeq
  <2>5. QED
    BY <2>2, <2>3, <2>4
<1>5. s \in Nat /\ base[Count] \in Nat
  BY <1>4, Shape DEF IInv
<1>6. /\ Count' = n
      /\ \A i \in 1 .. n : chunks'[i] = chunks[i]
  BY <1>3, <1>4, DropLast DEF Count
<1>7. \A i \in 1 .. n : base'[i] = base[i]
  BY <1>3, <1>4, DropLast
<1>8. capacity = base[Count] + s
  BY <1>3, <1>4 DEF IInv, CapacityAccounting
<1>9. /\ Length = capacity - front /\ Length \in Nat /\ front \in Nat /\ capacity \in Nat
      /\ Length' = capacity' - front'
  BY <1>1, <1>2 DEF ContentFacts
<1> HIDE DEF s
<1>10. Length' = Length
  BY <1>3, <1>5, <1>9
<1>11. ASSUME NEW d \in 0 .. Length' - 1
       PROVE  Bytes'[d] = Bytes[d]
  <2>1. d \in 0 .. capacity - 1 /\ d \in 0 .. capacity' - 1 /\ d < base[Count] /\ d \in Nat
    <3>1. /\ capacity' = base[Count] /\ front' \in Nat /\ Length' = base[Count] - front'
          /\ base[Count] <= capacity
      BY <1>3, <1>5, <1>8, <1>9, SMTT(30)
    <3>2. QED
      BY <1>5, <1>9, <3>1
  <2>2. PICK i \in 1 .. Count : base[i] <= d /\ d < base[i] + Len(chunks[i])
    BY <1>1, <2>1 DEF ContentFacts
  <2>3. i # Count
    BY <1>5, <2>1, <2>2
  <2>4. i \in 1 .. n
    BY <1>4, <2>3
  <2>5. QED
    BY <1>1, <1>2, <1>6, <1>7, <2>1, <2>2, <2>4, SameByte
<1>12. \A k \in 1 .. Length' : Content'[k] = Content[k]
  <2>1. \A k \in 1 .. Length' : Length' - k \in 0 .. Length' - 1 /\ k \in 1 .. Length
    BY <1>9, <1>10
  <2>2. /\ \A k \in 1 .. Length : Content[k] = Bytes[Length - k]
        /\ \A k \in 1 .. Length' : Content'[k] = Bytes'[Length' - k]
    BY <1>1, <1>2 DEF ContentFacts
  <2>3. QED
    BY <1>10, <1>11, <2>1, <2>2
<1>13. QED
  BY <1>1, <1>2, <1>10, <1>12, SeqEqual DEF ContentFacts

(* A cleared buffer holds nothing, whether or not it keeps a chunk.        *)
LEMMA ClearEmpties ==
  ASSUME IInv, IInv', Clear
  PROVE  Content' = <<>>
<1>1. ContentFacts'
  BY ContentIs, PTL
<1>2. capacity' = front'
  BY DEF Clear
<1>3. /\ Content' \in Seq(Byte) /\ Len(Content') = Length'
      /\ Length' = capacity' - front' /\ capacity' \in Nat
  BY <1>1 DEF ContentFacts
<1>4. Len(Content') = 0
  <2>1. \A c, f \in Nat : c = f => c - f = 0
    OBVIOUS
  <2>2. front' \in Nat
    BY <1>2, <1>3
  <2>3. QED
    BY <1>2, <1>3, <2>1, <2>2
<1>5. QED
  BY <1>3, <1>4, EmptySeq

(* A new buffer holds what it was made from.                               *)
LEMMA InitContent ==
  ASSUME Init
  PROVE  Queue!Init
<1>1. ContentFacts
  BY InitKeeps, ContentIs
<1>2. /\ Content \in Seq(Byte) /\ Len(Content) = Length
      /\ Length = capacity - front /\ capacity \in Nat
  BY <1>1 DEF ContentFacts
<1>3. CASE capacity = front
  <2>1. Len(Content) = 0
    BY <1>2, <1>3
  <2>2. Content = <<>>
    BY <1>2, <2>1, EmptySeq
  <2>3. QED
    BY <2>2 DEF Queue!Init
<1>4. ASSUME NEW data \in Boxes, FromBox(data)
      PROVE  Queue!Init
  <2>1. /\ chunks = <<data>> /\ front = 0 /\ capacity = Len(data)
        /\ base = [i \in DOMAIN <<data>> |-> 0]
    BY <1>4 DEF FromBox, Made
  <2>2. data \in Seq(Byte) /\ Len(data) \in Nat
    BY BufferAssumption, LenProperties
  <2>3. /\ Count = 1 /\ chunks[1] = data /\ base[1] = 0 /\ Length = Len(data)
    BY <1>2, <2>1, <2>2 DEF Count
  <2>4. ASSUME NEW k \in 1 .. Len(data)
        PROVE  Content[k] = data[k]
    <3> DEFINE d == Len(data) - k
    <3>1. d \in 0 .. capacity - 1 /\ 0 <= d /\ d < 0 + Len(data) /\ Len(data) - (d - 0) = k
      BY <2>1, <2>2
    <3>2. Content[k] = Bytes[d]
      BY <1>1, <2>3 DEF ContentFacts
    <3> HIDE DEF d
    <3>3. Bytes[d] = data[Len(data) - (d - 0)]
      <4>1. 1 \in 1 .. Count /\ base[1] <= d /\ d < base[1] + Len(chunks[1])
        BY <2>3, <3>1
      <4>2. Bytes[d] = chunks[1][Len(chunks[1]) - (d - base[1])]
        BY <1>1, <3>1, <4>1 DEF ContentFacts
      <4>3. QED
        BY <2>3, <4>2
    <3>4. QED
      BY <3>1, <3>2, <3>3
  <2>5. Content = data
    BY <1>2, <2>2, <2>3, <2>4, SeqEqual
  <2>6. QED
    BY <2>5 DEF Queue!Init
<1>5. CASE New
  BY <1>3, <1>5 DEF New, Made
<1>6. ASSUME NEW size \in Capacities, WithCapacity(size)
      PROVE  Queue!Init
  BY <1>3, <1>5, <1>6 DEF WithCapacity, Made
<1>7. QED
  BY <1>4, <1>5, <1>6 DEF Init

(* Every step of the buffer is one of the queue, or leaves it alone.       *)
LEMMA NextContent ==
  ASSUME IInv, IInv', [Next]_vars
  PROVE  [Queue!Next]_Content
<1>1. \A data \in Writes : data \in Seq(Byte) /\ Len(data) > 0
  <2>1. \A data \in Writes : data \in Seq(Byte) /\ data # <<>>
    BY BufferAssumption
  <2>2. QED
    BY <2>1, EmptySeq
<1>2. ASSUME NEW data \in Writes, Prepend(data) \/ PrependSlice(data)
      PROVE  Content' = data \o Content
  <2>1. ~popping
    BY <1>2 DEF Prepend, PrependSlice
  <2>2. CASE PlaceInFront(data)
    BY <1>1, <2>1, <2>2, PlacePrepends
  <2>3. CASE GrowAndCopyBuf(data) \/ GrowAndCopySlice(data)
    BY <1>1, <2>1, <2>3, GrowBufGrows, GrowSliceGrows, GrownPrepends
  <2>4. QED
    BY <1>2, <2>2, <2>3 DEF Prepend, PrependSlice
<1>3. ASSUME NEW b \in Byte, PrependU8(b)
      PROVE  Content' = <<b>> \o Content
  <2> DEFINE data == <<b>>
  <2>1. data \in Seq(Byte) /\ Len(data) > 0
    OBVIOUS
  <2>2. ~popping
    BY <1>3 DEF PrependU8
  <2>3. CASE PlaceInFront(<<b>>)
    <3>1. PlaceInFront(data)
      BY <2>3
    <3> HIDE DEF data
    <3>2. Content' = data \o Content
      BY <2>1, <2>2, <3>1, PlacePrepends
    <3>3. QED
      BY <3>2 DEF data
  <2>4. CASE ~PlaceInFront(<<b>>)
    <3>1. PICK cs, new, size, early : Grows(data, cs, new, size, early)
      BY <1>3, <2>4, PrependU8Grows
    <3> HIDE DEF data
    <3>2. Content' = data \o Content
      BY <2>1, <2>2, <3>1, GrownPrepends
    <3>3. QED
      BY <3>2 DEF data
  <2>5. QED
    BY <2>3, <2>4
<1>4. ASSUME NEW cnt \in 1 .. Length, Advance(cnt)
      PROVE  /\ cnt \in 1 .. Len(Content)
             /\ Content' = SubSeq(Content, cnt + 1, Len(Content))
  <2>1. Len(Content) = Length
    BY ContentIs DEF ContentFacts
  <2>2. QED
    BY <1>4, <2>1, AdvanceDrops
<1>5. ASSUME UNCHANGED <<chunks, front, capacity, base>>
      PROVE  Content' = Content
  BY <1>5 DEF Content, ByteBefore, Home, Size, Count, Length
<1>6. CASE UNCHANGED vars
  BY <1>5, <1>6 DEF vars
<1>7. CASE Next
  <2>1. CASE \/ \E n \in Reservations : PlanReservation(n)
             \/ \E n \in Reservations : PlanReservationExact(n)
             \/ AdvanceDone
    BY <1>5, <2>1 DEF PlanReservation, PlanReservationExact, AdvanceDone
  <2>2. CASE \E data \in Writes : Prepend(data) \/ PrependSlice(data)
    BY <1>2, <2>2 DEF Queue!Next, Queue!Prepend
  <2>3. CASE \E b \in Byte : PrependU8(b)
    BY <1>3, <2>3 DEF Queue!Next, Queue!Prepend
  <2>4. CASE \E cnt \in 1 .. Length : Advance(cnt)
    BY <1>4, <2>4 DEF Queue!Next, Queue!Advance
  <2>5. CASE PopChunk
    BY <2>5, PopIsInvisible
  <2>6. CASE Clear
    BY <2>6, ClearEmpties DEF Queue!Next, Queue!Clear
  <2>7. QED
    BY <1>7, <2>1, <2>2, <2>3, <2>4, <2>5, <2>6 DEF Next
<1>8. QED
  BY <1>6, <1>7

(* A buffer is a queue of bytes: however the bytes are split over chunks,  *)
(* planned for, allocated and dropped, what is read is what was prepended, *)
(* in order, less what was read or cleared.                                *)
THEOREM BufferIsPrependQueue == Spec => ImplementsPrependQueue
<1>1. Init => Queue!Init
  BY InitContent
<1>2. IInv /\ IInv' /\ [Next]_vars => [Queue!Next]_Content
  BY NextContent
<1>3. QED
  BY <1>1, <1>2, BufferInvariant, PTL DEF Spec, Queue!Spec, ImplementsPrependQueue

-----------------------------------------------------------------------------
(* The chunk that a buffer keeps.                                          *)

BackFits == chunks # <<>> => 1 \in 1 .. Count /\ Len(chunks[1]) <= capacity

(* The last chunk is one of those that make up the capacity.               *)
LEMMA BackWithinCapacity == IInv => BackFits
<1> SUFFICES ASSUME IInv, chunks # <<>>
             PROVE  1 \in 1 .. Count /\ Len(chunks[1]) <= capacity
  BY DEF BackFits
<1>1. 1 \in 1 .. Count /\ Size(1) \in Nat /\ capacity \in Nat /\ base[1] = 0
  BY Shape DEF IInv, TypeOK, CapacityAccounting
<1>2. base[1] + Size(1) <= capacity
  BY <1>1, WithinCapacity
<1>3. QED
  BY <1>1, <1>2 DEF Size

(* While the flag keep_back is set nothing takes the last chunk or shrinks *)
(* it.                                                                     *)
LEMMA NextKeepsBack ==
  ASSUME IInv, IInv', keep_back, Next
  PROVE  /\ keep_back' /\ chunks' # <<>>
         /\ Len(chunks'[1]) = Size(1) /\ capacity' >= Size(1)
<1>1. chunks # <<>> /\ 1 \in 1 .. Count /\ Size(1) \in Nat /\ Count \in Nat
  BY Shape, BackWithinCapacity DEF IInv, KeptBack, BackFits
<1>2. (chunks' # <<>> => Len(chunks'[1]) <= capacity') /\ capacity' \in Nat
  <2>1. BackFits'
    BY BackWithinCapacity, PTL
  <2>2. QED
    BY <2>1 DEF BackFits, IInv, TypeOK
<1>3. (keep_back => chunks # <<>>)'
  BY DEF IInv, KeptBack
<1>4. ASSUME NEW data \in Seq(Byte), NEW cs, NEW new, NEW size, NEW early, ~popping,
             Grows(data, cs, new, size, early)
      PROVE  keep_back' /\ Len(chunks'[1]) = Size(1)
  <2>1. chunks'[1] = cs[1] /\ Len(cs[1]) = Len(chunks[1])
    BY <1>1, <1>4, GrownShape
  <2>2. keep_back' = keep_back
    BY <1>4 DEF Grows, Grown
  <2>3. QED
    BY <2>1, <2>2 DEF Size
<1>5. ASSUME NEW data \in Seq(Byte), Len(data) > 0, PlaceInFront(data), ~popping
      PROVE  keep_back' /\ Len(chunks'[1]) = Size(1)
  <2> DEFINE at == front - Len(data)
             w == WrittenInFront(at, data)
  <2>1. /\ keep_back' = keep_back /\ chunks' = w
        /\ at \in Nat /\ at + Len(data) = front /\ front \in Nat
    BY <1>5, LenProperties DEF PlaceInFront, IInv, TypeOK
  <2>2. Count > 0 => front <= Size(Count)
    BY <1>1, <1>5, <2>1, Shape DEF IInv, FrontValid, FrontChunk, Size
  <2> HIDE DEF at
  <2>3. \A i \in 1 .. Count : Len(w[i]) = Size(i)
    <3>1. TypeOK /\ (Count > 0 => at + Len(data) <= Size(Count))
      BY <2>1, <2>2 DEF IInv
    <3>2. QED
      BY <2>1, <3>1, WrittenProperties
  <2>4. QED
    BY <1>1, <2>1, <2>3
<1>6. \A data \in Writes : data \in Seq(Byte) /\ Len(data) > 0
  <2>1. \A data \in Writes : data \in Seq(Byte) /\ data # <<>>
    BY BufferAssumption
  <2>2. QED
    BY <2>1, EmptySeq
<1>7. ASSUME NEW data \in Writes, Prepend(data) \/ PrependSlice(data)
      PROVE  keep_back' /\ Len(chunks'[1]) = Size(1)
  BY <1>4, <1>5, <1>6, <1>7, GrowBufGrows, GrowSliceGrows DEF Prepend, PrependSlice
<1>8. ASSUME NEW b \in Byte, PrependU8(b)
      PROVE  keep_back' /\ Len(chunks'[1]) = Size(1)
  <2> DEFINE data == <<b>>
  <2>1. data \in Seq(Byte) /\ Len(data) > 0
    OBVIOUS
  <2>2. ~popping
    BY <1>8 DEF PrependU8
  <2>3. PlaceInFront(data) \/ \E cs, new, size, early : Grows(data, cs, new, size, early)
    BY <1>8, PrependU8Grows
  <2> HIDE DEF data
  <2>4. QED
    BY <1>4, <1>5, <2>1, <2>2, <2>3
<1>9. ASSUME PopChunk
      PROVE  keep_back' /\ Len(chunks'[1]) = Size(1)
  <2>1. keep_back' = keep_back /\ chunks' = SubSeq(chunks, 1, Count - 1) /\ Count # 1
    BY <1>9 DEF PopChunk, Spent
  <2>2. 1 \in 1 .. Count - 1
    BY <1>1, <2>1
  <2>3. chunks'[1] = chunks[1]
    BY <1>1, <2>1, <2>2, DropLast DEF IInv, TypeOK, Count
  <2>4. QED
    BY <2>1, <2>3 DEF Size
<1>10. ASSUME Clear
       PROVE  keep_back' /\ Len(chunks'[1]) = Size(1)
  BY <1>10 DEF Clear, Size
<1>11. ASSUME \/ \E n \in Reservations : PlanReservation(n)
              \/ \E n \in Reservations : PlanReservationExact(n)
              \/ \E cnt \in 1 .. Length : Advance(cnt)
              \/ AdvanceDone
       PROVE  keep_back' /\ Len(chunks'[1]) = Size(1)
  BY <1>11 DEF PlanReservation, PlanReservationExact, Advance, AdvanceDone, Size
<1>12. keep_back' /\ Len(chunks'[1]) = Size(1)
  BY <1>7, <1>8, <1>9, <1>10, <1>11 DEF Next
<1>13. chunks' # <<>>
  BY <1>3, <1>12
<1>14. capacity' >= Size(1)
  BY <1>1, <1>2, <1>12, <1>13
<1>15. QED
  BY <1>12, <1>13, <1>14

(* The first chunk of a buffer made by with_capacity is never dropped, nor *)
(* replaced by one of another size.                                        *)
THEOREM BufferKeepsBackChunk == Spec => KeepsBackChunk
<1>1. IInv /\ IInv' /\ [Next]_vars =>
        [keep_back => /\ keep_back' /\ chunks' # <<>>
                      /\ Len(chunks'[1]) = Size(1)
                      /\ capacity' >= Size(1)]_vars
  <2> SUFFICES ASSUME IInv, IInv', Next, keep_back
               PROVE  /\ keep_back' /\ chunks' # <<>>
                      /\ Len(chunks'[1]) = Size(1)
                      /\ capacity' >= Size(1)
    OBVIOUS
  <2>1. QED
    BY NextKeepsBack
<1>2. QED
  BY <1>1, BufferInvariant, PTL DEF Spec, KeepsBackChunk

-----------------------------------------------------------------------------
(* The reader.  It stands as many bytes into the content as it has passed: *)
(* the bytes from its front on, in the chunks it covers, are the others.   *)

ReaderShape ==
  /\ reading \in BOOLEAN /\ r_popping \in BOOLEAN
  /\ covered \in Nat /\ r_front \in Nat /\ r_capacity \in Nat
  /\ wanted \in Nat /\ passed \in Nat /\ copied \in Seq(Byte)
  /\ ~reading => ReaderIdle
  /\ reading => ~popping

ReaderStands ==
  reading =>
    /\ covered <= Count
    /\ covered = 0 => r_capacity = 0
    /\ covered > 0 => r_capacity = base[covered] + Len(chunks[covered])
    /\ r_front <= r_capacity
    /\ Length = passed + (r_capacity - r_front)
    /\ ~r_popping /\ covered > 0 => r_front <= Len(chunks[covered])

ReaderCopied ==
  /\ Len(copied) <= passed
  /\ \A k \in 1 .. Len(copied) : copied[k] = Content[(passed - Len(copied)) + k]

RInv == IInv /\ ReaderShape /\ ReaderStands /\ ReaderCopied

(* The smaller of two sizes.                                               *)
LEMMA MinOfTwo ==
  ASSUME NEW a \in Nat, NEW b \in Nat
  PROVE  /\ Min({a, b}) \in Nat /\ Min({a, b}) <= a /\ Min({a, b}) <= b
<1>1. \E x \in {a, b} : \A y \in {a, b} : x <= y
  <2>1. CASE a <= b
    BY <2>1
  <2>2. CASE b <= a
    BY <2>2
  <2>3. QED
    BY <2>1, <2>2
<1>2. Min({a, b}) \in {a, b} /\ \A y \in {a, b} : Min({a, b}) <= y
  BY <1>1 DEF Min
<1>3. QED
  BY <1>2

(* A part of a sequence of bytes.                                          *)
LEMMA PartOf ==
  ASSUME NEW S, NEW s \in Seq(S), NEW m \in 1 .. Len(s) + 1, NEW n \in 0 .. Len(s), m <= n + 1
  PROVE  /\ SubSeq(s, m, n) \in Seq(S)
         /\ Len(SubSeq(s, m, n)) = n - m + 1
         /\ \A k \in 1 .. n - m + 1 : SubSeq(s, m, n)[k] = s[m + k - 1]
<1>1. Len(s) \in Nat /\ m \in Int /\ n \in Int
  BY LenProperties
<1>2. \A i \in m .. n : s[i] \in S
  <2>1. \A i \in m .. n : i \in 1 .. Len(s)
    BY <1>1
  <2>2. QED
    BY <2>1, ElementOfSeq
<1>3. /\ SubSeq(s, m, n) \in Seq(S)
      /\ Len(SubSeq(s, m, n)) = IF m <= n THEN n - m + 1 ELSE 0
      /\ \A k \in 1 .. n - m + 1 : SubSeq(s, m, n)[k] = s[m + k - 1]
  BY <1>1, <1>2, SubSeqProperties
<1>4. ~(m <= n) => n - m + 1 = 0
  BY <1>1
<1>5. QED
  BY <1>3, <1>4

(* The bytes behind the reader's front, in the last chunk it covers and in *)
(* the ones below.                                                         *)
LEMMA ReaderSees ==
  ASSUME RInv, reading
  PROVE  /\ Len(Content) = Length /\ Content \in Seq(Byte)
         /\ Length \in Nat /\ passed \in Nat /\ Remaining \in Nat
         /\ Remaining = r_capacity - r_front
         /\ Length = passed + Remaining
         /\ \A i \in 1 .. covered : \A k \in 1 .. Len(chunks[i]) :
              LET at == Remaining - base[i] - Len(chunks[i]) + k
              IN at \in 1 .. Remaining => Content[passed + at] = chunks[i][k]
<1>1. /\ Len(Content) = Length /\ Content \in Seq(Byte)
      /\ Length \in Nat /\ capacity \in Nat /\ front \in Nat /\ Length = capacity - front
      /\ \A k \in 1 .. Length : Content[k] = Bytes[Length - k]
      /\ \A i \in 1 .. Count : \A d \in 0 .. capacity - 1 :
           base[i] <= d /\ d < base[i] + Len(chunks[i]) =>
             Bytes[d] = chunks[i][Len(chunks[i]) - (d - base[i])]
  BY ContentIs DEF RInv, ContentFacts
<1>2. /\ passed \in Nat /\ r_capacity \in Nat /\ r_front \in Nat /\ r_front <= r_capacity
      /\ covered \in Nat /\ covered <= Count /\ Count \in Nat
      /\ Length = passed + (r_capacity - r_front)
  BY Shape DEF RInv, IInv, ReaderShape, ReaderStands
<1>3. Remaining = r_capacity - r_front /\ Remaining \in Nat /\ Length = passed + Remaining
  BY <1>2 DEF Remaining
<1>4. ASSUME NEW i \in 1 .. covered, NEW k \in 1 .. Len(chunks[i]), NEW at,
             at = Remaining - base[i] - Len(chunks[i]) + k, at \in 1 .. Remaining
      PROVE  Content[passed + at] = chunks[i][k]
  <2> DEFINE n == Len(chunks[i])
             d == Remaining - at
  <2>1. i \in 1 .. Count
    BY <1>2
  <2>2. n \in Nat /\ base[i] \in Nat
    BY <2>1, Shape DEF RInv, IInv, Size
  <2>3. k \in 1 .. n /\ at = Remaining - base[i] - n + k /\ at \in Nat
    BY <1>4
  <2> HIDE DEF n
  <2>4. base[i] <= d /\ d < base[i] + n /\ n - (d - base[i]) = k
    BY <1>3, <2>2, <2>3, SMTT(30)
  <2>5. /\ passed + at \in 1 .. Length /\ Length - (passed + at) = d
        /\ d \in 0 .. capacity - 1
    <3>1. /\ Remaining \in Nat /\ at \in 1 .. Remaining /\ passed \in Nat
          /\ Length = passed + Remaining
          /\ capacity \in Nat /\ front \in Nat
      BY <1>1, <1>2, <1>3, <1>4
    <3>2. passed + Remaining = capacity - front
      BY <1>1, <3>1
    <3>3. QED
      BY <3>1, <3>2
  <2> HIDE DEF d
  <2>6. Bytes[d] = chunks[i][n - (d - base[i])]
    BY <1>1, <2>1, <2>4, <2>5 DEF n
  <2>7. QED
    BY <1>1, <2>4, <2>5, <2>6
<1>5. QED
  BY <1>1, <1>2, <1>3, <1>4

(* What is left of the chunk the reader is in is what comes next in the    *)
(* content.                                                                *)
LEMMA ChunkIsNext ==
  ASSUME RInv, reading, ~r_popping, covered > 0
  PROVE  /\ Chunk \in Seq(Cell)
         /\ Len(Chunk) = Len(chunks[covered]) - r_front
         /\ Len(Chunk) <= Remaining
         /\ Len(Chunk) = Remaining - base[covered]
         /\ \A k \in 1 .. Len(Chunk) : Content[passed + k] = Chunk[k] /\ Chunk[k] \in Byte
<1> DEFINE c == chunks[covered]
           n == Len(c)
<1>1. /\ covered \in 1 .. Count /\ covered \in 1 .. covered /\ r_front \in Nat /\ r_front <= n
      /\ r_capacity = base[covered] + n
  BY Shape DEF RInv, IInv, ReaderShape, ReaderStands
<1>2. c \in Seq(Cell) /\ n \in Nat /\ base[covered] \in Nat
  BY <1>1, Shape DEF RInv, IInv, Size
<1>3. Chunk = SubSeq(c, r_front + 1, n)
  BY <1>1, <1>2 DEF Chunk, From
<1>4. r_front + 1 \in 1 .. n + 1 /\ n \in 0 .. n /\ n - (r_front + 1) + 1 = n - r_front
  BY <1>1, <1>2
<1>5. /\ Chunk \in Seq(Cell) /\ Len(Chunk) = n - r_front
      /\ \A k \in 1 .. n - r_front : Chunk[k] = c[r_front + k]
  <2> DEFINE m == r_front + 1
  <2>1. m \in 1 .. Len(c) + 1 /\ Len(c) \in 0 .. Len(c) /\ m <= Len(c) + 1
    BY <1>4
  <2>2. /\ SubSeq(c, m, Len(c)) \in Seq(Cell)
        /\ Len(SubSeq(c, m, Len(c))) = Len(c) - m + 1
        /\ \A k \in 1 .. Len(c) - m + 1 : SubSeq(c, m, Len(c))[k] = c[m + k - 1]
    <3> HIDE DEF m, c
    <3>1. QED
      BY <1>2, <2>1, PartOf
  <2>3. \A k \in 1 .. n - r_front : m + k - 1 = r_front + k
    BY <1>1, <1>2
  <2>4. QED
    BY <1>3, <1>4, <2>2, <2>3
<1>6. /\ Len(Content) = Length /\ Content \in Seq(Byte)
      /\ Length \in Nat /\ passed \in Nat /\ Remaining \in Nat
      /\ Remaining = r_capacity - r_front
      /\ Length = passed + Remaining
      /\ \A i \in 1 .. covered : \A k \in 1 .. Len(chunks[i]) :
           LET at == Remaining - base[i] - Len(chunks[i]) + k
           IN at \in 1 .. Remaining => Content[passed + at] = chunks[i][k]
  BY ReaderSees
<1> HIDE DEF n
<1>7. Len(Chunk) = Remaining - base[covered] /\ Len(Chunk) <= Remaining
  <2>1. Len(Chunk) = n - r_front /\ Remaining = r_capacity - r_front
    BY <1>5, <1>6
  <2>2. QED
    BY <1>1, <1>2, <2>1
<1>8. ASSUME NEW k \in 1 .. Len(Chunk)
      PROVE  Content[passed + k] = Chunk[k] /\ Chunk[k] \in Byte
  <2> DEFINE j == r_front + k
             at == Remaining - base[covered] - n + j
  <2>1. j \in 1 .. n /\ at = k /\ k \in 1 .. Remaining /\ k \in 1 .. n - r_front
    <3>1. /\ r_front \in Nat /\ n \in Nat /\ r_front <= n /\ base[covered] \in Nat
          /\ r_capacity = base[covered] + n
      BY <1>1, <1>2
    <3>2. Remaining = r_capacity - r_front
      BY <1>6
    <3>3. k \in 1 .. n - r_front
      BY <1>5
    <3>4. QED
      BY <3>1, <3>2, <3>3
  <2>2. Chunk[k] = c[j]
    BY <1>5, <2>1
  <2> HIDE DEF j
  <2>3. at \in 1 .. Remaining => Content[passed + at] = c[j]
    BY <1>1, <1>6, <2>1 DEF n
  <2> HIDE DEF at
  <2>4. Content[passed + k] = c[j]
    BY <2>1, <2>3
  <2>5. passed + k \in 1 .. Len(Content)
    BY <1>6, <2>1
  <2>6. Content[passed + k] \in Byte
    BY <1>6, <2>5, ElementOfSeq
  <2>7. QED
    BY <2>2, <2>4, <2>6
<1>9. QED
  BY <1>5, <1>7, <1>8 DEF n

(* What a reader's step leaves alone: it borrows the buffer.               *)
LEMMA BufferRests ==
  ASSUME RInv, UNCHANGED vars
  PROVE  /\ IInv' /\ Content' = Content /\ Length' = Length /\ Count' = Count
         /\ chunks' = chunks /\ base' = base /\ popping' = popping
<1>1. IInv'
  BY NextKeeps DEF RInv
<1>2. QED
  BY <1>1 DEF Content, ByteBefore, Home, Size, Count, Length, vars

(* Advancing, by what the caller asks or by the slice that was copied.     *)
LEMMA AdvanceByStands ==
  ASSUME RInv, reading, UNCHANGED vars, reading' = reading,
         NEW cnt \in 1 .. Remaining, AdvanceBy(cnt)
  PROVE  /\ ReaderStands'
         /\ passed' = passed + cnt /\ passed' \in Nat /\ r_popping' = TRUE
         /\ covered' = covered /\ r_capacity' = r_capacity /\ r_front' \in Nat
<1>1. /\ r_front' = r_front + cnt /\ r_popping' = TRUE /\ passed' = passed + cnt
      /\ covered' = covered /\ r_capacity' = r_capacity
  BY DEF AdvanceBy
<1>2. /\ covered <= Count
      /\ covered = 0 => r_capacity = 0
      /\ covered > 0 => r_capacity = base[covered] + Len(chunks[covered])
      /\ r_front <= r_capacity
      /\ Length = passed + (r_capacity - r_front)
      /\ r_front \in Nat /\ r_capacity \in Nat /\ passed \in Nat /\ covered \in Nat
  BY DEF RInv, ReaderStands, ReaderShape
<1>3. Length' = Length /\ Count' = Count /\ chunks' = chunks /\ base' = base
  BY BufferRests
<1>4. cnt \in Nat /\ cnt <= r_capacity - r_front
  BY <1>2 DEF Remaining
<1>5. /\ r_front' \in Nat /\ r_front' <= r_capacity /\ passed' \in Nat
      /\ Length = passed' + (r_capacity - r_front')
  BY <1>1, <1>2, <1>4
<1>6. ReaderStands'
  BY <1>1, <1>2, <1>3, <1>5 DEF ReaderStands
<1>7. QED
  BY <1>1, <1>5, <1>6

(* A turn of copy_buf: a slice is copied and the reader advanced over it.  *)
LEMMA CopySliceKeeps ==
  ASSUME RInv, CopySlice
  PROVE  RInv'
<1> DEFINE size == Min({Len(Chunk), wanted})
           part == SubSeq(Chunk, 1, size)
<1>1. /\ wanted > 0 /\ ~r_popping /\ size > 0
      /\ copied' = copied \o part /\ wanted' = wanted - size
      /\ AdvanceBy(size) /\ UNCHANGED vars /\ reading' = reading
  BY DEF CopySlice
<1>2. reading /\ wanted \in Nat /\ copied \in Seq(Byte) /\ covered \in Nat /\ ~popping
  BY <1>1 DEF RInv, ReaderShape, ReaderIdle
<1>3. covered > 0
  <2>1. SUFFICES ASSUME covered = 0 PROVE FALSE
    BY <1>2
  <2>2. Len(Chunk) = 0
    BY <2>1 DEF Chunk
  <2>3. size <= Len(Chunk)
    BY <1>2, <2>2, MinOfTwo
  <2>4. size \in Nat
    BY <1>2, <2>2, MinOfTwo
  <2> HIDE DEF size
  <2>5. QED
    BY <1>1, <2>2, <2>3, <2>4
<1>4. /\ Chunk \in Seq(Cell)
      /\ Len(Chunk) <= Remaining
      /\ \A k \in 1 .. Len(Chunk) : Content[passed + k] = Chunk[k] /\ Chunk[k] \in Byte
  BY <1>1, <1>2, <1>3, ChunkIsNext
<1>5. Len(Chunk) \in Nat
  BY <1>4, LenProperties
<1>6. size \in Nat /\ size <= Len(Chunk) /\ size <= wanted
  BY <1>2, <1>5, MinOfTwo
<1> HIDE DEF size
<1>7. Remaining \in Nat /\ passed \in Nat /\ Len(copied) \in Nat
  BY <1>2, ReaderSees, LenProperties
<1>8. size \in 1 .. Remaining
  BY <1>1, <1>4, <1>5, <1>6, <1>7
<1>9. /\ ReaderStands'
      /\ passed' = passed + size /\ passed' \in Nat /\ r_popping' = TRUE
      /\ covered' = covered /\ r_capacity' = r_capacity /\ r_front' \in Nat
  BY <1>1, <1>2, <1>8, AdvanceByStands
<1>10. part \in Seq(Byte) /\ Len(part) = size /\ \A k \in 1 .. size : part[k] = Chunk[k]
  <2>1. /\ 1 \in 1 .. Len(Chunk) + 1 /\ size \in 0 .. Len(Chunk) /\ 1 <= size + 1
        /\ size - 1 + 1 = size /\ \A k \in 1 .. size : 1 + k - 1 = k
    BY <1>5, <1>6
  <2>2. /\ part \in Seq(Cell) /\ Len(part) = size - 1 + 1
        /\ \A k \in 1 .. size - 1 + 1 : part[k] = Chunk[1 + k - 1]
    BY <1>4, <2>1, PartOf
  <2>3. Len(part) = size /\ \A k \in 1 .. size : part[k] = Chunk[k]
    BY <2>1, <2>2
  <2>4. \A k \in 1 .. size : k \in 1 .. Len(Chunk)
    BY <1>5, <1>6
  <2>5. \A k \in 1 .. Len(part) : part[k] \in Byte
    BY <1>4, <2>3, <2>4
  <2> HIDE DEF part
  <2>6. part \in [1 .. Len(part) -> Byte]
    BY <2>2, <2>5, LenProperties
  <2>7. part \in Seq(Byte)
    BY <1>6, <2>3, <2>6, FunctionIsSeq
  <2>8. QED
    BY <2>3, <2>7
<1> HIDE DEF part
<1>11. /\ copied' \in Seq(Byte) /\ Len(copied') = Len(copied) + size
       /\ \A k \in 1 .. Len(copied) + size :
            copied'[k] = IF k <= Len(copied) THEN copied[k] ELSE part[k - Len(copied)]
  <2>1. /\ copied \o part \in Seq(Byte) /\ Len(copied \o part) = Len(copied) + Len(part)
        /\ \A k \in 1 .. Len(copied) + Len(part) :
             (copied \o part)[k] =
               IF k <= Len(copied) THEN copied[k] ELSE part[k - Len(copied)]
    BY <1>2, <1>10, ConcatProperties
  <2>2. QED
    BY <1>1, <1>10, <2>1
<1>12. IInv' /\ Content' = Content /\ popping' = popping
  BY <1>1, BufferRests
<1>13. ReaderShape'
  <2>1. wanted' \in Nat
    BY <1>1, <1>2, <1>6
  <2>2. r_capacity' \in Nat
    BY <1>9 DEF RInv, ReaderShape
  <2>3. QED
    BY <1>1, <1>2, <1>9, <1>11, <1>12, <2>1, <2>2 DEF ReaderShape
<1>14. ReaderCopied'
  <2> DEFINE n == Len(copied)
  <2>1. /\ n <= passed
        /\ \A k \in 1 .. n : copied[k] = Content[(passed - n) + k]
    BY DEF RInv, ReaderCopied
  <2>2. Len(copied') = n + size /\ n \in Nat
    BY <1>7, <1>11
  <2>3. Len(copied') <= passed' /\ passed' - Len(copied') = passed - n
    <3> HIDE DEF n
    <3>1. QED
      BY <1>6, <1>7, <1>9, <2>1, <2>2
  <2>4. ASSUME NEW k \in 1 .. n + size
        PROVE  copied'[k] = Content[(passed - n) + k]
    <3>1. copied'[k] = IF k <= n THEN copied[k] ELSE part[k - n]
      BY <1>11
    <3> HIDE DEF n
    <3>2. CASE k <= n
      <4>1. k \in 1 .. n
        BY <2>2, <3>2
      <4>2. QED
        BY <2>1, <3>1, <3>2, <4>1
    <3>3. CASE ~(k <= n)
      <4>1. /\ k - n \in 1 .. size /\ k - n \in 1 .. Len(Chunk)
            /\ passed + (k - n) = (passed - n) + k
        BY <1>5, <1>6, <1>7, <2>2, <3>3
      <4>2. part[k - n] = Chunk[k - n]
        BY <1>10, <4>1
      <4>3. Content[passed + (k - n)] = Chunk[k - n]
        BY <1>4, <4>1
      <4>4. QED
        BY <3>1, <3>3, <4>1, <4>2, <4>3
    <3>4. QED
      BY <3>2, <3>3
  <2>5. \A k \in 1 .. Len(copied') :
          copied'[k] = Content'[(passed' - Len(copied')) + k]
    BY <1>12, <2>2, <2>3, <2>4
  <2>6. QED
    BY <2>3, <2>5 DEF ReaderCopied
<1>15. QED
  BY <1>9, <1>12, <1>13, <1>14 DEF RInv

(* With nothing copied there is nothing to say of it.                      *)
LEMMA NothingCopied ==
  ASSUME copied' = <<>>, passed' \in Nat
  PROVE  ReaderCopied' /\ copied' \in Seq(Byte)
<1>1. Len(copied') = 0 /\ copied' \in Seq(Byte)
  BY EmptySeq
<1>2. QED
  BY <1>1 DEF ReaderCopied

(* What was copied stays the part of the content before the reader.        *)
LEMMA SameCopied ==
  ASSUME RInv, copied' = copied, passed' = passed, Content' = Content
  PROVE  ReaderCopied'
BY DEF RInv, ReaderCopied

(* A new reader sees the whole buffer.                                     *)
LEMMA BufReaderKeeps ==
  ASSUME RInv, BufReader
  PROVE  RInv'
<1>1. /\ ~reading /\ ~popping /\ reading' = TRUE
      /\ covered' = Count /\ r_front' = front /\ r_capacity' = capacity
      /\ UNCHANGED vars /\ r_popping' = r_popping /\ wanted' = wanted
      /\ copied' = copied /\ passed' = passed
  BY DEF BufReader, copy
<1>2. ReaderIdle
  BY <1>1 DEF RInv, ReaderShape
<1>3. /\ IInv' /\ Content' = Content /\ Length' = Length /\ Count' = Count
      /\ chunks' = chunks /\ base' = base /\ popping' = popping
  BY <1>1, BufferRests
<1>4. /\ front \in Nat /\ capacity \in Nat /\ Count \in Nat /\ front <= capacity
      /\ Length = capacity - front
      /\ chunks = <<>> <=> Count = 0
      /\ \A i \in 1 .. Count : base[i] \in Nat /\ Len(chunks[i]) \in Nat
  BY Shape DEF RInv, IInv, TypeOK, CapacityAccounting, Length, Size
<1>5. ReaderShape'
  BY <1>1, <1>2, <1>3, <1>4 DEF RInv, ReaderShape, ReaderIdle
<1>6. ReaderStands'
  <2>1. Count = 0 => capacity = 0
    BY <1>4 DEF RInv, IInv, CapacityAccounting
  <2>2. Count > 0 => /\ capacity = base[Count] + Len(chunks[Count])
                     /\ front <= Len(chunks[Count])
    BY <1>1, <1>4 DEF RInv, IInv, CapacityAccounting, FrontValid, FrontChunk, Size
  <2>3. Length = 0 + (capacity - front) /\ passed = 0
    BY <1>2, <1>4 DEF ReaderIdle
  <2>4. QED
    BY <1>1, <1>3, <1>4, <2>1, <2>2, <2>3 DEF ReaderStands
<1>7. ReaderCopied'
  BY <1>1, <1>3, SameCopied
<1>8. QED
  BY <1>3, <1>5, <1>6, <1>7 DEF RInv

(* advance of a reader begins.                                             *)
LEMMA ReaderAdvanceKeeps ==
  ASSUME RInv, NEW cnt \in 1 .. Remaining, ReaderAdvance(cnt)
  PROVE  RInv'
<1>1. /\ reading /\ wanted = 0 /\ AdvanceBy(cnt) /\ copied' = <<>>
      /\ UNCHANGED vars /\ reading' = reading /\ wanted' = wanted
  BY DEF ReaderAdvance
<1>2. /\ ReaderStands'
      /\ passed' \in Nat /\ r_popping' = TRUE
      /\ covered' = covered /\ r_capacity' = r_capacity /\ r_front' \in Nat
  BY <1>1, AdvanceByStands
<1>3. IInv' /\ popping' = popping
  BY <1>1, BufferRests
<1>4. ReaderCopied' /\ copied' \in Seq(Byte)
  BY <1>1, <1>2, NothingCopied
<1>5. ReaderShape'
  BY <1>1, <1>2, <1>3, <1>4 DEF RInv, ReaderShape
<1>6. QED
  BY <1>2, <1>3, <1>4, <1>5 DEF RInv

(* A turn of the loop of advance: a chunk that was passed leaves the slice *)
(* of chunks.                                                              *)
LEMMA SnipChunkKeeps ==
  ASSUME RInv, SnipChunk
  PROVE  RInv'
<1>1. /\ r_popping /\ covered > 0 /\ r_front >= Size(covered)
      /\ covered' = covered - 1 /\ r_front' = r_front - Size(covered)
      /\ r_capacity' = r_capacity - Size(covered)
      /\ UNCHANGED vars /\ reading' = reading /\ r_popping' = r_popping
      /\ wanted' = wanted /\ copied' = copied /\ passed' = passed
  BY DEF SnipChunk, ReaderSpent, copy
<1>2. /\ reading /\ covered \in Nat /\ r_front \in Nat /\ r_capacity \in Nat
      /\ passed \in Nat
  BY <1>1 DEF RInv, ReaderShape, ReaderIdle
<1>3. /\ covered <= Count /\ Count \in Nat
      /\ r_capacity = base[covered] + Len(chunks[covered])
      /\ r_front <= r_capacity
      /\ Length = passed + (r_capacity - r_front)
  BY <1>1, <1>2, Shape DEF RInv, IInv, ReaderStands
<1>4. /\ IInv' /\ Content' = Content /\ Length' = Length /\ Count' = Count
      /\ chunks' = chunks /\ base' = base /\ popping' = popping
  BY <1>1, BufferRests
<1> DEFINE n == Len(chunks[covered])
           c == covered - 1
<1>5. n \in Nat /\ base[covered] \in Nat /\ n = Size(covered)
  BY <1>1, <1>2, <1>3, Shape DEF RInv, IInv, Size
<1>6. c \in Nat /\ c <= Count /\ covered = c + 1
  BY <1>1, <1>2, <1>3
<1>7. /\ c = 0 => base[covered] = 0
      /\ c > 0 => base[covered] = base[c] + Len(chunks[c])
  <2>1. CASE c = 0
    <3>1. covered = 1 /\ chunks # <<>>
      BY <1>3, <1>6, <2>1, Shape DEF RInv, IInv
    <3>2. QED
      BY <2>1, <3>1 DEF RInv, IInv, CapacityAccounting
  <2>2. CASE c > 0
    <3>1. c \in 1 .. Count - 1
      BY <1>2, <1>3, <1>6, <2>2
    <3>2. base[c + 1] = base[c] + Size(c)
      BY <3>1 DEF RInv, IInv, CapacityAccounting
    <3>3. QED
      BY <1>6, <2>2, <3>2 DEF Size
  <2>3. QED
    BY <1>6, <2>1, <2>2
<1> HIDE DEF n
<1>8. /\ r_capacity' = base[covered] /\ r_front' \in Nat /\ r_front' <= r_capacity'
      /\ r_capacity' - r_front' = r_capacity - r_front
  <2>1. /\ r_capacity' = r_capacity - n /\ r_front' = r_front - n /\ r_front >= n
        /\ r_capacity = base[covered] + n
    BY <1>1, <1>3, <1>5 DEF n
  <2>2. /\ r_front \in Nat /\ r_capacity \in Nat /\ n \in Nat /\ base[covered] \in Nat
        /\ r_front <= r_capacity
    BY <1>2, <1>3, <1>5
  <2>3. r_capacity' = base[covered]
    BY <2>1, <2>2
  <2>4. r_front' \in Nat /\ r_front - n <= r_capacity - n
    BY <2>1, <2>2
  <2>5. (r_capacity - n) - (r_front - n) = r_capacity - r_front
    BY <2>2
  <2>6. QED
    BY <2>1, <2>3, <2>4, <2>5
<1>9. ReaderStands'
  <2>1. covered' = c
    BY <1>1
  <2> HIDE DEF c
  <2>2. QED
    BY <1>1, <1>3, <1>4, <1>6, <1>7, <1>8, <2>1 DEF ReaderStands
<1>10. ReaderShape'
  <2>1. covered' \in Nat /\ r_capacity' \in Nat
    BY <1>1, <1>5, <1>6, <1>8
  <2>2. QED
    BY <1>1, <1>2, <1>4, <1>8, <2>1 DEF RInv, ReaderShape
<1>11. ReaderCopied'
  BY <1>1, <1>4, SameCopied
<1>12. QED
  BY <1>4, <1>9, <1>10, <1>11 DEF RInv

(* The loop of advance ends inside a chunk, or with none left.             *)
LEMMA ReaderAdvanceDoneKeeps ==
  ASSUME RInv, ReaderAdvanceDone
  PROVE  RInv'
<1>1. /\ r_popping /\ ~ReaderSpent /\ r_popping' = FALSE
      /\ UNCHANGED vars /\ reading' = reading /\ covered' = covered
      /\ r_front' = r_front /\ r_capacity' = r_capacity
      /\ wanted' = wanted /\ copied' = copied /\ passed' = passed
  BY DEF ReaderAdvanceDone, copy
<1>2. reading /\ covered \in Nat /\ r_front \in Nat
  BY <1>1 DEF RInv, ReaderShape, ReaderIdle
<1>3. /\ IInv' /\ Content' = Content /\ Length' = Length /\ Count' = Count
      /\ chunks' = chunks /\ base' = base /\ popping' = popping
  BY <1>1, BufferRests
<1>4. covered > 0 => r_front <= Len(chunks[covered])
  <2>1. covered > 0 => Size(covered) \in Nat
    BY <1>2, Shape DEF RInv, IInv, ReaderStands
  <2>2. QED
    BY <1>1, <1>2, <2>1 DEF ReaderSpent, Size
<1>5. ReaderStands'
  BY <1>1, <1>3, <1>4 DEF RInv, ReaderStands
<1>6. ReaderShape'
  BY <1>1, <1>2, <1>3 DEF RInv, ReaderShape
<1>7. ReaderCopied'
  BY <1>1, <1>3, SameCopied
<1>8. QED
  BY <1>3, <1>5, <1>6, <1>7 DEF RInv

(* copy_buf begins.                                                        *)
LEMMA CopyBufKeeps ==
  ASSUME RInv, NEW len \in 1 .. Remaining, CopyBuf(len)
  PROVE  RInv'
<1>1. /\ reading /\ wanted' = len /\ copied' = <<>>
      /\ UNCHANGED vars /\ reading' = reading /\ covered' = covered
      /\ r_front' = r_front /\ r_capacity' = r_capacity /\ r_popping' = r_popping
      /\ passed' = passed
  BY DEF CopyBuf, reader
<1>2. /\ IInv' /\ Length' = Length /\ Count' = Count
      /\ chunks' = chunks /\ base' = base /\ popping' = popping
  BY <1>1, BufferRests
<1>3. wanted' \in Nat /\ passed' \in Nat
  BY <1>1 DEF RInv, ReaderShape
<1>4. ReaderCopied' /\ copied' \in Seq(Byte)
  BY <1>1, <1>3, NothingCopied
<1>5. ReaderStands'
  BY <1>1, <1>2 DEF RInv, ReaderStands
<1>6. ReaderShape'
  BY <1>1, <1>2, <1>3, <1>4 DEF RInv, ReaderShape
<1>7. QED
  BY <1>2, <1>4, <1>5, <1>6 DEF RInv

(* No reader, before, after or at all.                                     *)
LEMMA IdleKeeps ==
  ASSUME IInv', reading' = FALSE, ReaderIdle'
  PROVE  RInv'
<1>1. copied' = <<>> /\ passed' \in Nat
  BY DEF ReaderIdle
<1>2. ReaderCopied' /\ copied' \in Seq(Byte)
  BY <1>1, NothingCopied
<1>3. ReaderShape'
  BY <1>2 DEF ReaderShape, ReaderIdle
<1>4. QED
  BY <1>2, <1>3 DEF RInv, ReaderStands

(* Every step keeps the invariant of the reader.                           *)
LEMMA ReaderNextKeeps ==
  ASSUME RInv, [ReaderNext]_all_vars
  PROVE  RInv'
<1>1. CASE ~reading /\ Next /\ UNCHANGED r_vars
  <2>1. IInv'
    BY <1>1, NextKeeps DEF RInv
  <2>2. reading' = FALSE /\ ReaderIdle'
    BY <1>1 DEF RInv, ReaderShape, ReaderIdle, r_vars, reader, copy
  <2>3. QED
    BY <2>1, <2>2, IdleKeeps
<1>2. CASE DropReader
  <2>1. UNCHANGED vars /\ reading' = FALSE /\ ReaderIdle'
    BY <1>2 DEF DropReader, ReaderIdle
  <2>2. IInv'
    BY <2>1, BufferRests
  <2>3. QED
    BY <2>1, <2>2, IdleKeeps
<1>3. CASE UNCHANGED all_vars
  <2>1. UNCHANGED vars /\ UNCHANGED r_vars
    BY <1>3 DEF all_vars
  <2>2. /\ IInv' /\ Content' = Content /\ Length' = Length /\ Count' = Count
        /\ chunks' = chunks /\ base' = base /\ popping' = popping
    BY <2>1, BufferRests
  <2>3. ReaderShape' /\ ReaderStands' /\ ReaderCopied'
    BY <2>1, <2>2
       DEF RInv, ReaderShape, ReaderStands, ReaderCopied, ReaderIdle, r_vars, reader, copy
  <2>4. QED
    BY <2>2, <2>3 DEF RInv
<1>4. QED
  BY <1>1, <1>2, <1>3, BufReaderKeeps, ReaderAdvanceKeeps, SnipChunkKeeps,
     ReaderAdvanceDoneKeeps, CopyBufKeeps, CopySliceKeeps DEF ReaderNext

(* A reader stands in the content where its caller has read to, whatever   *)
(* chunks the bytes lie in, and what copy_buf copied is what it has passed.*)
THEOREM ReaderInvariant == ReaderSpec => []RInv
<1>1. ReaderInit => RInv
  <2> SUFFICES ASSUME ReaderInit PROVE RInv
    OBVIOUS
  <2>1. IInv /\ reading = FALSE /\ ReaderIdle
    BY InitKeeps DEF ReaderInit, ReaderIdle
  <2>2. copied = <<>> /\ Len(copied) = 0 /\ copied \in Seq(Byte) /\ passed = 0
    BY <2>1, EmptySeq DEF ReaderIdle
  <2>3. ReaderShape
    <3>1. /\ reading \in BOOLEAN /\ r_popping \in BOOLEAN
          /\ covered \in Nat /\ r_front \in Nat /\ r_capacity \in Nat
          /\ wanted \in Nat /\ passed \in Nat
      BY <2>1 DEF ReaderIdle
    <3>2. QED
      BY <2>1, <2>2, <3>1 DEF ReaderShape
  <2>4. ReaderStands
    BY <2>1 DEF ReaderStands
  <2>5. ReaderCopied
    BY <2>2 DEF ReaderCopied
  <2>6. QED
    BY <2>1, <2>3, <2>4, <2>5 DEF RInv
<1>2. RInv /\ [ReaderNext]_all_vars => RInv'
  BY ReaderNextKeeps
<1>3. QED
  BY <1>1, <1>2, PTL DEF ReaderSpec

(* What is left to read.                                                   *)
LEMMA RestIs ==
  ASSUME RInv, reading
  PROVE  /\ Rest \in Seq(Byte) /\ Len(Rest) = Remaining
         /\ \A k \in 1 .. Remaining : Rest[k] = Content[passed + k]
<1>1. /\ Len(Content) = Length /\ Content \in Seq(Byte)
      /\ Length \in Nat /\ passed \in Nat /\ Remaining \in Nat
      /\ Length = passed + Remaining
  BY ReaderSees
<1> DEFINE c == Content
           m == passed + 1
<1>2. /\ c \in Seq(Byte) /\ Len(c) = Length
      /\ m \in 1 .. Len(c) + 1 /\ Length \in 0 .. Len(c) /\ m <= Length + 1
      /\ Length - m + 1 = Remaining
      /\ \A k \in 1 .. Remaining : m + k - 1 = passed + k
  BY <1>1
<1> HIDE DEF c, m
<1>3. /\ SubSeq(c, m, Length) \in Seq(Byte)
      /\ Len(SubSeq(c, m, Length)) = Length - m + 1
      /\ \A k \in 1 .. Length - m + 1 : SubSeq(c, m, Length)[k] = c[m + k - 1]
  BY <1>2, PartOf
<1>4. Rest = SubSeq(c, m, Length)
  BY DEF Rest, c, m
<1>5. QED
  BY <1>2, <1>3, <1>4 DEF c

(* What was copied is the stretch of the content before the reader.        *)
LEMMA CopiedIsContent ==
  ASSUME RInv, copied # <<>>
  PROVE  copied = SubSeq(Content, passed - Len(copied) + 1, passed)
<1> DEFINE n == Len(copied)
           c == Content
           m == passed - n + 1
<1>1. /\ reading /\ copied \in Seq(Byte) /\ passed \in Nat /\ n \in Nat /\ n <= passed
      /\ \A k \in 1 .. n : copied[k] = Content[(passed - n) + k]
  BY LenProperties DEF RInv, ReaderShape, ReaderCopied, ReaderIdle
<1>2. /\ c \in Seq(Byte) /\ Len(c) \in Nat /\ passed <= Len(c)
  <2>1. /\ Content \in Seq(Byte) /\ Len(Content) = Length /\ Remaining \in Nat
        /\ Length = passed + Remaining
    BY <1>1, ReaderSees
  <2>2. QED
    BY <1>1, <2>1
<1> HIDE DEF n, c
<1>3. /\ m \in 1 .. Len(c) + 1 /\ passed \in 0 .. Len(c) /\ m <= passed + 1
      /\ passed - m + 1 = n
      /\ \A k \in 1 .. n : m + k - 1 = (passed - n) + k
  BY <1>1, <1>2
<1> HIDE DEF m
<1>4. /\ SubSeq(c, m, passed) \in Seq(Byte)
      /\ Len(SubSeq(c, m, passed)) = passed - m + 1
      /\ \A k \in 1 .. passed - m + 1 : SubSeq(c, m, passed)[k] = c[m + k - 1]
  BY <1>2, <1>3, PartOf
<1>5. Len(SubSeq(c, m, passed)) = Len(copied)
  BY <1>3, <1>4 DEF n
<1>6. \A k \in 1 .. Len(copied) : SubSeq(c, m, passed)[k] = copied[k]
  BY <1>1, <1>3, <1>4 DEF n, c
<1>7. copied = SubSeq(c, m, passed)
  BY <1>1, <1>4, <1>5, <1>6, SeqEqual
<1>8. QED
  BY <1>7 DEF c, m, n

(* The slices, from the chunk the reader is in down to the first.          *)
LEMMA SlicesAre ==
  ASSUME RInv, reading, ~r_popping, covered > 0
  PROVE  /\ Slices \in Seq(Seq(Cell)) /\ Len(Slices) = covered
         /\ Slices[1] = Chunk
         /\ \A j \in 1 .. covered - 1 : Slices[covered - j + 1] = chunks[j]
<1> DEFINE m == covered - 1
           below == SubSeq(chunks, 1, m)
<1>1. /\ covered \in Nat /\ covered <= Count /\ Count \in Nat /\ m \in Nat
      /\ chunks \in Seq(Seq(Cell)) /\ Len(chunks) = Count
  BY Shape DEF RInv, IInv, TypeOK, ReaderShape, ReaderStands, Count
<1>2. /\ below \in Seq(Seq(Cell)) /\ Len(below) = m
      /\ \A k \in 1 .. m : below[k] = chunks[k]
  <2>1. /\ 1 \in 1 .. Len(chunks) + 1 /\ m \in 0 .. Len(chunks) /\ 1 <= m + 1
        /\ m - 1 + 1 = m /\ \A k \in 1 .. m : 1 + k - 1 = k
    BY <1>1
  <2>2. /\ below \in Seq(Seq(Cell)) /\ Len(below) = m - 1 + 1
        /\ \A k \in 1 .. m - 1 + 1 : below[k] = chunks[1 + k - 1]
    <3> HIDE DEF m
    <3>1. QED
      BY <1>1, <2>1, PartOf
  <2>3. QED
    BY <2>1, <2>2
<1> HIDE DEF below
<1> DEFINE r == Reverse(below)
<1>3. r = [i \in 1 .. m |-> below[(m - i) + 1]]
  BY <1>2 DEF Reverse
<1> HIDE DEF r
<1>4. /\ r \in Seq(Seq(Cell)) /\ Len(r) = m
      /\ \A i \in 1 .. m : r[i] = chunks[(m - i) + 1]
  <2>1. \A i \in 1 .. m : (m - i) + 1 \in 1 .. m
    BY <1>1
  <2>2. \A i \in 1 .. m : below[i] \in Seq(Cell)
    BY <1>2, ElementOfSeq
  <2> HIDE DEF m
  <2>3. \A i \in 1 .. m : r[i] = chunks[(m - i) + 1]
    BY <1>2, <1>3, <2>1
  <2>4. r \in [1 .. m -> Seq(Cell)]
    BY <1>3, <2>1, <2>2
  <2>5. r \in Seq(Seq(Cell)) /\ Len(r) = m
    BY <1>1, <2>4, FunctionIsSeq
  <2>6. QED
    BY <2>3, <2>5
<1> DEFINE c == Chunk
           s == <<c>> \o r
<1>5. Slices = s
  BY <1>1 DEF Slices, r, below
<1>6. c \in Seq(Cell) /\ <<c>> \in Seq(Seq(Cell)) /\ Len(<<c>>) = 1 /\ <<c>>[1] = c
  <2>1. c \in Seq(Cell)
    BY ChunkIsNext
  <2> HIDE DEF c
  <2>2. QED
    BY <2>1
<1> HIDE DEF c
<1>7. /\ s \in Seq(Seq(Cell)) /\ Len(s) = 1 + m
      /\ \A i \in 1 .. 1 + m : s[i] = IF i <= 1 THEN c ELSE r[i - 1]
  <2> DEFINE one == <<c>>
  <2>1. one \in Seq(Seq(Cell)) /\ Len(one) = 1 /\ one[1] = c
    BY <1>6
  <2> HIDE DEF one
  <2>2. /\ one \o r \in Seq(Seq(Cell)) /\ Len(one \o r) = Len(one) + Len(r)
        /\ \A i \in 1 .. Len(one) + Len(r) :
             (one \o r)[i] = IF i <= Len(one) THEN one[i] ELSE r[i - Len(one)]
    <3>1. r \in Seq(Seq(Cell))
      BY <1>4
    <3>2. QED
      BY <2>1, <3>1, ConcatProperties
  <2>3. one \o r = s
    BY DEF one
  <2> HIDE DEF s, m
  <2>4. Len(s) = 1 + m /\ s \in Seq(Seq(Cell))
    BY <1>4, <2>1, <2>2, <2>3
  <2>5. \A i \in 1 .. 1 + m : s[i] = IF i <= 1 THEN one[i] ELSE r[i - 1]
    BY <1>4, <2>1, <2>2, <2>3
  <2>6. \A i \in 1 .. 1 + m : i <= 1 => i = 1
    BY <1>1
  <2>7. QED
    BY <2>1, <2>4, <2>5, <2>6
<1> HIDE DEF s
<1>8. s[1] = c
  BY <1>1, <1>7
<1>9. ASSUME NEW j \in 1 .. covered - 1
      PROVE  s[covered - j + 1] = chunks[j]
  <2>1. /\ covered - j + 1 \in 1 .. 1 + m /\ ~(covered - j + 1 <= 1)
        /\ covered - j \in 1 .. m /\ (covered - j + 1) - 1 = covered - j
        /\ (m - (covered - j)) + 1 = j
    BY <1>1
  <2>2. s[covered - j + 1] = r[covered - j]
    BY <1>7, <2>1
  <2>3. r[covered - j] = chunks[(m - (covered - j)) + 1]
    BY <1>4, <2>1
  <2>4. QED
    BY <2>1, <2>2, <2>3
<1>10. 1 + m = covered
  BY <1>1
<1>11. QED
  BY <1>5, <1>7, <1>8, <1>9, <1>10 DEF c

(* One after the other they spell the rest of the content.                 *)
LEMMA SlicesSpell ==
  ASSUME RInv, reading, ~r_popping
  PROVE  FlattenSeq(Slices) = Rest /\ (Contiguous => Chunk = Rest)
<1>1. /\ Rest \in Seq(Byte) /\ Len(Rest) = Remaining
      /\ \A k \in 1 .. Remaining : Rest[k] = Content[passed + k]
      /\ Remaining \in Nat /\ Remaining = r_capacity - r_front /\ passed \in Nat
      /\ \A i \in 1 .. covered : \A k \in 1 .. Len(chunks[i]) :
           LET at == Remaining - base[i] - Len(chunks[i]) + k
           IN at \in 1 .. Remaining => Content[passed + at] = chunks[i][k]
  BY RestIs, ReaderSees
<1>2. covered \in Nat /\ covered <= Count /\ r_capacity \in Nat /\ r_front \in Nat
  BY DEF RInv, ReaderShape, ReaderStands
<1>3. CASE covered = 0
  <2>1. Remaining = 0
    BY <1>1, <1>2, <1>3 DEF RInv, ReaderStands
  <2>2. Rest = <<>>
    BY <1>1, <2>1, EmptySeq
  <2>3. Chunk = <<>> /\ Slices = <<>>
    BY <1>3 DEF Chunk, Slices
  <2>4. FlattenSeq(<<>>) = <<>>
    BY DEF FlattenSeq
  <2>5. QED
    BY <2>2, <2>3, <2>4
<1>4. CASE covered > 0
  <2>1. /\ Chunk \in Seq(Cell) /\ Len(Chunk) = Remaining - base[covered]
        /\ \A k \in 1 .. Len(Chunk) : Content[passed + k] = Chunk[k]
    BY <1>4, ChunkIsNext
  <2>2. /\ Slices \in Seq(Seq(Cell)) /\ Len(Slices) = covered
        /\ Slices[1] = Chunk
        /\ \A j \in 1 .. covered - 1 : Slices[covered - j + 1] = chunks[j]
    BY <1>4, SlicesAre
  <2>3. PICK f \in [1 .. covered -> Seq(Cell)] :
          /\ f[1] = Slices[1]
          /\ \A i \in 1 .. covered - 1 : f[i + 1] = f[i] \o Slices[i + 1]
          /\ FlattenSeq(Slices) = f[covered]
    <3> DEFINE s == Slices
    <3>1. s \in Seq(Seq(Cell)) /\ Len(s) = covered /\ Len(s) > 0
      BY <1>4, <2>2
    <3> HIDE DEF s
    <3>2. \E f \in [1 .. Len(s) -> Seq(Cell)] :
            /\ f[1] = s[1]
            /\ \A i \in 1 .. Len(s) - 1 : f[i + 1] = f[i] \o s[i + 1]
            /\ FlattenSeq(s) = f[Len(s)]
      BY <3>1, FlattenDef
    <3>3. QED
      BY <3>1, <3>2 DEF s
  <2>4. /\ \A i \in 1 .. covered : /\ base[i] \in Nat /\ Len(chunks[i]) \in Nat
                                   /\ chunks[i] \in Seq(Cell)
        /\ base[1] = 0
        /\ \A i \in 1 .. covered - 1 : base[i + 1] = base[i] + Len(chunks[i])
    <3>1. Count \in Nat /\ \A i \in 1 .. covered : i \in 1 .. Count
      BY <1>2, Shape DEF RInv, IInv
    <3>2. \A i \in 1 .. covered - 1 : i \in 1 .. Count - 1
      BY <1>2, <3>1
    <3>3. chunks # <<>>
      BY <1>2, <1>4, Shape DEF RInv, IInv
    <3>4. QED
      BY <3>1, <3>2, <3>3, Shape DEF RInv, IInv, CapacityAccounting, Size
  <2> DEFINE Spells(s, n) == /\ Len(s) = n /\ n \in Nat
                             /\ \A k \in 1 .. n : s[k] = Content[passed + k]
             T == {i \in 1 .. covered : Spells(f[i], Remaining - base[covered - i + 1])}
  <2>5. 1 <= covered => 1 \in T
    <3>1. covered - 1 + 1 = covered /\ 1 \in 1 .. covered
      BY <1>2, <1>4
    <3>2. Len(Chunk) \in Nat
      BY <2>1, LenProperties
    <3>3. QED
      BY <2>1, <2>2, <2>3, <3>1, <3>2
  <2>6. ASSUME NEW i \in 1 .. covered - 1, i \in T
        PROVE  i + 1 \in T
    <3> DEFINE j == covered - i
               g == f[i]
               c == chunks[j]
               l == Len(g)
               n == Len(c)
               b == base[j]
    <3>1. /\ j \in 1 .. covered /\ j \in 1 .. covered - 1 /\ i \in 1 .. covered
          /\ i + 1 \in 1 .. covered
          /\ covered - j + 1 = i + 1 /\ covered - (i + 1) + 1 = j
          /\ covered - i + 1 = j + 1
      BY <1>2
    <3>2. n \in Nat /\ b \in Nat /\ c \in Seq(Cell) /\ base[j + 1] = b + n
      BY <2>4, <3>1
    <3>3. /\ g \in Seq(Cell) /\ l \in Nat /\ l = Remaining - base[j + 1]
          /\ \A k \in 1 .. l : g[k] = Content[passed + k]
      <4>1. g \in Seq(Cell)
        BY <2>3, <3>1
      <4>2. Spells(g, Remaining - base[j + 1])
        BY <2>6, <3>1
      <4>3. QED
        BY <4>1, <4>2
    <3>4. f[i + 1] = g \o c
      BY <2>2, <2>3, <3>1, ZenonT(60)
    <3>5. \A k \in 1 .. n :
            LET at == Remaining - b - n + k
            IN at \in 1 .. Remaining => Content[passed + at] = c[k]
      BY <1>1, <3>1
    <3> HIDE DEF g, c, j
    <3>6. /\ g \o c \in Seq(Cell) /\ Len(g \o c) = l + n
          /\ \A k \in 1 .. l + n : (g \o c)[k] = IF k <= l THEN g[k] ELSE c[k - l]
      BY <3>2, <3>3, ConcatProperties
    <3> HIDE DEF l, n, b
    <3>7. l = Remaining - b - n /\ l + n = Remaining - b
      BY <1>1, <3>2, <3>3
    <3>8. ASSUME NEW k \in 1 .. l + n
          PROVE  (g \o c)[k] = Content[passed + k]
      <4>1. CASE k <= l
        <5>1. k \in 1 .. l
          BY <3>2, <3>3, <4>1
        <5>2. QED
          BY <3>3, <3>6, <4>1, <5>1
      <4>2. CASE ~(k <= l)
        <5>1. k - l \in 1 .. n /\ l + (k - l) = k
          BY <3>2, <3>3, <4>2
        <5>2. k \in 1 .. Remaining
          BY <1>1, <3>2, <3>3, <3>7
        <5>3. Remaining - b - n + (k - l) = k
          BY <3>7, <5>1
        <5>4. Content[passed + k] = c[k - l]
          BY <3>5, <5>1, <5>2, <5>3
        <5>5. QED
          BY <3>6, <4>2, <5>4
      <4>3. QED
        BY <4>1, <4>2
    <3>9. Len(g \o c) = Remaining - b /\ Remaining - b \in Nat
      BY <3>2, <3>3, <3>6, <3>7
    <3>10. Spells(g \o c, Remaining - b)
      BY <3>7, <3>8, <3>9
    <3> HIDE DEF Spells
    <3>11. Spells(f[i + 1], Remaining - base[covered - (i + 1) + 1])
      BY <3>1, <3>4, <3>10 DEF b
    <3>12. QED
      BY <3>1, <3>11
  <2>7. 1 .. covered \subseteq T
    <3>1. 1 \in Int /\ covered \in Int
      BY <1>2
    <3> HIDE DEF T
    <3>2. QED
      BY <2>5, <2>6, <3>1, IntervalInduction
  <2>8. Len(f[covered]) = Remaining /\ \A k \in 1 .. Remaining : f[covered][k] = Content[passed + k]
    <3>1. covered \in 1 .. covered /\ covered - covered + 1 = 1
      BY <1>2, <1>4
    <3>2. Spells(f[covered], Remaining - base[1])
      BY <2>7, <3>1
    <3>3. Remaining - base[1] = Remaining
      BY <1>1, <2>4
    <3>4. QED
      BY <3>2, <3>3
  <2>9. FlattenSeq(Slices) = Rest
    <3>1. f[covered] \in Seq(Cell)
      BY <1>2, <1>4, <2>3
    <3> DEFINE whole == f[covered]
    <3>2. /\ whole \in Seq(Cell) /\ Len(whole) = Len(Rest)
          /\ \A k \in 1 .. Len(whole) : whole[k] = Rest[k]
      BY <1>1, <2>8, <3>1
    <3> HIDE DEF whole
    <3>3. whole = Rest
      BY <1>1, <3>2, SeqEqual
    <3>4. QED
      BY <2>3, <3>3 DEF whole
  <2>10. Contiguous => Chunk = Rest
    <3> SUFFICES ASSUME Contiguous PROVE Chunk = Rest
      OBVIOUS
    <3>1. covered = 1
      BY <1>2, <1>4 DEF Contiguous
    <3>2. Len(Chunk) = Remaining
      BY <1>1, <2>1, <2>4, <3>1
    <3>3. QED
      BY <1>1, <2>1, <3>2, SeqEqual
  <2>11. QED
    BY <2>9, <2>10
<1>5. QED
  BY <1>2, <1>3, <1>4

(* What copy_buf fills its destination with is what the buffer holds where *)
(* the reader stood, byte for byte, however the chunks divide it.          *)
THEOREM ReaderCopiesContent == ReaderSpec => []CopiesContent
<1>1. RInv => CopiesContent
  BY CopiedIsContent DEF CopiesContent
<1>2. QED
  BY <1>1, ReaderInvariant, PTL

(* The slices of a reader spell what is left to read, for any number of    *)
(* chunks.                                                                 *)
THEOREM ReaderSlicesSpellContent == ReaderSpec => []SlicesSpellContent
<1>1. RInv => SlicesSpellContent
  BY SlicesSpell DEF SlicesSpellContent
<1>2. QED
  BY <1>1, ReaderInvariant, PTL
=============================================================================
