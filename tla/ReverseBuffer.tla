--------------------------- MODULE ReverseBuffer ---------------------------
(***************************************************************************)
(* The prepend-only, chunked byte buffer of src/buf.rs, to which every     *)
(* message is encoded back to front.  A buffer owns a stack of chunks; the *)
(* last one is the front chunk, whose bytes from index front on are        *)
(* initialized.  Data that does not fit before front is split between the  *)
(* front chunk and a newly allocated one.                                  *)
(*                                                                         *)
(* Every operation has exclusive access to the buffer, so each is one      *)
(* step, except that the loop of advance that drops spent chunks is one    *)
(* step per chunk: the code says that it breaks the invariant of front     *)
(* while it runs.  Calls with nothing to do (no bytes, advance by zero)    *)
(* and calls that panic before they change anything (advance past the end) *)
(* are stuttering steps.                                                   *)
(***************************************************************************)
EXTENDS Integers, Sequences

CONSTANTS
  Byte,          (* the byte values that are told apart                    *)
  Uninit,        (* what an allocated byte holds before it is written      *)
  MinChunk,      (* MIN_CHUNK_SIZE                                         *)
  Writes,        (* the byte strings callers prepend                       *)
  Boxes,         (* the byte strings buffers are made from                 *)
  Capacities,    (* the arguments of with_capacity                         *)
  Reservations,  (* the arguments of plan_reservation and its exact form   *)
  MaxCapacity    (* bounds the model: no allocation goes beyond it         *)

ASSUME BufferAssumption ==
  /\ Uninit \notin Byte
  /\ MinChunk \in Nat \ {0}
  /\ Writes \subseteq Seq(Byte) \ {<<>>}
  /\ Boxes \subseteq Seq(Byte)
  /\ Capacities \subseteq Nat
  /\ Reservations \subseteq Nat
  /\ MaxCapacity \in Nat

VARIABLES
  chunks,              (* owned chunks, the back of the content first      *)
  front,               (* unused bytes at the start of the front chunk     *)
  capacity,            (* bytes allocated in all the chunks                *)
  planned_allocation,  (* size the next allocation should have             *)
  planned_exact,       (* ... exactly, or at least                         *)
  keep_back,           (* the first chunk is never dropped                 *)
  popping,             (* advance is running its loop                      *)
  base,                (* history: the capacity when each chunk was pushed *)
  promise              (* history: the capacity the next allocation owes   *)

plan == <<planned_allocation, planned_exact, promise>>
vars == <<chunks, front, capacity, plan, keep_back, popping, base>>

Cell == Byte \cup {Uninit}
Larger(a, b) == IF a >= b THEN a ELSE b

Count == Len(chunks)
FrontChunk == chunks[Count]
Length == capacity - front

-----------------------------------------------------------------------------
(* Constructors.                                                           *)

Made(cs, f, size, keep) ==
  /\ chunks = cs /\ front = f /\ capacity = size /\ keep_back = keep
  /\ planned_allocation = 0 /\ planned_exact = FALSE
  /\ popping = FALSE
  /\ base = [i \in DOMAIN cs |-> 0] /\ promise = 0

Blank(size) == [i \in 1 .. size |-> Uninit]

New == Made(<<>>, 0, 0, FALSE)

WithCapacity(size) ==
  IF size = 0 THEN New ELSE Made(<<Blank(size)>>, size, size, TRUE)

FromBox(data) == Made(<<data>>, 0, Len(data), FALSE)

Init ==
  \/ New
  \/ \E size \in Capacities : WithCapacity(size)
  \/ \E data \in Boxes : FromBox(data)

-----------------------------------------------------------------------------
(* Planning the size of the next allocation.                               *)

Unplan == planned_allocation' = 0 /\ planned_exact' = FALSE /\ promise' = 0

(* Mutant of Reserved: a smaller request replaces a larger plan.           *)
ReservedForgetsPlan(additional) ==
  IF front > additional
  THEN [size |-> planned_allocation, exact |-> planned_exact]
  ELSE [size |-> additional - front, exact |-> FALSE]

(* The plan plan_reservation leaves for that many more bytes.              *)
Reserved(additional) ==
  IF front > additional \/ planned_allocation > additional - front
  THEN [size |-> planned_allocation, exact |-> planned_exact]
  ELSE [size |-> additional - front, exact |-> FALSE]

AllocationSize(p) ==
  IF p.exact THEN p.size ELSE Larger(Larger(MinChunk, capacity), p.size)

PlanReservation(additional) ==
  /\ ~popping
  /\ planned_allocation' = Reserved(additional).size
  /\ planned_exact' = Reserved(additional).exact
  /\ promise' = Larger(promise, Length + additional)
  /\ UNCHANGED <<chunks, front, capacity, keep_back, popping, base>>

(* Mutant of PlanReservationExact: plans what is missing, not the total.   *)
PlanReservationMissing(additional) ==
  /\ ~popping
  /\ additional >= front
  /\ planned_allocation' = additional - front
  /\ planned_exact' = TRUE
  /\ promise' = Length + additional
  /\ UNCHANGED <<chunks, front, capacity, keep_back, popping, base>>

PlanReservationExact(additional) ==
  /\ ~popping
  /\ additional >= front
  /\ planned_allocation' = capacity + (additional - front)
  /\ planned_exact' = TRUE
  /\ promise' = Length + additional
  /\ UNCHANGED <<chunks, front, capacity, keep_back, popping, base>>

-----------------------------------------------------------------------------
(* Prepending.                                                             *)

(* A chunk with data written over its bytes from index at (from zero) on.  *)
Overwrite(chunk, at, data) ==
  [i \in 1 .. Len(chunk) |->
     IF i \in at + 1 .. at + Len(data) THEN data[i - at] ELSE chunk[i]]

(* The chunks with data written into the front one.                        *)
WrittenInFront(at, data) ==
  [i \in 1 .. Count |->
     IF i = Count THEN Overwrite(chunks[i], at, data) ELSE chunks[i]]

(* Mutant of PlaceInFront: takes the whole capacity for room in front.     *)
PlaceInCapacity(data) ==
  /\ Len(data) <= capacity
  /\ chunks' = WrittenInFront(front - Len(data), data)
  /\ front' = front - Len(data)
  /\ UNCHANGED <<capacity, plan, keep_back, popping, base>>

PlaceInFront(data) ==
  /\ Len(data) <= front
  /\ chunks' = WrittenInFront(front - Len(data), data)
  /\ front' = front - Len(data)
  /\ UNCHANGED <<capacity, plan, keep_back, popping, base>>

(* What pushing a chunk of that size changes beside the chunks.            *)
Grown(size, newFront) ==
  /\ capacity + size <= MaxCapacity
  /\ capacity' = capacity + size
  /\ base' = Append(base, capacity)
  /\ front' = newFront
  /\ Unplan
  /\ UNCHANGED <<keep_back, popping>>

(* Mutant of GrowAndCopyBuf: the late bytes go to the new chunk.           *)
GrowAndCopySwapped(data) ==
  LET size == AllocationSize(Reserved(Len(data)))
      newFront == size + front - Len(data)
  IN /\ Len(data) > front
     /\ chunks' = Append(WrittenInFront(0, SubSeq(data, 1, front)),
                         Overwrite(Blank(size), newFront,
                                   SubSeq(data, front + 1, Len(data))))
     /\ Grown(size, newFront)

GrowAndCopyBuf(data) ==
  LET size == AllocationSize(Reserved(Len(data)))
      newFront == size + front - Len(data)
      early == Len(data) - front   \* bytes that go to the new chunk
  IN /\ Len(data) > front
     /\ chunks' = Append(WrittenInFront(0, SubSeq(data, early + 1, Len(data))),
                         Overwrite(Blank(size), newFront, SubSeq(data, 1, early)))
     /\ Grown(size, newFront)

(* Mutant of GrowAndCopySlice: places the early part as if it were all.    *)
GrowAndCopyTooEarly(data) ==
  LET size == AllocationSize(Reserved(Len(data)))
      split == Len(data) - front
      newFront == size - Len(data)
  IN /\ Len(data) > front
     /\ size >= Len(data)
     /\ chunks' = Append(WrittenInFront(0, SubSeq(data, split + 1, Len(data))),
                         Overwrite(Blank(size), newFront, SubSeq(data, 1, split)))
     /\ Grown(size, newFront)

GrowAndCopySlice(data) ==
  LET size == AllocationSize(Reserved(Len(data)))
      newFront == front + size - Len(data)
      split == Len(data) - front
  IN /\ Len(data) > front
     /\ \/ /\ front = 0
           /\ chunks' = Append(chunks, Overwrite(Blank(size), newFront, data))
        \/ /\ front > 0
           /\ chunks' = Append(WrittenInFront(0, SubSeq(data, split + 1, Len(data))),
                               Overwrite(Blank(size), newFront, SubSeq(data, 1, split)))
     /\ Grown(size, newFront)

(* Prepending another Buf.                                                 *)
Prepend(data) ==
  /\ ~popping
  /\ PlaceInFront(data) \/ GrowAndCopyBuf(data)

(* Prepending a slice or an array.                                         *)
PrependSlice(data) ==
  /\ ~popping
  /\ PlaceInFront(data) \/ GrowAndCopySlice(data)

(* A single byte grows the buffer by whatever is planned, with no          *)
(* reservation of its own.  With an exact plan of zero bytes, which only a *)
(* buffer of no capacity can have, no call returns: a debug build asserts  *)
(* before anything is changed, a release build has nothing to write to.    *)
PrependU8(b) ==
  LET size == AllocationSize([size |-> planned_allocation, exact |-> planned_exact])
  IN /\ ~popping
     /\ \/ PlaceInFront(<<b>>)
        \/ /\ front = 0
           /\ size > 0
           /\ chunks' = Append(chunks, Overwrite(Blank(size), size - 1, <<b>>))
           /\ Grown(size, size - 1)

-----------------------------------------------------------------------------
(* Reading and dropping.                                                   *)

Advance(cnt) ==
  /\ ~popping
  /\ cnt \in 1 .. Length
  /\ front' = front + cnt
  /\ popping' = TRUE
  /\ UNCHANGED <<chunks, capacity, plan, keep_back, base>>

(* Mutant of Spent: a chunk read to its very end is not yet dropped.       *)
SpentLate ==
  /\ chunks # <<>>
  /\ front > Len(FrontChunk)
  /\ ~(keep_back /\ Count = 1)

(* The front chunk lies wholly before front, and may be dropped.           *)
Spent ==
  /\ chunks # <<>>
  /\ front >= Len(FrontChunk)
  /\ ~(keep_back /\ Count = 1)

(* Mutant of PopChunk: the dropped chunk stays in the capacity.            *)
PopChunkUncounted ==
  /\ popping
  /\ Spent
  /\ chunks' = SubSeq(chunks, 1, Count - 1)
  /\ base' = SubSeq(base, 1, Count - 1)
  /\ front' = front - Len(FrontChunk)
  /\ Unplan
  /\ UNCHANGED <<capacity, keep_back, popping>>

PopChunk ==
  /\ popping
  /\ Spent
  /\ chunks' = SubSeq(chunks, 1, Count - 1)
  /\ base' = SubSeq(base, 1, Count - 1)
  /\ capacity' = capacity - Len(FrontChunk)
  /\ front' = front - Len(FrontChunk)
  /\ Unplan
  /\ UNCHANGED <<keep_back, popping>>

(* Mutant of AdvanceDone: a kept chunk does not end the loop.              *)
AdvanceDoneUnlessKept ==
  /\ popping
  /\ ~(chunks # <<>> /\ front >= Len(FrontChunk))
  /\ popping' = FALSE
  /\ UNCHANGED <<chunks, front, capacity, plan, keep_back, base>>

AdvanceDone ==
  /\ popping
  /\ ~Spent
  /\ popping' = FALSE
  /\ UNCHANGED <<chunks, front, capacity, plan, keep_back, base>>

(* Mutant of Clear: drops every chunk, kept or not.                        *)
ClearAll ==
  /\ ~popping
  /\ chunks' = <<>> /\ base' = <<>> /\ front' = 0 /\ capacity' = 0
  /\ Unplan
  /\ UNCHANGED <<keep_back, popping>>

Clear ==
  /\ ~popping
  /\ chunks' = IF keep_back THEN <<chunks[1]>> ELSE <<>>
  /\ base' = IF keep_back THEN <<0>> ELSE <<>>
  /\ front' = IF keep_back THEN Len(chunks[1]) ELSE 0
  /\ capacity' = front'
  /\ Unplan
  /\ UNCHANGED <<keep_back, popping>>

Next ==
  \/ \E n \in Reservations : PlanReservation(n)
  \/ \E n \in Reservations : PlanReservationExact(n)
  \/ \E data \in Writes : Prepend(data)
  \/ \E data \in Writes : PrependSlice(data)
  \/ \E b \in Byte : PrependU8(b)
  \/ \E cnt \in 1 .. Length : Advance(cnt)
  \/ PopChunk
  \/ AdvanceDone
  \/ Clear

Spec == Init /\ [][Next]_vars

(* A thread inside advance keeps running its loop.                         *)
FairSpec == Spec /\ WF_vars(PopChunk \/ AdvanceDone)

-----------------------------------------------------------------------------
(* The content.                                                            *)

Size(i) == Len(chunks[i])

(* The chunk holding the byte with d bytes after it in the content, and    *)
(* that byte.                                                              *)
Home(d) == CHOOSE i \in 1 .. Count : base[i] <= d /\ d < base[i] + Size(i)
ByteBefore(d) == chunks[Home(d)][Size(Home(d)) - (d - base[Home(d)])]

Content == [k \in 1 .. Length |-> ByteBefore(Length - k)]

Queue == INSTANCE PrependQueue WITH content <- Content

-----------------------------------------------------------------------------
(* Properties.                                                             *)

TypeOK ==
  /\ chunks \in Seq(Seq(Cell))
  /\ front \in Nat /\ capacity \in Nat /\ planned_allocation \in Nat
  /\ planned_exact \in BOOLEAN /\ keep_back \in BOOLEAN /\ popping \in BOOLEAN
  /\ base \in Seq(Nat) /\ Len(base) = Count /\ promise \in Nat

(* capacity is the total size of the chunks and front never passes it, so  *)
(* that len(), their difference, cannot underflow, whatever the order of   *)
(* growing, popping and clearing.                                          *)
CapacityAccounting ==
  /\ front <= capacity
  /\ chunks = <<>> => capacity = 0
  /\ chunks # <<>> => base[1] = 0 /\ capacity = base[Count] + Size(Count)
  /\ \A i \in 1 .. Count - 1 : base[i + 1] = base[i] + Size(i)

(* The documented invariant of front: whenever no advance is running it is *)
(* a valid index of the front chunk, or the length of a kept, empty one.   *)
(* (A buffer made from an empty box has a chunk with no valid index.)      *)
FrontValid ==
  ~popping /\ chunks # <<>> =>
    \/ front < Len(FrontChunk)
    \/ front = Len(FrontChunk) /\ Count = 1 /\ (keep_back \/ Len(FrontChunk) = 0)

(* Every byte chunk(), slices() and the readers hand out as initialized    *)
(* was written: no operation leaves an unwritten byte behind front.        *)
Initialized ==
  \A i \in 1 .. Count :
    \A k \in 1 .. Size(i) : i < Count \/ front < k => chunks[i][k] \in Byte

(* Chunks, splitting and popping are invisible: the buffer is a queue of   *)
(* bytes that prepends, drops and clears exactly what it was told to.      *)
ImplementsPrependQueue == Queue!Spec

(* A buffer made by with_capacity keeps its first chunk, and at least that *)
(* capacity, through every advance and clear.                              *)
KeepsBackChunk ==
  [][keep_back => /\ keep_back'
                  /\ chunks' # <<>>
                  /\ Len(chunks'[1]) = Size(1)
                  /\ capacity' >= Size(1)]_vars

(* The next allocation after plan_reservation(n) makes room for at least n *)
(* more bytes than the buffer held then, whatever was prepended, read or   *)
(* planned in between, unless the buffer shrank or was replanned exactly.  *)
PlanHonoured == [][capacity' > capacity => capacity' >= promise]_vars

(* Every allocation at least doubles the capacity, also those of an exact  *)
(* plan: n prepends allocate O(log n) times.                               *)
AllocationDoubles == [][capacity' > capacity => capacity' >= 2 * capacity]_vars

(* The loop of advance ends.                                               *)
AdvanceReturns == popping ~> ~popping
=============================================================================
