-------------------------- MODULE MCReverseBuffer --------------------------
(***************************************************************************)
(* A small instance of ReverseBuffer: two byte values, a minimum chunk of  *)
(* two bytes, and writes shorter than, equal to and longer than a chunk;   *)
(* and a statement of src/buf.rs about itself that does not hold.          *)
(***************************************************************************)
EXTENDS ReverseBuffer

MCByte == {0, 1}
MCWrites == {<<0, 1>>, <<1, 0, 1>>}
MCBoxes == {<<>>, <<1>>}
MCCapacities == {0, 1}
MCReservations == {0, 3}

(* buf.rs:420 asserts, whenever it grows to prepend another Buf, that      *)
(* front is a valid index of the chunk that was in front until then.       *)
GrowsFromValidIndex ==
  [][\A data \in Writes : Prepend(data) /\ Len(data) > front /\ chunks # <<>>
       => front < Len(FrontChunk)]_vars

=============================================================================
