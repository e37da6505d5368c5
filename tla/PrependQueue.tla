---------------------------- MODULE PrependQueue ----------------------------
(***************************************************************************)
(* What a ReverseBuffer promises its callers, with no chunks in sight: a   *)
(* byte string that grows at its front, is read and dropped from its       *)
(* front, and may be cleared.  ReverseBuffer is shown to implement it.     *)
(***************************************************************************)
EXTENDS Integers, Sequences

CONSTANTS
  Byte,     (* the byte values that are told apart                         *)
  Writes,   (* the byte strings a caller may put in front of the content   *)
  Boxes     (* the byte strings a queue may be made from                   *)

VARIABLE content   (* every byte held, the first to be read first          *)

Init == content \in Boxes \cup {<<>>}

Prepend(data) == content' = data \o content

Advance(cnt) ==
  /\ cnt \in 1 .. Len(content)
  /\ content' = SubSeq(content, cnt + 1, Len(content))

Clear == content' = <<>>

Next ==
  \/ \E data \in Writes : Prepend(data)
  \/ \E b \in Byte : Prepend(<<b>>)
  \/ \E cnt \in 1 .. Len(content) : Advance(cnt)
  \/ Clear

Spec == Init /\ [][Next]_content
=============================================================================
