--------------------------- MODULE MCVarintCodec ---------------------------
(***************************************************************************)
(* Bytes of four bits and varints of at most four bytes.  The values are   *)
(* those around each limit and the largest; the raw strings hold the       *)
(* bytes around the continuation bit and the largest.                      *)
(***************************************************************************)
EXTENDS VarintCodec, TLC

MCFixedWidth == ThirtyTwoBit :> 2 @@ SixtyFourBit :> 3

MCValues ==
  {v \in 0 .. VarintRange - 1 :
     \/ v < 100
     \/ \E n \in 1 .. MaxVarint : v - VarintLimit[n - 1] \in -9 .. 9
     \/ v > VarintRange - 20}

MCRaw ==
  UNION {[1 .. n -> {0, ContinueBit - 1, ContinueBit, ContinueBit + 1,
                     2 * ContinueBit - 1}] : n \in 0 .. MaxVarint + 1}

MCSuffixes == {<<>>, <<9>>, <<9, 1>>}
=============================================================================
