----------------------- MODULE MCReverseBufferReader -----------------------
(* Readers over buffers of up to three chunks, made in every way.          *)
EXTENDS ReverseBufferReader

MCByte == {0, 1}
MCWrites == {<<0, 0, 1>>}
MCBoxes == {<<>>, <<1>>}
MCCapacities == {0, 1}
=============================================================================
