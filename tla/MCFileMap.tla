------------------------------ MODULE MCFileMap ------------------------------
(* Seven bytes in blocks of four, so that the last block is a short one, and   *)
(* leases of two bytes, so that several downloaders share a block.  A host has *)
(* everything, or only the middle of the file and its last byte.               *)
EXTENDS FileMap

Span(a, z) == [first |-> a, last |-> z]
MCAvailable == {<<>>, <<Span(Size - 1, Size - 1), Span(1, 3)>>}
=============================================================================
