--------------------------- MODULE MCShareManager ---------------------------
(* Two names, so that one file is hashed or moved while the other one is   *)
(* scanned; an address more than there can be objects.                     *)
EXTENDS ShareManager

MCPtr == 1 .. 4
=============================================================================
