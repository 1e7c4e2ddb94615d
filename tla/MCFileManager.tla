---------------------------- MODULE MCFileManager ----------------------------
(* A name in the folder of incomplete files, the complete file it is moved to, *)
(* and another shared file; three downloads or uploaders that open them.       *)
EXTENDS FileManager, TLC

CONSTANTS o1, o2, o3, i1, c1, c2, a1, a2, a3

MCOwner == {o1, o2, o3}
MCPath  == {i1, c1, c2}
MCFile  == {a1, a2, a3}
MCMoves == {<<i1, c1>>}
OwnerSymmetry == Permutations(MCOwner)
=============================================================================
