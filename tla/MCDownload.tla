----------------------------- MODULE MCDownload -----------------------------
(* Three chunks, the last of them alone in its leaf, fetched by two        *)
(* downloaders, which may be connected to the same host.                   *)
EXTENDS Download, TLC

CONSTANTS d1, d2, s1

MCSlot   == {d1, d2}
OneSlot  == {d1}
MCSource == {s1}
Symmetry == Permutations(MCSlot)
=============================================================================
