--------------------------- MODULE MCSearchManager ---------------------------
(***************************************************************************)
(* One hub that is asked by UDP, and one to which we are connected now and *)
(* then, which is a proxy then.                                            *)
(***************************************************************************)
EXTENDS SearchManager

CONSTANTS near, far, s1

MCHub      == {near, far}
MCNeighbor == {near}
MCSearcher == {s1}
=============================================================================
