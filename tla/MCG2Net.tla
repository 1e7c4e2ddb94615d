------------------------------- MODULE MCG2Net -------------------------------
(* Two hubs where one is wanted, and an object for each of them, or two for the *)
(* same one when handlers of its earlier connection are still to run.           *)
EXTENDS G2Net

MCConn == 1 .. 2
=============================================================================
