---------------------------- MODULE MCTransceiver ----------------------------
(* Three peers that drew the same identifier, which is one of those that a     *)
(* signed char would spoil, for packets of two parts, of one, and of two.       *)
EXTENDS Transceiver

CONSTANTS a, b, c

MCId == a :> 1 @@ b :> 1 @@ c :> 1
MCTotal == a :> 2 @@ b :> 1 @@ c :> 2
=============================================================================
