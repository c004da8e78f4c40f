------------------------------- MODULE MCWiring -------------------------------
(***************************************************************************)
(* Instances of Wiring for TLC.  Pins 3 and 17 are the same bit of two     *)
(* ports, 3 and 4 two bits of one port; only 3 is on a timer, of 8 bits,   *)
(* which 300 does not fit.                                                 *)
(***************************************************************************)
EXTENDS Wiring

MCByte == {0, 11}
MCToPut == <<11>>
Nothing == <<>>
MCPins == {3, 4, 17}
MCAnalogPins == {17}
MCValues == {0, 300}
===============================================================================
