-------------------------------- MODULE MCUart --------------------------------
(***************************************************************************)
(* An instance of Uart for TLC: distinct bytes, so that a byte lost,       *)
(* repeated or overtaken is seen, and more of them than a buffer holds.    *)
(***************************************************************************)
EXTENDS Uart

MCByte == {0} \cup 11..14 \cup 21..24
MCToPut == <<11, 12, 13, 14>>
MCOnLine == <<[data |-> 21, status |-> 0], [data |-> 22, status |-> FE0],
              [data |-> 23, status |-> 0], [data |-> 24, status |-> 0]>>
===============================================================================
