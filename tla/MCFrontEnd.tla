------------------------------ MODULE MCFrontEnd ------------------------------
(***************************************************************************)
(* Instances of FrontEnd for TLC: one variable, and the fragments of the   *)
(* language the runs parse.                                                *)
(***************************************************************************)
EXTENDS FrontEnd

CONSTANT a

OneVar == {a}

\* One production of each class of expression, each kind of call and of simple
\* statement, blocks and loops.
Grammar == {"UINT8_T", "LEVEL", "PLUS", "EQ", "NEG", "GET", "CALL", "EXPRLIST", "EXPRRANGE",
            "getc", "digitalRead", "analogRead", "PP", "AFF", "putc", "pinMode", "peek",
            "WHILE", "DO", "LOOP", "BREAK", "RETURN", "SEQ", "BLOCK"}

\* What shares or overwrites type objects, and conditions that rely on them, in
\* lists and blocks.
Sharing == {"UINT8_T", "BOOLEAN", "EQ", "PLUS", "analogRead", "AFF", "IF", "ELSE", "SWITCH",
            "BREAK", "SEQ"}
===============================================================================
