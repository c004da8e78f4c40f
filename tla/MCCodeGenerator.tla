---------------------------- MODULE MCCodeGenerator ----------------------------
(***************************************************************************)
(* Instances of CodeGenerator for TLC: one variable, and the fragments of   *)
(* the language the runs compile.                                          *)
(***************************************************************************)
EXTENDS CodeGenerator

CONSTANT a

OneVar == {a}

\* Straight-line code: sums, calls and their arguments.
StraightCode == {"UINT8_T", "UINT16_T", "LEVEL", "PLUS", "AFF", "getc", "digitalWrite",
                 "delay_ms"}

\* Nested and sequenced control, over a boolean and a byte.  The whiles make labels and
\* jumps of their own, which must not meet those of the ifs.
ControlCode == {"BOOLEAN", "UINT8_T", "AFF", "IF", "ELSE", "SEQ", "LOOP", "WHILE"}

\* Every visit of the generator: wide values, lists, strings, ++, calls, operations
\* that are not implemented, and every statement.
Generation == {"UINT8_T", "LEVEL", "INTEGER", "STRING_LIT", "PLUS", "EQ", "NEG", "GET", "CALL",
               "EXPRLIST", "getc", "digitalRead", "PP", "AFF", "puts", "pinMode", "IF", "WHILE",
               "FOREACH", "DO", "LOOP", "BREAK", "SEQ", "BLOCK"}

\* The smallest fragments in which the code departs from what its comments say.
Widening     == {"UINT8_T", "AFF", "delay_ms"}
Comparing    == {"UINT8_T", "EQ", "IF", "BREAK"}
WideArgument == {"UINT8_T", "INTEGER", "analogWrite"}
Printing     == {"STRING_LIT", "puts"}
===============================================================================
