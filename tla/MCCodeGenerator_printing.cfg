SPECIFICATION CompilerSpec
CONSTANTS
  a = a
  Vars <- OneVar
  Language <- Printing
  MaxNodes = 4
  MaxCells = 8
  MaxStack = 2
  MaxArgs = 1
INVARIANT StringsDeclared
CHECK_DEADLOCK FALSE
