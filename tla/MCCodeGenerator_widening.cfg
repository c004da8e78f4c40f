SPECIFICATION CompilerSpec
CONSTANTS
  a = a
  Vars <- OneVar
  Language <- Widening
  MaxNodes = 4
  MaxCells = 7
  MaxStack = 2
  MaxArgs = 1
INVARIANT StoresFit
CHECK_DEADLOCK FALSE
