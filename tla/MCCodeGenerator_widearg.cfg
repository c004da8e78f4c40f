SPECIFICATION CompilerSpec
CONSTANTS
  a = a
  Vars <- OneVar
  Language <- WideArgument
  MaxNodes = 6
  MaxCells = 8
  MaxStack = 2
  MaxArgs = 1
INVARIANT AllArgumentsArrive
CHECK_DEADLOCK FALSE
