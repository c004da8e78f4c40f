SPECIFICATION CompilerSpec
CONSTANTS
  a = a
  Vars <- OneVar
  Language <- Comparing
  MaxNodes = 4
  MaxCells = 8
  MaxStack = 2
  MaxArgs = 1
INVARIANT ConditionInRegister
CHECK_DEADLOCK FALSE
