SPECIFICATION CompilerSpec
CONSTANTS
  a = a
  Vars <- OneVar
  Language <- StraightCode
  MaxNodes = 7
  MaxCells = 8
  MaxStack = 3
  MaxArgs = 1
INVARIANTS AssignmentsCompute ArgumentsArrive
CHECK_DEADLOCK FALSE
