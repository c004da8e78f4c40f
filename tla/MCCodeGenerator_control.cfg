SPECIFICATION CompilerSpec
CONSTANTS
  a = a
  Vars <- OneVar
  Language <- ControlCode
  MaxNodes = 5
  MaxCells = 8
  MaxStack = 5
  MaxArgs = 1
INVARIANTS BranchesStructured JumpsResolved ListsChecked
CHECK_DEADLOCK FALSE
