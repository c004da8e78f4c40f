SPECIFICATION Spec
CONSTANTS
  a = a
  Vars <- OneVar
  Language <- Grammar
  MaxNodes = 4
  MaxCells = 7
  MaxStack = 2
  MaxArgs = 2
INVARIANTS TypeOK OwnedTypes VarTypesDeclared
CHECK_DEADLOCK FALSE
