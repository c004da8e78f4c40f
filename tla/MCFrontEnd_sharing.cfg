SPECIFICATION Spec
CONSTANTS
  a = a
  Vars <- OneVar
  Language <- Sharing
  MaxNodes = 6
  MaxCells = 8
  MaxStack = 3
  MaxArgs = 1
INVARIANTS ConditionsStayBoolean ListsChecked
CHECK_DEADLOCK FALSE
