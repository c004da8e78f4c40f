SPECIFICATION CompilerSpec
CONSTANTS
  a = a
  Vars <- OneVar
  Language <- Generation
  MaxNodes = 4
  MaxCells = 7
  MaxStack = 2
  MaxArgs = 2
INVARIANTS GenTypeOK StatementCursor OperandsStack
PROPERTIES CheckEnds GenerationEnds
CHECK_DEADLOCK FALSE
