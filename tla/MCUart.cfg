SPECIFICATION Spec
CONSTANTS
  Byte <- MCByte
  TxSize = 4
  RxSize = 4
  ToPut <- MCToPut
  OnLine <- MCOnLine
INVARIANTS UartTypeOK HandlersArmed AvailableKept BytesInOrder
PROPERTIES ImplementsSerialPort CallsReturn EverythingSent
CHECK_DEADLOCK FALSE
