SPECIFICATION BoardSpec
CONSTANTS
  Byte <- MCByte
  TxSize = 2
  RxSize = 2
  ToPut <- MCToPut
  OnLine <- Nothing
  Pins <- MCPins
  AnalogPins <- MCAnalogPins
  References = {1}
  Values <- MCValues
INVARIANTS WiringTypeOK InterruptsRestored
PROPERTIES ImplementsPins NoGlitch KeepsSerialPort BoardEverythingSent
CHECK_DEADLOCK FALSE
