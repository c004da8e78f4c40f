SPECIFICATION BoardSpec
CONSTANTS
  Byte <- MCByte
  TxSize = 2
  RxSize = 2
  ToPut <- Nothing
  OnLine <- Nothing
  Pins <- MCAnalogPins
  AnalogPins <- MCAnalogPins
  References = {1, 3}
  Values = {0}
PROPERTY AnalogReadConverts
CHECK_DEADLOCK FALSE
