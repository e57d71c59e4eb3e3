\* Expected to fail: a full transmit ring looks empty for ever.
SPECIFICATION Spec
CONSTANTS
  BufferSize = 3
  RxIds = {546}
  TxIds = {1}
  Payloads = {d1}
  Blank = Blank
  UnconfiguredAccepts = {546}
PROPERTY EveryStoredTxSent
