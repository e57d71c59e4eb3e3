\* Both rings: three slots each, two messages told apart by their payload, the
\* greatest id that can_send_msg takes and the least it refuses, and mailbox 0
\* taken to receive anything.
SPECIFICATION Spec
CONSTANTS
  BufferSize = 3
  RxIds = {546}
  TxIds = {2047, 2048}
  Payloads = {d1, d2}
  Blank = Blank
  UnconfiguredAccepts = {546}
INVARIANT TypeOK
PROPERTIES RxIsFifo EveryRxProcessed TxIsFifo EveryTxSentUnlessFull
