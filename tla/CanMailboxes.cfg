\* Expected to fail: mailbox 1 is configured for 0x111, then for 0x222.
SPECIFICATION Spec
CONSTANTS
  BufferSize = 2
  RxIds = {273, 546}
  TxIds = {}
  Payloads = {d1}
  Blank = Blank
  UnconfiguredAccepts = {}
INVARIANT EveryMessageHasMailbox
