\* The whole pool of 32 timers, periods in seconds, two bytes on the serial line.
SPECIFICATION Spec
CONSTANTS
  TimersArraySize = 32
  MaxUint32 = 7
  PitMsTicks = 1
  TickMs = 1000
  Bytes = {b1, b2}
  NoByte = NoByte
INVARIANTS
  TypeOK
  EachItsOwnTimer
  RedFollowsPresses
  EchoIsOwed
PROPERTIES
  GreenBlinksUnlessStuck
  EveryByteEchoed
