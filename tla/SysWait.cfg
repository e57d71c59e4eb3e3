\* Any caller of pit.h and of sys_blocking_wait on a table of two timers with
\* 3-bit counters; a period of 5 ms wraps to 2 ticks.
SPECIFICATION WaitSpec
CONSTANTS
  TimersArraySize = 2
  MaxUint32 = 7
  PitMsTicks = 2
  Periods = {0, 1, 3, 5}
INVARIANT WaitTypeOK
PROPERTIES ExpiryIsLatched NoWaitIsShort WaitSparesOthers EveryWaitReturns
