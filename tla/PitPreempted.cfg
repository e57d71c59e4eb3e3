\* Two timers, periods up to three ticks, every interleaving of the tick.
SPECIFICATION FairSpec
CONSTANTS
  TimersArraySize = 2
  MaxUint32 = 3
  PitMsTicks = 1
  Periods = {0, 1, 3}
INVARIANT Inv
PROPERTIES ImplementsCountdown EveryTimerElapses
