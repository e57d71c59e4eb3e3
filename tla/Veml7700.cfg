\* One device added at any time, a light that changes at any time, a superloop
\* that is late.
SPECIFICATION Spec
CONSTANTS
  TimersArraySize = 1
  MaxUint32 = 63
  PitMsTicks = 1
  MAX_NUM_DEV = 1
  BootDevs = 0
  AddedLate = TRUE
  PromptLoop = FALSE
  Lights = {0, 40, 70000}
  SteadyLight = FALSE
  BusMayFail = FALSE
  Garbage = {}
INVARIANTS TypeOK LuxIsLight ConfigInStep
PROPERTIES RangingKeepsPeriod AutorangeSettles
