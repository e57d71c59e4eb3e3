\* The end-of-chain interrupt anywhere, three samples.
SPECIFICATION Spec
CONSTANTS
  TimersArraySize = 2
  MaxUint32 = 3
  PitMsTicks = 1
  ADC_PERIOD_MS = 3
  TEMT6000_PERIOD_MS = 3
  Samples = {1, 2, 1023}
INVARIANTS TypeOK NoOverlap
PROPERTY ConversionsKeepComing
