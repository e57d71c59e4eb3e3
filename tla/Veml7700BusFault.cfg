\* Expected to fail: a failed I2C read yields a count that looks valid.
SPECIFICATION Spec
CONSTANTS
  TimersArraySize = 1
  MaxUint32 = 63
  PitMsTicks = 1
  MAX_NUM_DEV = 1
  BootDevs = 1
  AddedLate = FALSE
  PromptLoop = TRUE
  Lights = {400}
  SteadyLight = TRUE
  BusMayFail = TRUE
  Garbage = {200, 65535}
INVARIANT RangedCountIsValid
