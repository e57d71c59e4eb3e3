\* Expected to fail: a conversion that ends before adc_main flags it.
SPECIFICATION Spec
CONSTANTS
  TimersArraySize = 2
  MaxUint32 = 3
  PitMsTicks = 1
  ADC_PERIOD_MS = 3
  TEMT6000_PERIOD_MS = 3
  Samples = {1}
INVARIANT OngoingMeansInFlight
