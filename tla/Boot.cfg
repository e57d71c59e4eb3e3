\* Two cache lines of cacheable SRAM in different sets and ways; words of 4
\* bytes, of which the MPU's table takes one for each of its 32 entries. The
\* standby data shares its line with most of .bss; the end of the table, of
\* .bss and .data are in the other. Most sections end within a word.
SPECIFICATION FairSpec
CONSTANTS
  CacheEnd = 56
  SramEnd = 72
  RamEnd = 80
  LineBytes = 46
  Sets = 2
  Ways = 2
  SlotOf <- TwoSlots
  W = 4
  StandbyBytes = 2
  BssBytes = 34
  DataBytes = 3
  NcDataBytes = 5
  NcBssBytes = 0
  NcEnd = 64
  ShDataBytes = 0
  ShBssBytes = 3
  VectorBytes = 5
  Lockstep = FALSE
  EntryBytes = 1
  RbarStart = 16
  RasrStart = 33
  LeftEnabled = {{"mem", "bus", "usage"}}
INVARIANTS BootTypeOK MemoryAsLinked VectorsAreIntact  FaultStopsAsAsked
PROPERTIES StandbySurvives BootCompletes
