------------------------------- MODULE SystemInit -------------------------------
(***************************************************************************)
(* SystemInit of Project_Settings/Startup_Code/system.c as the S32K312     *)
(* image builds it (MPU and both caches on, .cproject): the table of MPU   *)
(* regions stored in rbar[] and rasr[], variables like others; the clean   *)
(* and the disabling of the caches if one is found on; the regions, read   *)
(* back and programmed one by one; the caches enabled.  The addresses in   *)
(* rbar[] are in KB here.                                                  *)
(***************************************************************************)
EXTENDS Startup

CONSTANTS
  Lockstep,   \* the mode of the TCMs that MSCM.CPXCFG2 reports
  EntryBytes, \* of an entry of rbar[] and rasr[]: W on the device
  RbarStart,  \* where the linker places rbar[] in .bss
  RasrStart   \* and rasr[]

RegionNumbers == 0 .. 15

Rbar(n) == Span(RbarStart + n * EntryBytes, EntryBytes)
Rasr(n) == Span(RasrStart + n * EntryBytes, EntryBytes)
MpuTable == Span(RbarStart, 16 * EntryBytes) \cup Span(RasrStart, 16 * EntryBytes)

ASSUME SystemInitAssumption ==
  /\ Lockstep \in BOOLEAN
  /\ {EntryBytes, RbarStart, RasrStart} \subseteq Nat /\ EntryBytes > 0
  /\ BssStart <= RbarStart /\ RbarStart + 16 * EntryBytes <= BssEnd
  /\ BssStart <= RasrStart /\ RasrStart + 16 * EntryBytes <= BssEnd
  /\ RbarStart + 16 * EntryBytes <= RasrStart \/ RasrStart + 16 * EntryBytes <= RbarStart

(* The upper half of a RASR, by what it allows: XN, AP, TEX, S, C and B.   *)
None == \h1004
Code == \h070B
Rom == \h160B
Tcm == \h0308
Ram == \h030B
Shared == \h130C
Device == \h1304
Qspi == \h170F

(* The lower half has the subregions left out (SRD), SIZE, n for 2^(n+1)   *)
(* bytes, and ENABLE.                                                      *)
Region(base, upper, lower) == [rbar |-> base, rasr |-> 65536 * upper + lower]
Disabled(base) == [rbar |-> base, rasr |-> 0]

RegionTable == <<
  Region(0, None, \h3F),                                 \* the whole map
  Region(0, Tcm, IF Lockstep THEN \h1F ELSE \h1D),       \* ITCM
  Region(4096, Code, \h29),
  Region(262144, Rom, \h23),                             \* data flash
  Region(442368, Rom, \h19),                             \* UTEST
  Region(524288, Tcm, IF Lockstep THEN \h21 ELSE \h1F),  \* DTCM
  Region(528384, Ram, \h1D),
  Region(528416, Shared, \h1D),                          \* not cacheable
  Region(528448, Shared, \h1D),
  Region(1048576, Device, \hC02D),                       \* AIPS 0 to 2, 6 subregions of 8
  Disabled(1054720),                                     \* AIPS 3
  Region(1687552, Device, \h13),                         \* QSPI Rx
  Region(1703936, Qspi, \h35),
  Region(3670016, Device, \h27),                         \* PPB
  Disabled(8192), Disabled(1114112)>>                    \* flash 2, ACE

VARIABLES
  mpu,     \* S32_MPU's regions, RBAR and RASR
  mpuOn,   \* CTRL.ENABLE
  icache   \* CCR.IC

sysInitVars == <<mpu, mpuOn, icache>>

SystemInitTypeOK ==
  /\ mpu \in [RegionNumbers -> [rbar : Int, rasr : Int]]
  /\ mpuOn \in BOOLEAN /\ icache \in BOOLEAN

Enabled(r) == r.rasr % 2 = 1
KB(r) == 2 ^ (((r.rasr % 64) \div 2) - 9)
Subregions(r) == IF (r.rasr \div 16384) % 4 = 3 THEN 6 ELSE 8  \* the table leaves out 0, or 6 and 7
Matches(r, kb) == r.rbar <= kb /\ Enabled(r) /\ kb < r.rbar + (KB(r) * Subregions(r)) \div 8

Rights(r) == r.rasr \div 65536

(* What the core may do at an address: the highest region that has it      *)
(* decides.                                                                *)
RightsAt(kb) ==
  LET hits == {n \in RegionNumbers : Matches(mpu[n], kb)}
  IN IF hits = {} THEN None ELSE Rights(mpu[CHOOSE n \in hits : \A m \in hits : m <= n])

(* The two stores of an entry of the table.                                *)
TableStore ==
  /\ stage = "SystemInit"
  /\ Store([a \in Rbar(i) \cup Rasr(i) |->
              IF a \in Rbar(i) THEN RegionTable[i + 1].rbar ELSE RegionTable[i + 1].rasr])
  /\ IF i < 15 THEN Goto(stage, i + 1, 0) ELSE Goto("CacheCheck", 0, 0)
  /\ UNCHANGED <<sysInitVars, vtor, por>>

(* Faulty: the cache is turned off with what it holds.                     *)
CacheCheck_NoClean ==
  /\ stage = "CacheCheck"
  /\ IF icache \/ dcache THEN Goto("ICacheOff", 0, 0) ELSE Goto("Regions", 0, 0)
  /\ UNCHANGED <<ramVars, sysInitVars, vtor, por>>

(* A cache that is on at this point is cleaned first: a write the earlier  *)
(* stages left in it, the table's too, would be lost.                      *)
CacheCheck ==
  /\ stage = "CacheCheck"
  /\ IF icache \/ dcache THEN Goto("Clean", FirstSlot[1], FirstSlot[2]) ELSE Goto("Regions", 0, 0)
  /\ UNCHANGED <<ramVars, sysInitVars, vtor, por>>

(* sys_m7_cache_clean, which SystemInit calls, and sys_m7_cache_disable    *)
(* again before it clears CCR.DC.                                          *)
CleanLoop ==
  /\ stage \in {"Clean", "CleanAgain"}
  /\ CleanSlot(<<i, j>>)
  /\ IF <<i, j>> # LastSlot THEN Goto(stage, NextSlot(i, j)[1], NextSlot(i, j)[2])
     ELSE IF stage = "Clean" THEN Goto("CleanAgain", FirstSlot[1], FirstSlot[2])
     ELSE Goto("ICacheOff", 0, 0)
  /\ UNCHANGED <<sysInitVars, vtor, por>>

(* sys_m7_cache_disable, the instruction cache first.                      *)
ICacheDisable ==
  /\ stage = "ICacheOff"
  /\ icache' = FALSE
  /\ Goto("DCacheOff", 0, 0)
  /\ UNCHANGED <<ramVars, mpu, mpuOn, vtor, por>>

DCacheDisable ==
  /\ stage = "DCacheOff"
  /\ CacheOff
  /\ Goto("Regions", 0, 0)
  /\ UNCHANGED <<sysInitVars, vtor, por>>

(* What the core reads of entry n.                                         *)
Entry(n) == [rbar |-> mem[RbarStart + n * EntryBytes], rasr |-> mem[RasrStart + n * EntryBytes]]

(* i is index, over the table; j is regionNum, over the regions in use.    *)
RegionSet ==
  /\ stage = "Regions" /\ i < 16 /\ Enabled(Entry(i))
  /\ mpu' = [mpu EXCEPT ![j] = Entry(i)]
  /\ Goto(stage, i + 1, j + 1)
  /\ UNCHANGED <<ramVars, mpuOn, icache, vtor, por>>

AtGap == stage = "Regions" /\ i < 16 /\ ~Enabled(Entry(i))

(* Faulty: index only moves with regionNum.                                *)
RegionSkip_Stays ==
  AtGap /\ Goto(stage, i, j) /\ UNCHANGED <<ramVars, sysInitVars, vtor, por>>

RegionSkip ==
  AtGap /\ Goto(stage, i + 1, j) /\ UNCHANGED <<ramVars, sysInitVars, vtor, por>>

RegionsOn ==
  /\ stage = "Regions" /\ i = 16
  /\ mpuOn' = TRUE
  /\ Goto("Invalidate", FirstSlot[1], FirstSlot[2])
  /\ UNCHANGED <<ramVars, mpu, icache, vtor, por>>

(* sys_m7_cache_init: the data cache comes on after the last slot, the     *)
(* instruction cache last.                                                 *)
InvalidateLoop ==
  /\ stage = "Invalidate"
  /\ InvalidateSlot(<<i, j>>)
  /\ IF <<i, j>> # LastSlot THEN Goto(stage, NextSlot(i, j)[1], NextSlot(i, j)[2])
     ELSE Goto("DCacheOn", 0, 0)
  /\ UNCHANGED <<sysInitVars, vtor, por>>

DCacheEnable ==
  /\ stage = "DCacheOn"
  /\ CacheOn
  /\ Goto("ICacheOn", 0, 0)
  /\ UNCHANGED <<sysInitVars, vtor, por>>

ICacheEnable ==
  /\ stage = "ICacheOn"
  /\ icache' = TRUE
  /\ Goto("main", 0, 0)
  /\ UNCHANGED <<ramVars, mpu, mpuOn, vtor, por>>

SystemInitStep ==
  \/ TableStore \/ CacheCheck \/ CleanLoop \/ ICacheDisable \/ DCacheDisable
  \/ RegionSet \/ RegionSkip \/ RegionsOn
  \/ InvalidateLoop \/ DCacheEnable \/ ICacheEnable

==============================================================================
