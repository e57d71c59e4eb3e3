---------------------------------- MODULE Boot ----------------------------------
(***************************************************************************)
(* The startup code from any reset to main, and the fault handlers from    *)
(* there on: Startup, SystemInit and Excpt over one memory.  A reset comes *)
(* at any step, of the startup too.  It is a power-on; a functional reset, *)
(* which keeps the RAM; an exit from standby, which keeps the SRAM but not *)
(* the DTCM; or a jump to Reset_Handler by software that runs with the     *)
(* caches and the MPU on, the case SystemInit tests the caches for.        *)
(***************************************************************************)
EXTENDS SystemInit, Excpt

CONSTANT LeftEnabled  \* bound: what a program that jumps to Reset_Handler has enabled of the faults

(* The instance that TLC checks: two lines in different sets and ways.     *)
TwoSlots == [l \in {0, 1} |-> <<l, l>>]

vars == <<ramVars, startVars, sysInitVars, excptVars>>

BootTypeOK ==
  /\ RamTypeOK /\ SystemInitTypeOK /\ ExcptTypeOK
  /\ stage \in {"Reset_Handler", "RamInit", "DTCM_Init", "Copy", "Zero", "SystemInit", "CacheCheck",
                "Clean", "CleanAgain", "ICacheOff", "DCacheOff", "Regions", "Invalidate",
                "DCacheOn", "ICacheOn", "main", "running"}
  /\ i \in Nat /\ j \in Nat
  /\ vtor \in {"rom", "ram"} /\ por \in BOOLEAN

Init ==
  /\ mem = Fill(Addresses, Junk) /\ ram = mem
  /\ dcache = FALSE /\ stale = Lines
  /\ stage = "Reset_Handler" /\ i = 0 /\ j = 0 /\ vtor = "rom" /\ por = TRUE
  /\ mpu = [n \in RegionNumbers |-> Disabled(0)] /\ mpuOn = FALSE /\ icache = FALSE
  /\ ExcptInit

(* What a hardware reset does to the rest of the core.                     *)
CoreReset ==
  /\ Goto("Reset_Handler", 0, 0) /\ vtor' = "rom"
  /\ ExcptReset
  /\ mpu' = [n \in RegionNumbers |-> Disabled(0)] /\ mpuOn' = FALSE /\ icache' = FALSE

PowerOn == RamReset({}) /\ CoreReset /\ por' = TRUE

FunctionalReset == RamReset(Addresses) /\ CoreReset /\ UNCHANGED por

StandbyExit == RamReset(Sram) /\ CoreReset /\ UNCHANGED por

Handover ==
  /\ stage = "running" /\ handler = "none" /\ asked \in LeftEnabled
  /\ Goto("Reset_Handler", 0, 0)
  /\ UNCHANGED <<ramVars, sysInitVars, excptVars, vtor, por>>

AnyReset == PowerOn \/ FunctionalReset \/ StandbyExit \/ Handover

(* main, up to its loop: the drivers, and the faults' handlers last.       *)
main ==
  /\ stage = "main"
  /\ excpt_ena_all
  /\ Goto("running", 0, 0)
  /\ UNCHANGED <<ramVars, sysInitVars, vtor, por>>

(* The program writes its variables, which rbar[] and rasr[] are not.      *)
AppSections == {Standby, Bss \ MpuTable, Data, Sram \ Cacheable}

AppWrite ==
  /\ stage = "running"
  /\ \E section \in AppSections : Store(Fill(section, App))
  /\ UNCHANGED <<startVars, sysInitVars, excptVars>>

(* As Power_Ip_GetResetReason does, whose call main.c has commented out.   *)
AppClearsPor ==
  /\ stage = "running"
  /\ por' = FALSE
  /\ UNCHANGED <<ramVars, stage, i, j, vtor, sysInitVars, excptVars>>

AppExcpt ==
  /\ stage = "running"
  /\ \/ excpt_dis_all
     \/ excpt_ena_all
     \/ \E c \in Classes, state \in {0, 1} : excpt_set(c, state)
  /\ UNCHANGED <<ramVars, startVars, sysInitVars>>

AppFaults ==
  /\ stage \in {"main", "running"}
  /\ DivideByZero \/ \E c \in Classes : Fault(c)
  /\ UNCHANGED <<ramVars, startVars, sysInitVars>>

BootStep ==
  \/ StartupStep /\ UNCHANGED <<sysInitVars, excptVars>>
  \/ SystemInitStep /\ UNCHANGED excptVars
  \/ main

Thread == handler = "none" /\ BootStep

Stopped == HandlerStep /\ UNCHANGED <<ramVars, startVars, sysInitVars>>

Next ==
  \/ Thread
  \/ handler = "none" /\ (AppWrite \/ AppClearsPor \/ AppExcpt)
  \/ AppFaults
  \/ Stopped
  \/ /\ Nmi \/ (stage \in {"main", "running"} /\ Unhandled)
     /\ UNCHANGED <<ramVars, startVars, sysInitVars>>
  \/ \E l \in Lines : Evict(l) /\ UNCHANGED <<startVars, sysInitVars, excptVars>>
  \/ AnyReset

Spec == Init /\ [][Next]_vars

(* The core runs.                                                          *)
FairSpec == Spec /\ WF_vars(Thread) /\ WF_vars(Stopped)

------------------------------------------------------------------------------

(***************************************************************************)
(* main finds its variables as C promises: the copied sections as the      *)
(* image has them, the cleared ones zero but for rbar[] and rasr[], which  *)
(* hold what SystemInit stored in them, and no byte of RAM that was never  *)
(* written, whatever the reset and the cache left behind (init_data_bss,   *)
(* RamInit, SystemInit).                                                   *)
(***************************************************************************)
MemoryAsLinked ==
  stage = "main" =>
    /\ \A n \in DOMAIN InitTable : \A a \in Section(InitTable[n]) : mem[a] = Image(a)
    /\ \A n \in DOMAIN ZeroTable : \A a \in Section(ZeroTable[n]) \ MpuTable : mem[a] = 0
    /\ \A n \in RegionNumbers :
         /\ \A a \in Rbar(n) : mem[a] = RegionTable[n + 1].rbar
         /\ \A a \in Rasr(n) : mem[a] = RegionTable[n + 1].rasr
    /\ \A a \in Addresses \ Standby : mem[a] # Junk

(***************************************************************************)
(* VTOR never points at a table that is being cleared, half copied, or     *)
(* lost with a reset: an NMI in the middle of the startup finds its        *)
(* handler (SetVTOR, SET_VTOR_TCM).                                        *)
(***************************************************************************)
VectorsAreIntact == vtor = "ram" => \A a \in Vectors : mem[a] = Image(a)

(***************************************************************************)
(* Unless the last reset was a power-on that nobody has acknowledged, no   *)
(* step of the startup changes the standby data, in the memory or in the   *)
(* cache (NO_INIT_STANDBY_REGION, sys_m7_cache_clean and _init).           *)
(***************************************************************************)
StandbySurvives ==
  [][stage \notin {"main", "running"} /\ ~por /\ ~AnyReset
       => \A a \in Standby : mem'[a] = mem[a]]_vars

(***************************************************************************)
(* Once the MPU is on, every area that the linker places something in, the *)
(* peripherals and the core's own registers have the rights they need: the *)
(* table of SystemInit, though it goes through the cache of the run before *)
(* and is read back without it, agrees with linker_flash_s32k312.ld        *)
(* ("Linker need to align with MPU default setup").  Behind the TCMs, the  *)
(* RAM, the peripherals and the core's registers nothing is allowed; the   *)
(* flash areas are no powers of two, and there nothing is allowed behind   *)
(* the regions that cover them.                                            *)
(***************************************************************************)
MapFitsLinker ==
  mpuOn =>
    \A area \in {<<0, 31, Tcm>>, <<32, 32, None>>,              \* int_itcm
                 <<4096, 5967, Code>>, <<6144, 6144, None>>,    \* int_pflash
                 <<262144, 262271, Rom>>, <<262400, 262400, None>>,  \* int_dflash
                 <<442368, 442375, Rom>>, <<442376, 442376, None>>,  \* UTEST
                 <<524288, 524351, Tcm>>, <<524352, 524352, None>>,  \* int_dtcm, its stack
                 <<528384, 528415, Ram>>,       \* int_sram, int_sram_fls_rsv
                 <<528416, 528447, Shared>>,    \* int_sram_no_cacheable, int_sram_results
                 <<528448, 528479, Shared>>,    \* int_sram_shareable
                 <<528480, 528480, None>>,      \* ram_rsvd2
                 <<1048576, 1054719, Device>>, <<1054720, 1054720, None>>,
                 <<3670016, 3671039, Device>>, <<3671040, 3671040, None>>} :
      \A kb \in {area[1], area[2]} : RightsAt(kb) = area[3]

(***************************************************************************)
(* A fault stops the program in the handler of its class if the last call  *)
(* about the class enabled it and a debugger took the BKPT, and in         *)
(* HardFault_Handler otherwise; either way the locals of the handler tell  *)
(* the class, and HardFault_Handler's why it was called (excpt.c).         *)
(***************************************************************************)
FaultStopsAsAsked ==
  handler \in FaultHandlers /\ hpc = "spin" =>
    /\ fault \in locals
    /\ IF handler = "HardFault_Handler"
       THEN locals \cap {"FORCED", "DEBUGEVT"} = {IF fault \in asked THEN "DEBUGEVT" ELSE "FORCED"}
       ELSE fault \in asked /\ handler = Own[fault]

(***************************************************************************)
(* Every start reaches main unless another reset cuts it short or an NMI   *)
(* stops the core: no loop of the startup runs for ever (RamInit,          *)
(* init_data_bss, SystemInit).                                             *)
(***************************************************************************)
BootCompletes == []<><<AnyReset>>_vars \/ <>[](stage = "running" \/ handler # "none")

==============================================================================
