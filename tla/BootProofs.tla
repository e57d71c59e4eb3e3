------------------------------ MODULE BootProofs ------------------------------
(***************************************************************************)
(* Proofs about Boot, for every layout of the memory and the cache, every  *)
(* reset at every step, and every fault.  The parts of its state are       *)
(* reasoned about one after the other: the faults', which the boot's own   *)
(* steps leave alone and resets clear, the memory's, and the MPU's.        *)
(***************************************************************************)
EXTENDS Boot, TLAPS

(*--------------------------------- faults ---------------------------------*)

OwnHandlers == {Own[c] : c \in Classes}

(* SHCSR is what the calls asked for; a register holds only its own flags. *)
RegistersAsAsked ==
  /\ shcsr = asked
  /\ asked \subseteq Classes
  /\ cfsr \subseteq Classes

(* Where in a handler the core can be: only those of faults have steps,    *)
(* and HardFault_Handler has no BKPT.                                      *)
HandlerHasSteps ==
  /\ hpc \in {"entry", "bkpt", "spin"}
  /\ handler \in Handlers
  /\ hpc = "entry" => handler \in FaultHandlers
  /\ hpc = "bkpt" => handler \in OwnHandlers

(* HFSR before a fault, in a handler of the class, and in HardFault_Handler. *)
FaultsAreKnown ==
  /\ handler = "none" => hfsr = {}
  /\ handler \in FaultHandlers => fault \in Classes /\ fault \in cfsr
  /\ handler \in OwnHandlers => hfsr = {} /\ fault \in asked /\ handler = Own[fault]
  /\ handler = "HardFault_Handler" => hfsr = {IF fault \in asked THEN "DEBUGEVT" ELSE "FORCED"}

(* A handler that is at its BKPT or its end has read the registers.        *)
LocalsAreRead ==
  handler \in FaultHandlers /\ hpc # "entry" =>
    locals = cfsr \cup (IF handler = "HardFault_Handler" THEN hfsr ELSE {})

ExcptInv == RegistersAsAsked /\ HandlerHasSteps /\ FaultsAreKnown /\ LocalsAreRead

(* The names are all different, and a class is told from its handler.      *)
LEMMA Names ==
  /\ OwnHandlers = {"MemManage_Handler", "BusFault_Handler", "UsageFault_Handler"}
  /\ FaultHandlers = OwnHandlers \cup {"HardFault_Handler"}
  /\ "HardFault_Handler" \notin OwnHandlers
  /\ "none" \notin FaultHandlers /\ "NMI_Handler" \notin FaultHandlers
  /\ "undefined_handler" \notin FaultHandlers
  /\ \A c \in Classes : Own[c] \in OwnHandlers
<1>1. /\ Own["mem"] = "MemManage_Handler" /\ Own["bus"] = "BusFault_Handler"
      /\ Own["usage"] = "UsageFault_Handler"
  BY DEF Own
<1>2. OwnHandlers = {"MemManage_Handler", "BusFault_Handler", "UsageFault_Handler"}
  BY <1>1 DEF OwnHandlers, Classes
<1> QED
  BY <1>2 DEF OwnHandlers, FaultHandlers

(* Every reset but a handover clears the faults.                           *)
LEMMA ResetClears == ExcptReset => ExcptInv'
BY Names DEF ExcptReset, ExcptInv, RegistersAsAsked, HandlerHasSteps, FaultsAreKnown,
             LocalsAreRead, Handlers

(* The calls that turn classes on and off, which no handler makes.         *)
LEMMA CallKeeps ==
  ASSUME ExcptInv, handler = "none",
         \/ excpt_ena_all
         \/ excpt_dis_all
         \/ \E c \in Classes, state \in {0, 1} : excpt_set(c, state)
  PROVE  ExcptInv'
<1>1. RegistersAsAsked'
  <2>1. CASE excpt_ena_all
    BY <2>1 DEF excpt_ena_all, ExcptInv, RegistersAsAsked
  <2>2. CASE excpt_dis_all
    BY <2>2 DEF excpt_dis_all, ExcptInv, RegistersAsAsked
  <2>3. ASSUME NEW c \in Classes, NEW state \in {0, 1}, excpt_set(c, state)
        PROVE  RegistersAsAsked'
    BY <2>3 DEF excpt_set, excpt_set_field, ExcptInv, RegistersAsAsked
  <2> QED
    BY <2>1, <2>2, <2>3
<1>2. UNCHANGED <<handler, hpc, cfsr, hfsr, locals, fault>>
  BY DEF excpt_ena_all, excpt_dis_all, excpt_set
<1> QED
  BY <1>1, <1>2, Names DEF ExcptInv, HandlerHasSteps, FaultsAreKnown, LocalsAreRead

(* A fault goes where SHCSR says, with a reason if that is not its class's. *)
LEMMA FaultKeeps ==
  ASSUME ExcptInv, NEW c \in Classes, Fault(c)
  PROVE  ExcptInv'
<1>1. /\ handler = "none" /\ hfsr = {}
      /\ cfsr' = cfsr \cup {c} /\ fault' = c /\ hpc' = "entry"
      /\ UNCHANGED <<shcsr, locals, asked>>
  BY DEF Fault, ExcptInv, FaultsAreKnown
<1>2. RegistersAsAsked'
  BY <1>1 DEF ExcptInv, RegistersAsAsked
<1>3. CASE c \in shcsr
  <2>1. handler' = Own[c] /\ hfsr' = {}
    BY <1>1, <1>3 DEF Fault
  <2>2. handler' \in OwnHandlers /\ c \in asked'
    BY <1>1, <1>3, <2>1, Names DEF ExcptInv, RegistersAsAsked
  <2> QED
    BY <1>1, <1>2, <2>1, <2>2, Names
    DEF ExcptInv, HandlerHasSteps, FaultsAreKnown, LocalsAreRead, Handlers
<1>4. CASE c \notin shcsr
  <2>1. handler' = "HardFault_Handler" /\ hfsr' = {"FORCED"} /\ c \notin asked'
    BY <1>1, <1>4 DEF Fault, ExcptInv, RegistersAsAsked
  <2> QED
    BY <1>1, <1>2, <2>1, Names
    DEF ExcptInv, HandlerHasSteps, FaultsAreKnown, LocalsAreRead, Handlers
<1> QED
  BY <1>3, <1>4

(* The steps of a handler: the registers are read, the BKPT is taken by a  *)
(* debugger or is a hard fault, which no longer has the reason FORCED.     *)
LEMMA HandlerKeeps ==
  ASSUME ExcptInv, HandlerStep
  PROVE  ExcptInv'
<1> USE DEF ExcptInv, RegistersAsAsked, HandlerHasSteps, FaultsAreKnown, LocalsAreRead
<1>1. CASE HandlerReads
  <2>1. handler \in FaultHandlers
    BY <1>1 DEF HandlerReads, HandlerEntered
  <2> QED
    BY <1>1, <2>1, Names DEF HandlerReads
<1>2. CASE Breakpoint
  <2>1. handler \in OwnHandlers /\ hfsr = {} /\ fault \in asked
    BY <1>2 DEF Breakpoint
  <2>2. CASE hpc' = "spin" /\ UNCHANGED <<handler, hfsr>>
    BY <1>2, <2>1, <2>2, Names DEF Breakpoint
  <2>3. CASE /\ hpc' = "entry" /\ handler' = "HardFault_Handler"
             /\ hfsr' = hfsr \cup {"DEBUGEVT"}
    BY <1>2, <2>1, <2>3, Names DEF Breakpoint, Handlers
  <2> QED
    BY <1>2, <2>2, <2>3 DEF Breakpoint
<1> QED
  BY <1>1, <1>2 DEF HandlerStep

(* An NMI, or an interrupt without a handler, stops the core elsewhere.    *)
LEMMA StopKeeps ==
  ASSUME ExcptInv, Nmi \/ Unhandled
  PROVE  ExcptInv'
BY Names DEF Nmi, Unhandled, StopsIn, ExcptInv, RegistersAsAsked, HandlerHasSteps,
             FaultsAreKnown, LocalsAreRead, Handlers

(* ExcptInv is inductive: only faults, handlers and excpt.c touch it.       *)
LEMMA StepExcptInv == ExcptInv /\ [Next]_vars => ExcptInv'
<1> SUFFICES ASSUME ExcptInv, [Next]_vars PROVE ExcptInv'
  OBVIOUS
<1>0. CASE UNCHANGED excptVars
  BY <1>0 DEF excptVars, ExcptInv, RegistersAsAsked, HandlerHasSteps, FaultsAreKnown, LocalsAreRead
<1>1. CASE Thread
  <2>1. CASE main
    BY <1>1, <2>1, CallKeeps DEF Thread, main
  <2>2. CASE ~main
    BY <1>0, <1>1, <2>2 DEF Thread, BootStep
  <2> QED
    BY <2>1, <2>2
<1>2. CASE handler = "none" /\ (AppWrite \/ AppClearsPor \/ AppExcpt)
  <2>1. CASE AppExcpt
    BY <1>2, <2>1, CallKeeps DEF AppExcpt
  <2>2. CASE AppWrite \/ AppClearsPor
    BY <1>0, <2>2 DEF AppWrite, AppClearsPor
  <2> QED
    BY <1>2, <2>1, <2>2
<1>3. CASE AppFaults
  <2>1. \E c \in Classes : Fault(c)
    BY <1>3 DEF AppFaults, DivideByZero, Classes
  <2> QED
    BY <2>1, FaultKeeps
<1>4. CASE Stopped
  BY <1>4, HandlerKeeps DEF Stopped
<1>5. CASE Nmi \/ Unhandled
  BY <1>5, StopKeeps
<1>6. CASE AnyReset
  <2>1. CASE Handover
    BY <1>0, <2>1 DEF Handover
  <2>2. CASE ~Handover
    BY <1>6, <2>2, ResetClears DEF AnyReset, PowerOn, FunctionalReset, StandbyExit, CoreReset
  <2> QED
    BY <2>1, <2>2
<1>7. CASE UNCHANGED vars
  BY <1>0, <1>7 DEF vars
<1> QED
  BY <1>0, <1>1, <1>2, <1>3, <1>4, <1>5, <1>6, <1>7 DEF Next

(* What each fault leaves in the registers, and where it goes.             *)
THEOREM FaultSafety == Spec => []ExcptInv
<1>1. Init => ExcptInv
  BY Names DEF Init, ExcptInit, ExcptInv, RegistersAsAsked, HandlerHasSteps, FaultsAreKnown,
               LocalsAreRead, Handlers
<1> QED
  BY <1>1, StepExcptInv, PTL DEF Spec

(* Every fault, whenever it comes and whatever was enabled before, stops   *)
(* in the handler that excpt.c's settings ask for, and its class and       *)
(* reason can be read there.                                               *)
THEOREM FaultStops == Spec => []FaultStopsAsAsked
<1>1. ExcptInv => FaultStopsAsAsked
  <2> SUFFICES ASSUME ExcptInv, handler \in FaultHandlers, hpc = "spin"
               PROVE  /\ fault \in locals
                      /\ IF handler = "HardFault_Handler"
                         THEN locals \cap {"FORCED", "DEBUGEVT"}
                                = {IF fault \in asked THEN "DEBUGEVT" ELSE "FORCED"}
                         ELSE fault \in asked /\ handler = Own[fault]
    BY DEF FaultStopsAsAsked
  <2>1. fault \in cfsr /\ cfsr \cap {"FORCED", "DEBUGEVT"} = {}
    BY DEF ExcptInv, FaultsAreKnown, RegistersAsAsked, Classes
  <2>2. locals = cfsr \cup (IF handler = "HardFault_Handler" THEN hfsr ELSE {})
    BY DEF ExcptInv, LocalsAreRead
  <2>3. CASE handler = "HardFault_Handler"
    <3>1. hfsr = {IF fault \in asked THEN "DEBUGEVT" ELSE "FORCED"}
      BY <2>3 DEF ExcptInv, FaultsAreKnown
    <3> QED
      BY <2>1, <2>2, <2>3, <3>1
  <2>4. CASE handler # "HardFault_Handler"
    BY <2>1, <2>2, <2>4, Names DEF ExcptInv, FaultsAreKnown
  <2> QED
    BY <2>3, <2>4
<1> QED
  BY <1>1, FaultSafety, PTL

(*------------------------- memory and data cache --------------------------*)

\* The stages after the table of regions is stored, and those after .bss is cleared.
Tabled == {"CacheCheck", "Clean", "CleanAgain", "ICacheOff", "DCacheOff", "Regions", "Invalidate",
           "DCacheOn", "ICacheOn", "main"}
Filled == {"SystemInit"} \cup Tabled
Stages == {"Reset_Handler", "RamInit", "DTCM_Init", "Copy", "Zero", "running"} \cup Filled

StartTypeOK ==
  /\ RamTypeOK
  /\ stage \in Stages /\ i \in Nat /\ j \in Nat
  /\ vtor \in {"rom", "ram"} /\ por \in BOOLEAN

SlotLoops == {"Clean", "CleanAgain", "Invalidate"}

(* A loop over the slots of the cache is at a slot that there is.          *)
AtSlot == stage \in SlotLoops => <<i, j>> \in Slots

(* Such a loop has been to a slot by the time it is at set s and way w.     *)
Passed(slot, s, w) == slot[1] > s \/ (slot[1] = s /\ slot[2] > w)

(* Where the memory behind the cache can differ from what the core reads:  *)
(* in cacheable SRAM, while the cache is on, in no slot that has been      *)
(* cleaned.                                                                *)
Coherent ==
  /\ \A a \in Addresses \ Cacheable : mem[a] = ram[a]
  /\ ~dcache \/ stage \in {"ICacheOff", "DCacheOff"} => mem = ram
  /\ stage \in {"Clean", "CleanAgain"} =>
       \A a \in Cacheable : Passed(SlotOf[a \div LineBytes], i, j) => mem[a] = ram[a]
  /\ stage \in {"Regions", "Invalidate", "DCacheOn"} => ~dcache

(* No slot that has been invalidated is stale.                             *)
SlotsFresh ==
  /\ stage = "Invalidate" => \A l \in stale : ~Passed(SlotOf[l], i, j)
  /\ stage = "DCacheOn" => stale = {}

(* How far the initialisation of the RAM is.  Without a power-on nothing   *)
(* below .bss is initialised again: it has been, once, before POR was      *)
(* cleared, in the memory as in the cache.                                 *)
Initialised ==
  /\ ~por \/ stage \in {"ICacheOn", "main", "running"} =>
       \A a \in Sram \ Standby : mem[a] # Junk /\ ram[a] # Junk
  /\ stage = "RamInit" => /\ ~por => BssStart <= j
                          /\ \A a \in Sram \ Standby : a < j => mem[a] # Junk
  /\ stage = "DTCM_Init" => SramEnd <= j /\ \A a \in Addresses \ Standby : a < j => mem[a] # Junk
  /\ stage \in {"Copy", "Zero"} \cup Filled => \A a \in Addresses \ Standby : mem[a] # Junk

(* What the first k stores of the copy of a section have written.          *)
Copied(e, k) ==
  LET words == e.size \div W IN IF k <= words THEN k * W ELSE words * W + (k - words)

(* How far the sections are what the linker says: a part of the n-th of    *)
(* the copied and of the cleared ones, all of those before the n-th; and   *)
(* the entries of the MPU's table before the n-th.                         *)
IsCopied(n, bytes) ==
  \A a \in Section(InitTable[n]) : a < InitTable[n].ram + bytes => mem[a] = Image(a)
IsCleared(n, bytes) ==
  \A a \in Section(ZeroTable[n]) \ MpuTable : a < ZeroTable[n].ram + bytes => mem[a] = 0
AreCopied(n) == \A m \in 1 .. 4 : m < n => \A a \in Section(InitTable[m]) : mem[a] = Image(a)
AreCleared(n) ==
  \A m \in 1 .. 3 : m < n => \A a \in Section(ZeroTable[m]) \ MpuTable : mem[a] = 0
AreStored(n) ==
  \A m \in RegionNumbers : m < n => /\ \A a \in Rbar(m) : mem[a] = RegionTable[m + 1].rbar
                                    /\ \A a \in Rasr(m) : mem[a] = RegionTable[m + 1].rasr
VectorsCopied == \A a \in Vectors : mem[a] = Image(a)

Loaded ==
  /\ stage = "Copy" =>
       /\ i \in 1 .. 4 /\ j <= Copies(InitTable[i])
       /\ AreCopied(i) /\ IsCopied(i, Copied(InitTable[i], j))
  /\ stage = "Zero" =>
       /\ i \in 1 .. 3 /\ j <= Zeros(ZeroTable[i])
       /\ AreCopied(5) /\ AreCleared(i) /\ IsCleared(i, j * W)
  /\ stage \in Filled => AreCopied(5) /\ AreCleared(4)
  /\ stage = "SystemInit" => i \in RegionNumbers /\ AreStored(i)
  /\ stage \in Tabled => AreStored(16)
  /\ stage = "running" => VectorsCopied
  /\ vtor = "ram" => stage \in Filled \cup {"running", "Reset_Handler"} /\ VectorsCopied

MemInv == StartTypeOK /\ AtSlot /\ Coherent /\ SlotsFresh /\ Initialised /\ Loaded

(*------------------- arithmetic, and the layout of the RAM ----------------*)

(* Division with remainder.                                                *)
LEMMA DivMod ==
  ASSUME NEW a \in Nat, NEW b \in Nat \ {0}
  PROVE  a = b * (a \div b) + (a % b) /\ a \div b \in Nat /\ a % b \in 0 .. b - 1
OBVIOUS

(* The quotient is the only one that leaves less than the divisor.         *)
LEMMA OneQuotient ==
  ASSUME NEW a \in Nat, NEW b \in Nat \ {0}, NEW q \in Nat, NEW r \in 0 .. b - 1,
         a = b * q + r
  PROVE  a \div b = q
<1> DEFINE p == a \div b
           s == a % b
<1>1. p \in Nat /\ s \in 0 .. b - 1 /\ b * p + s = b * q + r
  BY DivMod
<1> HIDE DEF p, s
<1>2. ~(p < q)
  <2> SUFFICES ASSUME p + 1 <= q PROVE FALSE
    BY <1>1
  <2>1. b * (p + 1) <= b * q
    BY <1>1
  <2>2. b * (p + 1) = b * p + b
    BY <1>1
  <2> QED
    BY <1>1, <2>1, <2>2
<1>3. ~(q < p)
  <2> SUFFICES ASSUME q + 1 <= p PROVE FALSE
    BY <1>1
  <2>1. b * (q + 1) <= b * p
    BY <1>1
  <2>2. b * (q + 1) = b * q + b
    BY <1>1
  <2> QED
    BY <1>1, <2>1, <2>2
<1> QED
  BY <1>1, <1>2, <1>3 DEF p

(* ALIGN reaches upwards.                                                   *)
LEMMA AlignUpFacts ==
  ASSUME NEW n \in Nat, NEW m \in Nat \ {0}
  PROVE  AlignUp(n, m) \in Nat /\ n <= AlignUp(n, m)
<1> DEFINE a == n + m - 1
<1>1. a \in Nat
  OBVIOUS
<1>2. AlignUp(n, m) = (a \div m) * m
  BY DEF AlignUp
<1> DEFINE d == a \div m
<1>3. d \in Nat /\ a = m * d + (a % m) /\ a % m \in 0 .. m - 1
  BY <1>1, DivMod
<1>4. d * m = m * d /\ m * d \in Nat
  BY <1>3
<1> QED
  BY <1>2, <1>3, <1>4

(* ALIGN does not care how many whole units come before.                    *)
LEMMA AlignUpShifts ==
  ASSUME NEW q \in Nat, NEW n \in Nat, NEW m \in Nat \ {0}
  PROVE  AlignUp(q * m + n, m) = q * m + AlignUp(n, m)
<1> DEFINE a == n + m - 1
           d == a \div m
           b == q * m + n + m - 1
<1>1. a \in Nat /\ b \in Nat /\ b = q * m + a
  <2>1. q * m \in Nat
    OBVIOUS
  <2> QED BY <2>1
<1>2. AlignUp(n, m) = d * m /\ AlignUp(q * m + n, m) = (b \div m) * m
  BY DEF AlignUp
<1>3. d \in Nat /\ a = m * d + (a % m) /\ a % m \in 0 .. m - 1
  BY <1>1, DivMod
<1> DEFINE r == a % m
<1> HIDE DEF a, d, b, r
<1>4. b = m * (q + d) + r
  <2>1. m * (q + d) = q * m + m * d
    BY <1>3
  <2> QED
    BY <1>1, <1>3, <2>1 DEF r
<1>5. b \div m = q + d
  <2> DEFINE t == q + d
  <2>1. t \in Nat /\ r \in 0 .. m - 1
    BY <1>3 DEF r
  <2>2. b = m * t + r
    BY <1>4
  <2> HIDE DEF t
  <2>3. b \div m = t
    BY <1>1, <2>1, <2>2, OneQuotient
  <2> QED
    BY <2>3 DEF t
<1>6. (q + d) * m = q * m + d * m
  BY <1>3
<1> QED
  BY <1>2, <1>5, <1>6

(* The words that Zero clears are those that a section has a byte in.       *)
LEMMA ZeroWords ==
  ASSUME NEW e, e.size \in Nat
  PROVE  Zeros(e) \in Nat /\ Zeros(e) * W = AlignUp(e.size, W) /\ e.size <= Zeros(e) * W
<1> DEFINE a == e.size + W - 1
           d == a \div W
<1>0. W \in Nat \ {0}
  BY StartupAssumption
<1>1. AlignUp(e.size, W) = d * W /\ Zeros(e) = (d * W) \div W
  BY DEF AlignUp, Zeros
<1>2. d \in Nat
  <2>1. a \in Nat
    BY <1>0
  <2> HIDE DEF a
  <2> QED
    BY <1>0, <2>1, DivMod
<1>3. e.size <= AlignUp(e.size, W)
  BY <1>0, AlignUpFacts
<1> HIDE DEF d
<1> DEFINE n == d * W
<1>4. n \in Nat /\ n = W * d + 0
  BY <1>0, <1>2
<1> HIDE DEF n
<1>5. n \div W = d
  BY <1>0, <1>2, <1>4, OneQuotient
<1> QED
  BY <1>1, <1>2, <1>3, <1>5 DEF n

(* In which order the sections are in the memory: each starts behind the   *)
(* last word that init_data_bss writes of the one before.                  *)
LEMMA Layout ==
  /\ W \in Nat \ {0}
  /\ {BssStart, DataStart, NcBssStart, NcEnd, ShBssStart} \subseteq Nat
  /\ {StandbyBytes, BssBytes, DataBytes, NcDataBytes, NcBssBytes} \subseteq Nat
  /\ {ShDataBytes, ShBssBytes, VectorBytes} \subseteq Nat
  /\ StandbyBytes <= BssStart /\ BssStart + AlignUp(BssBytes, W) <= DataStart
  /\ DataStart + DataBytes <= CacheEnd /\ CacheEnd + NcDataBytes <= NcBssStart
  /\ NcBssStart + AlignUp(NcBssBytes, W) <= NcEnd /\ NcEnd + ShDataBytes <= ShBssStart
  /\ ShBssStart + AlignUp(ShBssBytes, W) <= SramEnd
  /\ CacheEnd \in Nat /\ SramEnd \in Nat /\ RamEnd \in Nat /\ SramEnd + VectorBytes <= RamEnd
<1>1. W \in Nat \ {0} /\ 4 * W \in Nat \ {0}
  BY StartupAssumption
<1>2. BssStart \in Nat /\ StandbyBytes <= BssStart
  BY <1>1, AlignUpFacts, StartupAssumption DEF BssStart
<1>3. DataStart \in Nat
  BY <1>1, <1>2, AlignUpFacts, StartupAssumption DEF DataStart, BssEnd
<1> DEFINE q == ((StandbyBytes + 4 * W - 1) \div (4 * W)) * 4
<1>4. q \in Nat /\ BssStart = q * W
  <2> DEFINE a == StandbyBytes + 4 * W - 1
             d == a \div (4 * W)
  <2>1. d \in Nat
    <3>1. a \in Nat
      BY <1>1, StartupAssumption
    <3> HIDE DEF a
    <3> QED
      BY <1>1, <3>1, DivMod
  <2>2. BssStart = d * (4 * W)
    BY DEF BssStart, AlignUp
  <2> HIDE DEF d
  <2>3. d * (4 * W) = (d * 4) * W
    BY <1>1, <2>1
  <2> QED
    BY <2>1, <2>2, <2>3 DEF d
<1> HIDE DEF q
<1>5. DataStart = BssStart + AlignUp(BssBytes, W)
  BY <1>1, <1>4, AlignUpShifts, StartupAssumption DEF DataStart, BssEnd
<1>6. NcBssStart \in Nat /\ CacheEnd + NcDataBytes <= NcBssStart
  <2> DEFINE n == CacheEnd + NcDataBytes
  <2>1. n \in Nat
    BY StartupAssumption, RamAssumption
  <2>2. NcBssStart = AlignUp(n, 4 * W)
    BY DEF NcBssStart
  <2> HIDE DEF n
  <2> QED
    BY <1>1, <2>1, <2>2, AlignUpFacts DEF n
<1>7. ShBssStart \in Nat /\ NcEnd + ShDataBytes <= ShBssStart
  <2> DEFINE n == NcEnd + ShDataBytes
  <2>1. n \in Nat
    BY StartupAssumption
  <2>2. ShBssStart = AlignUp(n, 4 * W)
    BY DEF ShBssStart
  <2> HIDE DEF n
  <2> QED
    BY <1>1, <2>1, <2>2, AlignUpFacts DEF n
<1> QED
  BY <1>1, <1>2, <1>3, <1>5, <1>6, <1>7, StartupAssumption, RamAssumption

(* The tables that init_data_bss goes through.                              *)
LEMMA Tables ==
  /\ DOMAIN InitTable = 1 .. 4 /\ Len(InitTable) = 4
  /\ DOMAIN ZeroTable = 1 .. 3 /\ Len(ZeroTable) = 3
  /\ InitTable[1].ram = DataStart /\ InitTable[1].size = DataBytes
  /\ InitTable[2].ram = CacheEnd /\ InitTable[2].size = NcDataBytes
  /\ InitTable[3].ram = NcEnd /\ InitTable[3].size = ShDataBytes
  /\ InitTable[4].ram = SramEnd /\ InitTable[4].size = VectorBytes
  /\ ZeroTable[1].ram = ShBssStart /\ ZeroTable[1].size = ShBssBytes
  /\ ZeroTable[2].ram = NcBssStart /\ ZeroTable[2].size = NcBssBytes
  /\ ZeroTable[3].ram = BssStart /\ ZeroTable[3].size = BssBytes
BY DEF InitTable, ZeroTable

(* No section overlaps another one that is copied, with the whole words    *)
(* that Zero clears, and all are above the standby data.                   *)
LEMMA Sections ==
  /\ \A n \in 1 .. 4 :
       /\ InitTable[n].ram \in Nat /\ InitTable[n].size \in Nat
       /\ BssStart + AlignUp(BssBytes, W) <= InitTable[n].ram
       /\ InitTable[n].ram + InitTable[n].size <= RamEnd
  /\ \A m, n \in 1 .. 4 : m < n => InitTable[m].ram + InitTable[m].size <= InitTable[n].ram
  /\ \A n \in 1 .. 3 :
       /\ ZeroTable[n].ram \in Nat /\ ZeroTable[n].size \in Nat
       /\ BssStart <= ZeroTable[n].ram
       /\ Zeros(ZeroTable[n]) \in Nat
       /\ ZeroTable[n].size <= Zeros(ZeroTable[n]) * W
       /\ ZeroTable[n].ram + Zeros(ZeroTable[n]) * W <= RamEnd
  /\ \A m \in 1 .. 3, n \in 1 .. 4 :
       \/ ZeroTable[m].ram + Zeros(ZeroTable[m]) * W <= InitTable[n].ram
       \/ InitTable[n].ram + InitTable[n].size <= ZeroTable[m].ram
<1>1. /\ AlignUp(BssBytes, W) \in Nat /\ BssBytes <= AlignUp(BssBytes, W)
      /\ AlignUp(NcBssBytes, W) \in Nat /\ NcBssBytes <= AlignUp(NcBssBytes, W)
      /\ AlignUp(ShBssBytes, W) \in Nat /\ ShBssBytes <= AlignUp(ShBssBytes, W)
  BY Layout, AlignUpFacts
<1>2. /\ Zeros(ZeroTable[1]) * W = AlignUp(ShBssBytes, W) /\ Zeros(ZeroTable[1]) \in Nat
      /\ Zeros(ZeroTable[2]) * W = AlignUp(NcBssBytes, W) /\ Zeros(ZeroTable[2]) \in Nat
      /\ Zeros(ZeroTable[3]) * W = AlignUp(BssBytes, W) /\ Zeros(ZeroTable[3]) \in Nat
  BY ZeroWords, Tables, Layout
<1>3. \A n \in 1 .. 4 :
        /\ InitTable[n].ram \in Nat /\ InitTable[n].size \in Nat
        /\ BssStart + AlignUp(BssBytes, W) <= InitTable[n].ram
        /\ InitTable[n].ram + InitTable[n].size <= RamEnd
  BY <1>1, Tables, Layout
<1>4. \A m, n \in 1 .. 4 : m < n => InitTable[m].ram + InitTable[m].size <= InitTable[n].ram
  BY <1>1, Tables, Layout
<1>5. \A n \in 1 .. 3 :
        /\ ZeroTable[n].ram \in Nat /\ ZeroTable[n].size \in Nat
        /\ BssStart <= ZeroTable[n].ram
        /\ Zeros(ZeroTable[n]) \in Nat
        /\ ZeroTable[n].size <= Zeros(ZeroTable[n]) * W
        /\ ZeroTable[n].ram + Zeros(ZeroTable[n]) * W <= RamEnd
  BY <1>1, <1>2, Tables, Layout
<1>6. \A m \in 1 .. 3, n \in 1 .. 4 :
        \/ ZeroTable[m].ram + Zeros(ZeroTable[m]) * W <= InitTable[n].ram
        \/ InitTable[n].ram + InitTable[n].size <= ZeroTable[m].ram
  BY <1>1, <1>2, Tables, Layout
<1> QED
  BY <1>3, <1>4, <1>5, <1>6

(* Where the addresses of the sections are.                                *)
LEMMA Places ==
  /\ CacheEnd \in Nat /\ SramEnd \in Nat /\ RamEnd \in Nat
  /\ CacheEnd <= SramEnd /\ SramEnd <= RamEnd
  /\ Cacheable \subseteq Sram /\ Sram \subseteq Addresses /\ Addresses \subseteq Nat
  /\ \A a \in Addresses : a \in Sram <=> a < SramEnd
  /\ \A a \in Standby : a \in Sram /\ a < BssStart
  /\ \A a \in Bss : a \in Sram /\ BssStart <= a /\ a < BssStart + BssBytes
  /\ \A n \in 1 .. 4 : \A a \in Section(InitTable[n]) :
       a \in Addresses /\ InitTable[n].ram <= a /\ a < InitTable[n].ram + InitTable[n].size
  /\ \A n \in 1 .. 3 : \A a \in Section(ZeroTable[n]) :
       a \in Addresses /\ ZeroTable[n].ram <= a /\ a < ZeroTable[n].ram + ZeroTable[n].size
  /\ Vectors = Section(InitTable[4])
  /\ \A a \in Vectors : a \in Addresses \ Sram
  /\ Data = Section(InitTable[1])
<1>1. /\ CacheEnd \in Nat /\ SramEnd \in Nat /\ RamEnd \in Nat
      /\ CacheEnd <= SramEnd /\ SramEnd <= RamEnd
      /\ Cacheable \subseteq Sram /\ Sram \subseteq Addresses /\ Addresses \subseteq Nat
      /\ \A a \in Addresses : a \in Sram <=> a < SramEnd
  BY RamAssumption DEF Cacheable, Sram, Addresses
<1>2. BssStart + BssBytes <= DataStart /\ DataStart <= SramEnd
  BY Layout, AlignUpFacts, <1>1
<1>3. /\ \A a \in Standby : a \in Sram /\ a < BssStart
      /\ \A a \in Bss : a \in Sram /\ BssStart <= a /\ a < BssStart + BssBytes
  BY <1>2, Layout DEF Standby, Bss, Span, Sram
<1>4. \A n \in 1 .. 4 : \A a \in Section(InitTable[n]) :
        a \in Addresses /\ InitTable[n].ram <= a /\ a < InitTable[n].ram + InitTable[n].size
  <2> SUFFICES ASSUME NEW n \in 1 .. 4, NEW a \in Section(InitTable[n])
               PROVE  /\ a \in Addresses /\ InitTable[n].ram <= a
                      /\ a < InitTable[n].ram + InitTable[n].size
    OBVIOUS
  <2> DEFINE from == InitTable[n].ram
             size == InitTable[n].size
  <2>1. from \in Nat /\ size \in Nat /\ from + size <= RamEnd
    BY Sections
  <2>2. a \in from .. from + size - 1
    BY DEF Section, Span
  <2> HIDE DEF from, size
  <2>3. a \in 0 .. RamEnd - 1 /\ from <= a /\ a < from + size
    BY <1>1, <2>1, <2>2
  <2> QED
    BY <2>3 DEF Addresses, from, size
<1>5. \A n \in 1 .. 3 : \A a \in Section(ZeroTable[n]) :
        a \in Addresses /\ ZeroTable[n].ram <= a /\ a < ZeroTable[n].ram + ZeroTable[n].size
  <2> SUFFICES ASSUME NEW n \in 1 .. 3, NEW a \in Section(ZeroTable[n])
               PROVE  /\ a \in Addresses /\ ZeroTable[n].ram <= a
                      /\ a < ZeroTable[n].ram + ZeroTable[n].size
    OBVIOUS
  <2> DEFINE from == ZeroTable[n].ram
             size == ZeroTable[n].size
             all == Zeros(ZeroTable[n]) * W
  <2>1. from \in Nat /\ size \in Nat /\ size <= all /\ from + all <= RamEnd /\ all \in Nat
    BY Sections, Layout
  <2>2. a \in from .. from + size - 1
    BY DEF Section, Span
  <2> HIDE DEF from, size, all
  <2>3. a \in 0 .. RamEnd - 1 /\ from <= a /\ a < from + size
    BY <1>1, <2>1, <2>2
  <2> QED
    BY <2>3 DEF Addresses, from, size
<1>6. Vectors = Section(InitTable[4]) /\ Data = Section(InitTable[1])
  BY Tables DEF Vectors, Data, Section
<1>7. \A a \in Vectors : a \in Addresses \ Sram
  <2> SUFFICES ASSUME NEW a \in Vectors PROVE a \in Addresses \ Sram
    OBVIOUS
  <2>1. a \in Section(InitTable[4]) /\ 4 \in 1 .. 4
    BY <1>6
  <2>2. a \in Addresses /\ InitTable[4].ram <= a
    BY <1>4, <2>1
  <2>3. InitTable[4].ram = SramEnd
    BY Tables
  <2>4. a \in Nat /\ ~(a < SramEnd)
    BY <1>1, <2>2, <2>3
  <2> QED
    BY <1>1, <2>2, <2>4
<1> QED
  BY <1>1, <1>3, <1>4, <1>5, <1>6, <1>7

(* The entries of rbar[] and rasr[] are in .bss, and no two share a byte.   *)
LEMMA TablePlaces ==
  /\ MpuTable \subseteq Bss
  /\ \A n \in RegionNumbers : Rbar(n) \subseteq MpuTable /\ Rasr(n) \subseteq MpuTable
  /\ \A n \in RegionNumbers :
       /\ RbarStart + n * EntryBytes \in Rbar(n)
       /\ RasrStart + n * EntryBytes \in Rasr(n)
  /\ \A m, n \in RegionNumbers : Rbar(m) \cap Rasr(n) = {}
  /\ \A m, n \in RegionNumbers :
       m < n => Rbar(m) \cap Rbar(n) = {} /\ Rasr(m) \cap Rasr(n) = {}
<1> DEFINE len == 16 * EntryBytes
<1>1. /\ EntryBytes \in Nat \ {0} /\ RbarStart \in Nat /\ RasrStart \in Nat
      /\ len \in Nat
      /\ BssStart <= RbarStart /\ RbarStart + len <= BssStart + BssBytes
      /\ BssStart <= RasrStart /\ RasrStart + len <= BssStart + BssBytes
      /\ RbarStart + len <= RasrStart \/ RasrStart + len <= RbarStart
      /\ BssStart \in Nat /\ BssBytes \in Nat
  BY SystemInitAssumption, Layout DEF BssEnd
<1>2. ASSUME NEW n \in RegionNumbers
      PROVE  /\ n * EntryBytes \in Nat
             /\ n * EntryBytes + EntryBytes <= len
             /\ \A m \in RegionNumbers : m < n => m * EntryBytes + EntryBytes <= n * EntryBytes
  <2>1. n \in Nat /\ n + 1 <= 16
    BY DEF RegionNumbers
  <2>2. n * EntryBytes + EntryBytes = (n + 1) * EntryBytes /\ n * EntryBytes \in Nat
    BY <1>1, <2>1
  <2>3. (n + 1) * EntryBytes <= len
    BY <1>1, <2>1
  <2>4. ASSUME NEW m \in RegionNumbers, m < n PROVE m * EntryBytes + EntryBytes <= n * EntryBytes
    <3>1. m \in Nat /\ m + 1 <= n
      BY <2>4 DEF RegionNumbers
    <3>2. (m + 1) * EntryBytes <= n * EntryBytes
      BY <1>1, <2>1, <3>1
    <3>3. (m + 1) * EntryBytes = m * EntryBytes + EntryBytes
      BY <1>1, <3>1
    <3> QED
      BY <3>2, <3>3
  <2> QED
    BY <2>2, <2>3, <2>4
<1>3. MpuTable = (RbarStart .. RbarStart + len - 1) \cup (RasrStart .. RasrStart + len - 1)
  BY DEF MpuTable, Span
<1>4. Bss = BssStart .. BssStart + BssBytes - 1
  BY DEF Bss, Span
<1>5. MpuTable \subseteq Bss
  <2> HIDE DEF len
  <2> QED
    BY <1>1, <1>3, <1>4
<1>6. ASSUME NEW n \in RegionNumbers
      PROVE  /\ Rbar(n) \subseteq RbarStart .. RbarStart + len - 1
             /\ Rasr(n) \subseteq RasrStart .. RasrStart + len - 1
             /\ RbarStart + n * EntryBytes \in Rbar(n)
             /\ RasrStart + n * EntryBytes \in Rasr(n)
             /\ \A m \in RegionNumbers :
                  m < n => Rbar(m) \cap Rbar(n) = {} /\ Rasr(m) \cap Rasr(n) = {}
  <2> DEFINE o(m) == m * EntryBytes
  <2>1. /\ \A m \in RegionNumbers : o(m) \in Nat /\ o(m) + EntryBytes <= len
        /\ \A m \in RegionNumbers : m < n => o(m) + EntryBytes <= o(n)
    BY <1>2
  <2>2. \A m \in RegionNumbers :
          /\ Rbar(m) = RbarStart + o(m) .. RbarStart + o(m) + EntryBytes - 1
          /\ Rasr(m) = RasrStart + o(m) .. RasrStart + o(m) + EntryBytes - 1
    BY DEF Rbar, Rasr, Span
  <2> HIDE DEF o, len
  <2>3. /\ Rbar(n) \subseteq RbarStart .. RbarStart + len - 1
        /\ Rasr(n) \subseteq RasrStart .. RasrStart + len - 1
        /\ RbarStart + o(n) \in Rbar(n)
        /\ RasrStart + o(n) \in Rasr(n)
    <3>1. /\ Rbar(n) = RbarStart + o(n) .. RbarStart + o(n) + EntryBytes - 1
          /\ Rasr(n) = RasrStart + o(n) .. RasrStart + o(n) + EntryBytes - 1
      BY <2>2
    <3>2. o(n) \in Nat /\ o(n) + EntryBytes <= len
      BY <2>1
    <3>3. EntryBytes \in Nat \ {0} /\ RbarStart \in Nat /\ RasrStart \in Nat /\ len \in Nat
      BY <1>1
    <3> DEFINE at == o(n)
    <3> HIDE DEF at
    <3> QED
      BY <3>1, <3>2, <3>3 DEF at
  <2>4. \A m \in RegionNumbers :
          m < n => Rbar(m) \cap Rbar(n) = {} /\ Rasr(m) \cap Rasr(n) = {}
    BY <1>1, <2>1, <2>2
  <2>5. o(n) = n * EntryBytes
    BY DEF o
  <2> QED
    BY <2>3, <2>4, <2>5
<1>7. \A m, n \in RegionNumbers : Rbar(m) \cap Rasr(n) = {}
  <2> HIDE DEF len
  <2>1. (RbarStart .. RbarStart + len - 1) \cap (RasrStart .. RasrStart + len - 1) = {}
    BY <1>1
  <2> QED
    BY <1>6, <2>1
<1> QED
  BY <1>3, <1>5, <1>6, <1>7

(* What k stores of the copy of a section have written: nothing at first,  *)
(* all of it in the end, and each store goes on where the last one ended.  *)
LEMMA CopyFacts ==
  ASSUME NEW e, e.ram \in Nat, e.size \in Nat
  PROVE  /\ Copies(e) \in Nat
         /\ Copied(e, 0) = 0 /\ Copied(e, Copies(e)) = e.size
         /\ \A k \in Nat :
              /\ Copied(e, k) \in Nat
              /\ CopySpan(e, k) = e.ram + Copied(e, k) .. e.ram + Copied(e, k + 1) - 1
<1> DEFINE words == e.size \div W
           rest == e.size % W
<1>1. /\ W \in Nat \ {0} /\ words \in Nat /\ rest \in Nat
      /\ e.size = W * words + rest
  <2>1. W \in Nat \ {0}
    BY Layout
  <2>2. rest \in 0 .. W - 1 /\ words \in Nat /\ e.size = W * words + rest
    BY <2>1, DivMod
  <2> QED
    BY <2>1, <2>2
<1>2. /\ Copies(e) = words + rest
      /\ \A k : Copied(e, k) = IF k <= words THEN k * W ELSE words * W + (k - words)
      /\ \A k : CopySpan(e, k) = IF k < words THEN Span(e.ram + k * W, W)
                                 ELSE Span(e.ram + words * W + (k - words), 1)
  BY DEF Copies, Copied, CopySpan
<1> HIDE DEF words, rest
<1>3. words * W \in Nat /\ words * W = W * words /\ 0 * W = 0
  BY <1>1
<1>4. Copied(e, 0) = 0
  BY <1>1, <1>2, <1>3
<1>5. Copied(e, Copies(e)) = e.size
  <2>1. CASE rest = 0
    BY <1>1, <1>2, <1>3, <2>1
  <2>2. CASE rest > 0
    BY <1>1, <1>2, <1>3, <2>2
  <2> QED
    BY <1>1, <2>1, <2>2
<1>6. ASSUME NEW k \in Nat
      PROVE  /\ Copied(e, k) \in Nat
             /\ CopySpan(e, k) = e.ram + Copied(e, k) .. e.ram + Copied(e, k + 1) - 1
  <2>1. k * W \in Nat /\ (k + 1) * W = k * W + W
    BY <1>1
  <2>2. CASE k < words
    <3>1. Copied(e, k) = k * W /\ Copied(e, k + 1) = k * W + W
      BY <1>1, <1>2, <2>1, <2>2
    <3>2. CopySpan(e, k) = e.ram + k * W .. e.ram + k * W + W - 1
      BY <1>2, <2>2 DEF Span
    <3> QED
      BY <1>1, <2>1, <3>1, <3>2
  <2>3. CASE k = words
    <3>1. Copied(e, k) = words * W /\ Copied(e, k + 1) = words * W + 1
      BY <1>1, <1>2, <1>3, <2>3
    <3>2. CopySpan(e, k) = e.ram + words * W .. e.ram + words * W
      BY <1>1, <1>2, <1>3, <2>3 DEF Span
    <3> QED
      BY <1>3, <3>1, <3>2
  <2>4. CASE k > words
    <3>1. Copied(e, k) = words * W + (k - words) /\ Copied(e, k + 1) = words * W + (k - words) + 1
      BY <1>1, <1>2, <1>3, <2>4
    <3>2. CopySpan(e, k) = e.ram + words * W + (k - words) .. e.ram + words * W + (k - words)
      <4> DEFINE s == e.ram + words * W + (k - words)
      <4>1. s \in Int /\ ~(k < words)
        BY <1>1, <1>3, <2>4
      <4>2. CopySpan(e, k) = Span(s, 1)
        BY <1>2, <4>1
      <4> HIDE DEF s
      <4>3. Span(s, 1) = s .. s
        BY <4>1 DEF Span
      <4> QED
        BY <4>2, <4>3 DEF s
    <3> QED
      BY <1>1, <1>3, <2>4, <3>1, <3>2
  <2> QED
    BY <1>1, <2>2, <2>3, <2>4
<1> QED
  BY <1>1, <1>2, <1>4, <1>5, <1>6

(* A store changes the bytes it is given, and reaches the memory behind    *)
(* the cache at once or not at all.                                        *)
LEMMA StoreDoes ==
  ASSUME RamTypeOK, NEW bytes, Store(bytes)
  PROVE  /\ \A a \in Addresses :
              /\ mem'[a] = IF a \in DOMAIN bytes THEN bytes[a] ELSE mem[a]
              /\ ram'[a] = ram[a] \/ ram'[a] = mem'[a]
              /\ a \notin Cacheable \/ ~dcache => ram'[a] = mem'[a]
         /\ ~dcache => ram' = mem'
         /\ dcache' = dcache /\ stale' = stale
         /\ (\A a \in Addresses \cap DOMAIN bytes : bytes[a] \in Int) => RamTypeOK'
<1>1. \A a \in Addresses : mem'[a] = IF a \in DOMAIN bytes THEN bytes[a] ELSE mem[a]
  BY DEF Store
<1>2. \A a \in Addresses : ram'[a] = IF dcache /\ a \in Cacheable THEN ram[a] ELSE mem'[a]
  BY DEF Store
<1>3. ~dcache => ram' = mem'
  <2>1. mem' = [a \in Addresses |-> mem'[a]]
    BY DEF Store
  <2>2. ~dcache => ram' = [a \in Addresses |-> mem'[a]]
    BY DEF Store
  <2> QED
    BY <2>1, <2>2
<1>4. dcache' = dcache /\ stale' = stale
  BY DEF Store
<1>5. ASSUME \A a \in Addresses \cap DOMAIN bytes : bytes[a] \in Int
      PROVE  RamTypeOK'
  <2>1. mem' = [a \in Addresses |-> mem'[a]] /\ ram' = [a \in Addresses |-> ram'[a]]
    BY DEF Store
  <2>2. \A a \in Addresses : mem'[a] \in Int
    BY <1>1, <1>5 DEF RamTypeOK
  <2>3. \A a \in Addresses : ram'[a] \in Int
    BY <1>2, <2>2 DEF RamTypeOK
  <2>4. mem' \in [Addresses -> Int] /\ ram' \in [Addresses -> Int]
    BY <2>1, <2>2, <2>3
  <2> QED
    BY <1>4, <2>4 DEF RamTypeOK
<1> QED
  BY <1>1, <1>2, <1>3, <1>4, <1>5

(*-------------------------- the startup, by steps -------------------------*)

(* A store of bytes that are not Junk takes nothing back.                  *)
LEMMA StoreInitialises ==
  ASSUME StartTypeOK, NEW bytes, Store(bytes),
         \A a \in Addresses \cap DOMAIN bytes : bytes[a] \in Int /\ bytes[a] # Junk
  PROVE  /\ RamTypeOK'
         /\ \A a \in Addresses :
              /\ mem[a] # Junk \/ a \in DOMAIN bytes => mem'[a] # Junk
              /\ mem[a] # Junk /\ ram[a] # Junk => ram'[a] # Junk
              /\ a \notin Cacheable \/ ~dcache => ram'[a] = mem'[a]
         /\ ~dcache => ram' = mem'
         /\ dcache' = dcache /\ stale' = stale
BY StoreDoes DEF StartTypeOK

(* RamInit starts at .bss if no power-on; the rest has been initialised before. *)
LEMMA SetVTORKeeps == MemInv /\ SetVTOR => MemInv'
<1> SUFFICES ASSUME MemInv, SetVTOR PROVE MemInv'
  OBVIOUS
<1> USE DEF MemInv
<1>1. /\ stage' = "RamInit" /\ i' = 0 /\ j' = (IF por THEN 0 ELSE BssStart) /\ vtor' = "rom"
      /\ UNCHANGED <<mem, ram, dcache, stale, por>>
  BY DEF SetVTOR, Goto, ramVars
<1>2. StartTypeOK'
  BY <1>1, Layout DEF StartTypeOK, RamTypeOK, Stages, Filled, Tabled
<1>3. AtSlot' /\ SlotsFresh'
  BY <1>1 DEF AtSlot, SlotsFresh, SlotLoops
<1>4. Coherent'
  BY <1>1 DEF Coherent
<1>5. Initialised'
  <2>1. \A a \in Sram \ Standby : a < j' => mem[a] # Junk
    <3>1. CASE por
      <4>1. \A a \in Sram : a \in Nat
        BY Places
      <4> QED
        BY <1>1, <3>1, <4>1
    <3>2. CASE ~por
      BY <3>2 DEF Initialised
    <3> QED
      BY <3>1, <3>2
  <2> QED
    BY <1>1, <2>1, Layout DEF Initialised, Filled, Tabled, StartTypeOK
<1>6. Loaded'
  BY <1>1 DEF Loaded, Filled, Tabled
<1> QED
  BY <1>2, <1>3, <1>4, <1>5, <1>6

(* Two words are cleared per turn, of the SRAM and then of the DTCM.       *)
LEMMA RamInitKeeps == MemInv /\ (RamInit \/ DTCM_Init) => MemInv'
<1> SUFFICES ASSUME MemInv, RamInit \/ DTCM_Init PROVE MemInv'
  OBVIOUS
<1> USE DEF MemInv
<1> DEFINE bytes == Fill(Span(j, 2 * W), 0)
           next == j + 2 * W
<1>1. /\ Store(bytes) /\ vtor' = vtor /\ por' = por
      /\ \/ stage = "RamInit" /\ stage' = "RamInit" /\ i' = 0 /\ j' = next
         \/ stage = "RamInit" /\ SramEnd <= next /\ stage' = "DTCM_Init" /\ i' = 0 /\ j' = SramEnd
         \/ stage = "DTCM_Init" /\ stage' = "DTCM_Init" /\ i' = 0 /\ j' = next
         \/ stage = "DTCM_Init" /\ RamEnd <= next /\ stage' = "Copy" /\ i' = 1 /\ j' = 0
  <2>1. next \in Nat /\ SramEnd \in Nat /\ RamEnd \in Nat
    BY Layout, Places DEF StartTypeOK
  <2> QED
    BY <2>1 DEF RamInit, DTCM_Init, Goto
<1>2. /\ DOMAIN bytes = j .. next - 1
      /\ \A a \in Addresses \cap DOMAIN bytes : bytes[a] \in Int /\ bytes[a] # Junk
      /\ next \in Nat /\ j \in Nat /\ j <= next
  BY Layout DEF Fill, Span, Junk, StartTypeOK
<1> HIDE DEF bytes
<1>3. /\ RamTypeOK'
      /\ \A a \in Addresses :
           /\ mem[a] # Junk \/ a \in DOMAIN bytes => mem'[a] # Junk
           /\ mem[a] # Junk /\ ram[a] # Junk => ram'[a] # Junk
           /\ a \notin Cacheable \/ ~dcache => ram'[a] = mem'[a]
      /\ ~dcache => ram' = mem'
      /\ dcache' = dcache /\ stale' = stale
  BY <1>1, <1>2, StoreInitialises
<1> HIDE DEF next
<1>4. StartTypeOK'
  BY <1>1, <1>2, <1>3, Places DEF StartTypeOK, Stages, Filled, Tabled
<1>5. AtSlot' /\ SlotsFresh'
  BY <1>1 DEF AtSlot, SlotsFresh, SlotLoops
<1>6. Coherent'
  BY <1>1, <1>3 DEF Coherent
<1>7. Initialised'
  <2>1. ~por => \A a \in Sram \ Standby : mem'[a] # Junk /\ ram'[a] # Junk
    BY <1>3, Places DEF Initialised
  <2>2. stage = "RamInit" =>
          \A a \in Sram \ Standby : a < next => mem'[a] # Junk
    BY <1>2, <1>3, Places DEF Initialised
  <2>3. stage = "DTCM_Init" =>
          \A a \in Addresses \ Standby : a < next => mem'[a] # Junk
    BY <1>2, <1>3, Places DEF Initialised
  <2>4. stage = "RamInit" /\ ~por => BssStart <= next
    BY <1>2, Layout DEF Initialised
  <2>5. CASE stage' = "RamInit"
    BY <1>1, <2>1, <2>2, <2>4, <2>5 DEF Initialised, Filled, Tabled
  <2>6. CASE stage' = "DTCM_Init" /\ stage = "RamInit"
    <3>1. \A a \in Addresses \ Standby : a < SramEnd => mem'[a] # Junk
      BY <1>1, <1>2, <2>2, <2>6, Places
    <3> QED
      BY <1>1, <2>1, <2>6, <3>1, Places DEF Initialised, Filled, Tabled
  <2>7. CASE stage' = "DTCM_Init" /\ stage = "DTCM_Init"
    <3>1. SramEnd <= next
      BY <1>2, <2>7, Places DEF Initialised
    <3> QED
      BY <1>1, <2>1, <2>3, <2>7, <3>1 DEF Initialised, Filled, Tabled
  <2>8. CASE stage' = "Copy"
    <3>1. \A a \in Addresses \ Standby : mem'[a] # Junk
      BY <1>1, <1>2, <2>3, <2>8, Places DEF Addresses
    <3> QED
      BY <1>1, <2>1, <2>8, <3>1 DEF Initialised, Filled, Tabled
  <2> QED
    BY <1>1, <2>5, <2>6, <2>7, <2>8
<1>8. Loaded'
  <2>1. vtor = "rom"
    BY <1>1 DEF Loaded, Filled, Tabled, StartTypeOK
  <2>2. CASE stage' # "Copy"
    BY <1>1, <2>1, <2>2 DEF Loaded, Filled, Tabled
  <2>3. CASE stage' = "Copy"
    <3> DEFINE e == InitTable[1]
    <3>1. /\ e.ram \in Nat /\ e.size \in Nat
          /\ \A a \in Section(e) : a \in Nat /\ e.ram <= a
      <4>1. 1 \in 1 .. 4
        OBVIOUS
      <4> QED
        BY <4>1, Sections, Places
    <3>2. Copied(e, 0) = 0 /\ Copies(e) \in Nat /\ IsCopied(1, 0)'
      <4>1. \A a \in Section(e) : ~(a < e.ram + 0)
        BY <3>1
      <4>2. Copied(e, 0) = 0 /\ Copies(e) \in Nat
        BY <3>1, CopyFacts
      <4> QED
        BY <4>1, <4>2 DEF IsCopied
    <3>3. AreCopied(1)'
      BY DEF AreCopied
    <3> QED
      BY <1>1, <2>1, <2>3, <3>2, <3>3 DEF Loaded, Filled, Tabled
  <2> QED
    BY <2>2, <2>3
<1> QED
  BY <1>4, <1>5, <1>6, <1>7, <1>8

(* What a store between the two tables and the check of the caches keeps.   *)
LEMMA StoreKeeps ==
  ASSUME MemInv, NEW bytes, Store(bytes),
         \A a \in Addresses \cap DOMAIN bytes : bytes[a] \in Int /\ bytes[a] # Junk,
         stage \in {"Copy", "Zero", "SystemInit"}, stage' \in {stage, "CacheCheck"},
         i' \in Nat, j' \in Nat, vtor' = vtor, por' = por
  PROVE  (StartTypeOK /\ AtSlot /\ Coherent /\ SlotsFresh /\ Initialised)'
<1> USE DEF MemInv
<1>1. /\ RamTypeOK'
      /\ \A a \in Addresses :
           /\ mem[a] # Junk \/ a \in DOMAIN bytes => mem'[a] # Junk
           /\ mem[a] # Junk /\ ram[a] # Junk => ram'[a] # Junk
           /\ a \notin Cacheable \/ ~dcache => ram'[a] = mem'[a]
      /\ ~dcache => ram' = mem'
      /\ dcache' = dcache /\ stale' = stale
  BY StoreInitialises
<1>2. StartTypeOK'
  BY <1>1 DEF StartTypeOK, Stages, Filled, Tabled
<1>3. AtSlot' /\ SlotsFresh'
  BY <1>1 DEF AtSlot, SlotsFresh, SlotLoops
<1>4. Coherent'
  BY <1>1 DEF Coherent
<1>5. Initialised'
  BY <1>1, Places DEF Initialised, Filled, Tabled
<1> QED
  BY <1>2, <1>3, <1>4, <1>5

(* What the steps between two sections keep.                               *)
LEMMA NextKeeps ==
  ASSUME MemInv, UNCHANGED <<ramVars, por>>,
         stage \in {"Copy", "Zero"}, stage' \in {"Copy", "Zero", "SystemInit"},
         i' \in Nat, j' \in Nat, vtor' \in {"rom", "ram"}
  PROVE  (StartTypeOK /\ AtSlot /\ Coherent /\ SlotsFresh /\ Initialised)'
<1> USE DEF MemInv, ramVars
<1>1. StartTypeOK'
  BY DEF StartTypeOK, RamTypeOK, Stages, Filled, Tabled
<1>2. AtSlot' /\ SlotsFresh' /\ Coherent'
  BY DEF AtSlot, SlotsFresh, SlotLoops, Coherent
<1>3. Initialised'
  BY DEF Initialised, Filled, Tabled
<1> QED
  BY <1>1, <1>2, <1>3

(* The VTOR of the last run has been left behind.                          *)
LEMMA VtorIsRom == MemInv /\ stage \in {"Copy", "Zero"} => vtor = "rom"
BY DEF MemInv, Loaded, StartTypeOK, Filled, Tabled

(* A store of the copy goes on in its section, and is in no other one.      *)
LEMMA CopyKeeps == MemInv /\ Copy => MemInv'
<1> SUFFICES ASSUME MemInv, Copy PROVE MemInv'
  OBVIOUS
<1> USE DEF MemInv
<1> DEFINE e == InitTable[i]
           bytes == [a \in CopySpan(e, j) |-> Image(a)]
           from == e.ram + Copied(e, j)
           to == e.ram + Copied(e, j + 1)
<1>1. /\ Store(bytes) /\ j < Copies(e)
      /\ stage = "Copy" /\ stage' = "Copy" /\ i' = i /\ j' = j + 1
      /\ vtor' = vtor /\ por' = por
  BY DEF Copy, Goto
<1>2. /\ i \in 1 .. 4 /\ j \in Nat
      /\ AreCopied(i) /\ IsCopied(i, Copied(e, j))
  BY <1>1 DEF Loaded, StartTypeOK
<1>3. e.ram \in Nat /\ e.size \in Nat
  BY <1>2, Sections
<1>4. /\ Copies(e) \in Nat /\ DOMAIN bytes = from .. to - 1
      /\ from \in Nat /\ to \in Nat /\ e.ram <= from
  <2>1. /\ Copies(e) \in Nat
        /\ \A k \in Nat :
             /\ Copied(e, k) \in Nat
             /\ CopySpan(e, k) = e.ram + Copied(e, k) .. e.ram + Copied(e, k + 1) - 1
    BY <1>3, CopyFacts
  <2> HIDE DEF e
  <2>2. /\ Copied(e, j) \in Nat
        /\ CopySpan(e, j) = e.ram + Copied(e, j) .. e.ram + Copied(e, j + 1) - 1
    BY <1>2, <2>1, Zenon
  <2>3. j + 1 \in Nat
    BY <1>2
  <2>4. Copied(e, j + 1) \in Nat
    BY <2>1, <2>3, Zenon
  <2>5. DOMAIN bytes = from .. to - 1
    <3>1. DOMAIN bytes = CopySpan(e, j)
      OBVIOUS
    <3> HIDE DEF bytes
    <3> QED
      BY <1>3, <2>2, <2>4, <3>1
  <2>6. from \in Nat /\ to \in Nat /\ e.ram <= from
    BY <1>3, <2>2, <2>4
  <2> QED
    BY <2>1, <2>5, <2>6
<1>5. \A a \in Addresses \cap DOMAIN bytes : bytes[a] \in Int /\ bytes[a] # Junk
  <2>1. \A a \in Addresses \cap DOMAIN bytes : bytes[a] = a + 1 /\ a \in Nat
    BY Places DEF Image
  <2> QED
    BY <2>1 DEF Junk
<1>6. \A a \in Addresses : mem'[a] = IF a \in from .. to - 1 THEN Image(a) ELSE mem[a]
  BY <1>1, <1>4, StoreDoes DEF StartTypeOK
<1>7. (StartTypeOK /\ AtSlot /\ Coherent /\ SlotsFresh /\ Initialised)'
  <2> HIDE DEF bytes
  <2>1. i' \in Nat /\ j' \in Nat
    BY <1>1, <1>2
  <2> QED
    BY <1>1, <1>5, <2>1, StoreKeeps
<1> HIDE DEF bytes, from, to
<1>8. Loaded'
  <2>1. j' \in Nat /\ j' <= Copies(e)
    BY <1>1, <1>2, <1>4
  <2>2. vtor' = "rom"
    BY <1>1, VtorIsRom
  <2>3. AreCopied(i)'
    <3> SUFFICES ASSUME NEW m \in 1 .. 4, m < i, NEW a \in Section(InitTable[m])
                 PROVE  mem'[a] = Image(a)
      BY <1>1 DEF AreCopied
    <3>1. /\ a \in Addresses /\ a \in Nat
          /\ a < InitTable[m].ram + InitTable[m].size
      BY Places
    <3>2. /\ InitTable[m].ram + InitTable[m].size <= e.ram
          /\ InitTable[m].ram + InitTable[m].size \in Nat
      BY <1>2, Sections
    <3>3. ~(from <= a)
      BY <1>3, <1>4, <3>1, <3>2
    <3>4. mem[a] = Image(a)
      BY <1>2 DEF AreCopied
    <3> QED
      BY <1>4, <1>6, <3>1, <3>3, <3>4
  <2>4. \A a \in Section(e) : a < to => mem'[a] = Image(a)
    <3> SUFFICES ASSUME NEW a \in Section(e), a < to PROVE mem'[a] = Image(a)
      OBVIOUS
    <3>1. a \in Addresses /\ a \in Nat
      BY <1>2, Places
    <3>2. CASE from <= a
      BY <1>4, <1>6, <3>1, <3>2
    <3>3. CASE a < from
      BY <1>2, <1>4, <1>6, <3>1, <3>3 DEF IsCopied, from
    <3> QED
      BY <1>4, <3>1, <3>2, <3>3
  <2>5. IsCopied(i, Copied(e, j))'
    BY <1>1, <2>4 DEF IsCopied, to
  <2> QED
    BY <1>1, <1>2, <2>1, <2>2, <2>3, <2>5 DEF Loaded, Filled, Tabled
<1> QED
  BY <1>7, <1>8

(* A section is copied when its last store is done.                         *)
LEMMA CopyNextKeeps == MemInv /\ CopyNext => MemInv'
<1> SUFFICES ASSUME MemInv, CopyNext PROVE MemInv'
  OBVIOUS
<1> USE DEF MemInv
<1>1. /\ stage = "Copy" /\ j = Copies(InitTable[i]) /\ i \in 1 .. 4
      /\ \/ i < 4 /\ stage' = "Copy" /\ i' = i + 1 /\ j' = 0
         \/ i = 4 /\ stage' = "Zero" /\ i' = 1 /\ j' = 0
      /\ UNCHANGED <<ramVars, vtor, por>>
  BY Tables DEF CopyNext, Goto, Loaded
<1>2. (StartTypeOK /\ AtSlot /\ Coherent /\ SlotsFresh /\ Initialised)'
  <2>1. i' \in Nat /\ j' \in Nat
    BY <1>1
  <2> QED
    BY <1>1, <2>1, NextKeeps DEF StartTypeOK
<1>3. vtor' = "rom" /\ mem' = mem
  BY <1>1, VtorIsRom DEF ramVars
<1>0. PICK n \in 1 .. 4 : n = i
  BY <1>1
<1>4. AreCopied(n + 1)
  <2> SUFFICES ASSUME NEW m \in 1 .. 4, m < n + 1, NEW a \in Section(InitTable[m])
               PROVE  mem[a] = Image(a)
    BY DEF AreCopied
  <2>1. CASE m < n
    BY <1>0, <1>1, <2>1 DEF Loaded, AreCopied
  <2>2. CASE m = n
    <3>1. InitTable[m].ram \in Nat /\ InitTable[m].size \in Nat
      BY Sections
    <3>2. Copied(InitTable[m], j) = InitTable[m].size
      BY <1>0, <1>1, <2>2, <3>1, CopyFacts
    <3>3. IsCopied(m, InitTable[m].size)
      BY <1>0, <1>1, <2>2, <3>2 DEF Loaded
    <3> QED
      BY <3>3, Places DEF IsCopied
  <2> QED
    BY <1>1, <2>1, <2>2
<1>5. Loaded'
  <2>1. CASE n < 4
    <3>1. n + 1 \in 1 .. 4 /\ i' = n + 1 /\ j' = 0 /\ stage' = "Copy"
      BY <1>0, <1>1, <2>1
    <3>2. InitTable[n + 1].ram \in Nat /\ InitTable[n + 1].size \in Nat
      BY <3>1, Sections
    <3>3. Copied(InitTable[n + 1], 0) = 0 /\ Copies(InitTable[n + 1]) \in Nat
      BY <3>2, CopyFacts
    <3>4. \A a \in Section(InitTable[n + 1]) : ~(a < InitTable[n + 1].ram + 0)
      <4>1. \A a \in Section(InitTable[n + 1]) : a \in Nat /\ InitTable[n + 1].ram <= a
        BY <3>1, Places
      <4> QED
        BY <3>2, <4>1
    <3>5. IsCopied(n + 1, 0)'
      BY <3>4 DEF IsCopied
    <3>6. AreCopied(n + 1)'
      BY <1>3, <1>4 DEF AreCopied
    <3>7. j' <= Copies(InitTable[n + 1])
      BY <3>1, <3>3
    <3> QED
      BY <1>3, <3>1, <3>3, <3>5, <3>6, <3>7 DEF Loaded, Filled, Tabled
  <2>2. CASE n = 4
    <3>1. AreCopied(5)'
      BY <1>3, <1>4, <2>2 DEF AreCopied
    <3>2. AreCleared(1)'
      BY DEF AreCleared
    <3>3. 0 * W = 0 /\ 0 <= Zeros(ZeroTable[1]) /\ ZeroTable[1].ram \in Nat
      BY Layout, Sections
    <3>4. IsCleared(1, 0 * W)'
      <4>0. 1 \in 1 .. 3
        OBVIOUS
      <4>1. \A a \in Section(ZeroTable[1]) : a \in Nat /\ ZeroTable[1].ram <= a
        BY <4>0, Places
      <4>2. \A a \in Section(ZeroTable[1]) : ~(a < ZeroTable[1].ram + 0)
        BY <3>3, <4>1
      <4> QED
        BY <3>3, <4>2 DEF IsCleared
    <3> QED
      BY <1>0, <1>1, <1>3, <2>2, <3>1, <3>2, <3>3, <3>4 DEF Loaded, Filled, Tabled
  <2> QED
    BY <2>1, <2>2
<1> QED
  BY <1>2, <1>5

(* What Zero clears is in no copied section, and goes on in its own.        *)
LEMMA ZeroKeeps == MemInv /\ Zero => MemInv'
<1> SUFFICES ASSUME MemInv, Zero PROVE MemInv'
  OBVIOUS
<1> USE DEF MemInv
<1> DEFINE e == ZeroTable[i]
           from == e.ram + j * W
           bytes == Fill(Span(from, W), 0)
           end == e.ram + Zeros(e) * W
<1>1. /\ Store(bytes) /\ stage = "Zero" /\ j < Zeros(e)
      /\ stage' = "Zero" /\ i' = i /\ j' = j + 1
      /\ vtor' = vtor /\ por' = por
  BY DEF Zero, Goto
<1>2. /\ i \in 1 .. 3 /\ j \in Nat
      /\ AreCopied(5) /\ AreCleared(i) /\ IsCleared(i, j * W)
  BY <1>1 DEF Loaded, StartTypeOK
<1>3. e.ram \in Nat /\ Zeros(e) \in Nat
  BY <1>2, Sections
<1>4. /\ from \in Nat /\ e.ram <= from /\ W \in Nat \ {0}
      /\ e.ram + (j + 1) * W = from + W
      /\ from + W <= end /\ end \in Nat
  <2> DEFINE zeros == Zeros(e)
  <2> HIDE DEF e, zeros
  <2>1. W \in Nat \ {0} /\ j * W \in Nat /\ (j + 1) * W = j * W + W
    BY <1>2, Layout
  <2>2. (j + 1) * W <= zeros * W /\ zeros * W \in Nat
    BY <1>1, <1>2, <1>3, <2>1 DEF zeros
  <2> QED
    BY <1>3, <2>1, <2>2 DEF zeros
<1>5. \A n \in 1 .. 4 : end <= InitTable[n].ram \/ InitTable[n].ram + InitTable[n].size <= e.ram
  BY <1>2, Sections
<1> HIDE DEF from, end
<1>6. /\ DOMAIN bytes = from .. from + W - 1
      /\ \A a \in Addresses \cap DOMAIN bytes : bytes[a] \in Int /\ bytes[a] # Junk
      /\ \A a \in DOMAIN bytes : bytes[a] = 0
  BY DEF Fill, Span, Junk
<1> HIDE DEF bytes
<1>7. \A a \in Addresses : mem'[a] = IF a \in from .. from + W - 1 THEN 0 ELSE mem[a]
  <2>1. \A a \in Addresses : mem'[a] = IF a \in DOMAIN bytes THEN bytes[a] ELSE mem[a]
    BY <1>1, StoreDoes DEF StartTypeOK
  <2> QED
    BY <1>6, <2>1
<1>8. (StartTypeOK /\ AtSlot /\ Coherent /\ SlotsFresh /\ Initialised)'
  <2>1. i' \in Nat /\ j' \in Nat
    BY <1>1, <1>2
  <2> QED
    BY <1>1, <1>6, <2>1, StoreKeeps
<1>9. AreCopied(5)'
  <2> SUFFICES ASSUME NEW n \in 1 .. 4, NEW a \in Section(InitTable[n]) PROVE mem'[a] = Image(a)
    BY DEF AreCopied
  <2>1. /\ a \in Addresses /\ a \in Nat
        /\ InitTable[n].ram <= a /\ a < InitTable[n].ram + InitTable[n].size
        /\ InitTable[n].ram \in Nat /\ InitTable[n].size \in Nat
    BY Places, Sections
  <2>2. a \notin from .. from + W - 1
    BY <1>3, <1>4, <1>5, <2>1
  <2>3. mem[a] = Image(a)
    BY <1>2 DEF AreCopied
  <2> QED
    BY <1>7, <2>1, <2>2, <2>3
<1>10. AreCleared(i)'
  <2> SUFFICES ASSUME NEW m \in 1 .. 3, m < i, NEW a \in Section(ZeroTable[m]) \ MpuTable
               PROVE  mem'[a] = 0
    BY <1>1 DEF AreCleared
  <2> QED
    BY <1>2, <1>7, Places DEF AreCleared
<1>11. IsCleared(i, j * W)'
  <2> SUFFICES ASSUME NEW a \in Section(e) \ MpuTable, a < from + W PROVE mem'[a] = 0
    BY <1>1, <1>4 DEF IsCleared
  <2>1. a \in Addresses /\ a \in Nat
    BY <1>2, Places
  <2>2. CASE from <= a
    BY <1>4, <1>7, <2>1, <2>2
  <2>3. CASE a < from
    BY <1>2, <1>7, <2>1, <2>3 DEF IsCleared, from
  <2> QED
    BY <1>4, <2>1, <2>2, <2>3
<1>12. Loaded'
  <2>1. vtor' = "rom" /\ j' <= Zeros(ZeroTable[i])
    BY <1>1, <1>2, <1>3, VtorIsRom
  <2> QED
    BY <1>1, <1>2, <1>9, <1>10, <1>11, <2>1 DEF Loaded, Filled, Tabled
<1> QED
  BY <1>8, <1>12

(* A section is cleared when its last store is done; after the last one    *)
(* the vectors may be used.                                                *)
LEMMA ZeroNextKeeps == MemInv /\ ZeroNext => MemInv'
<1> SUFFICES ASSUME MemInv, ZeroNext PROVE MemInv'
  OBVIOUS
<1> USE DEF MemInv
<1>1. /\ stage = "Zero" /\ j = Zeros(ZeroTable[i]) /\ i \in 1 .. 3
      /\ \/ i < 3 /\ stage' = "Zero" /\ i' = i + 1 /\ j' = 0 /\ vtor' = vtor
         \/ i = 3 /\ stage' = "SystemInit" /\ i' = 0 /\ j' = 0 /\ vtor' = "ram"
      /\ UNCHANGED <<ramVars, por>>
  BY Tables DEF ZeroNext, Goto, Loaded
<1>2. (StartTypeOK /\ AtSlot /\ Coherent /\ SlotsFresh /\ Initialised)'
  <2>1. i' \in Nat /\ j' \in Nat /\ vtor' \in {"rom", "ram"}
    BY <1>1 DEF StartTypeOK
  <2> QED
    BY <1>1, <2>1, NextKeeps
<1>3. AreCopied(5)' /\ mem' = mem
  BY <1>1 DEF Loaded, AreCopied, ramVars
<1>0. PICK n \in 1 .. 3 : n = i
  BY <1>1
<1>4. AreCleared(n + 1)
  <2> SUFFICES ASSUME NEW m \in 1 .. 3, m < n + 1, NEW a \in Section(ZeroTable[m]) \ MpuTable
               PROVE  mem[a] = 0
    BY DEF AreCleared
  <2>1. CASE m < n
    BY <1>0, <1>1, <2>1 DEF Loaded, AreCleared
  <2>2. CASE m = n
    <3> DEFINE start == ZeroTable[m].ram
               all == Zeros(ZeroTable[m]) * W
               size == ZeroTable[m].size
    <3>1. start \in Nat /\ size \in Nat /\ all \in Nat /\ size <= all
      BY Sections, Layout
    <3>2. a \in Nat /\ a < start + size
      BY Places
    <3>3. IsCleared(m, all)
      BY <1>0, <1>1, <2>2 DEF Loaded
    <3>4. a < start + all
      <4> HIDE DEF start, all, size
      <4> QED
        BY <3>1, <3>2
    <3> QED
      BY <3>3, <3>4 DEF IsCleared
  <2> QED
    BY <1>1, <2>1, <2>2
<1>5. Loaded'
  <2>1. CASE n < 3
    <3>1. n + 1 \in 1 .. 3 /\ i' = n + 1 /\ j' = 0 /\ stage' = "Zero" /\ vtor' = "rom"
      BY <1>0, <1>1, <2>1, VtorIsRom
    <3>2. ZeroTable[n + 1].ram \in Nat /\ 0 <= Zeros(ZeroTable[n + 1])
      BY <3>1, Sections
    <3>3. 0 * W = 0
      BY Layout
    <3>4. IsCleared(n + 1, 0 * W)'
      <4>1. \A a \in Section(ZeroTable[n + 1]) : a \in Nat /\ ZeroTable[n + 1].ram <= a
        BY <3>1, Places
      <4>2. \A a \in Section(ZeroTable[n + 1]) : ~(a < ZeroTable[n + 1].ram + 0)
        BY <3>2, <4>1
      <4> QED
        BY <3>3, <4>2 DEF IsCleared
    <3>5. AreCleared(n + 1)'
      BY <1>3, <1>4 DEF AreCleared
    <3> QED
      BY <1>3, <3>1, <3>2, <3>4, <3>5 DEF Loaded, Filled, Tabled
  <2>2. CASE n = 3
    <3>1. AreCleared(4)'
      BY <1>3, <1>4, <2>2 DEF AreCleared
    <3>2. AreStored(0)'
      BY DEF AreStored, RegionNumbers
    <3>3. VectorsCopied'
      BY <1>3, Places DEF AreCopied, VectorsCopied
    <3> QED
      BY <1>0, <1>1, <1>3, <2>2, <3>1, <3>2, <3>3 DEF Loaded, Filled, Tabled, RegionNumbers
  <2> QED
    BY <2>1, <2>2
<1> QED
  BY <1>2, <1>5

(* The entries of SystemInit's table are numbers.                          *)
LEMMA EntriesAreNat ==
  \A n \in RegionNumbers : RegionTable[n + 1].rbar \in Nat /\ RegionTable[n + 1].rasr \in Nat
BY SystemInitAssumption
DEF RegionNumbers, RegionTable, Region, Disabled, None, Code, Rom, Tcm, Ram, Shared, Device, Qspi

(* The stores of an entry are in rbar[] and rasr[], in no other entry and   *)
(* in no copied section.                                                   *)
LEMMA TableStoreKeeps == MemInv /\ TableStore => MemInv'
<1> SUFFICES ASSUME MemInv, TableStore PROVE MemInv'
  OBVIOUS
<1> USE DEF MemInv
<1> DEFINE base == RegionTable[i + 1].rbar
           rights == RegionTable[i + 1].rasr
           bytes == [a \in Rbar(i) \cup Rasr(i) |-> IF a \in Rbar(i) THEN base ELSE rights]
<1>1. /\ stage = "SystemInit" /\ Store(bytes) /\ vtor' = vtor /\ por' = por
      /\ \/ i < 15 /\ stage' = "SystemInit" /\ i' = i + 1 /\ j' = 0
         \/ ~(i < 15) /\ stage' = "CacheCheck" /\ i' = 0 /\ j' = 0
  BY DEF TableStore, Goto
<1>2. i \in RegionNumbers /\ AreCopied(5) /\ AreCleared(4) /\ AreStored(i)
  BY <1>1 DEF Loaded, Filled
<1>3. base \in Nat /\ rights \in Nat
  BY <1>2, EntriesAreNat
<1>4. DOMAIN bytes = Rbar(i) \cup Rasr(i)
  OBVIOUS
<1> HIDE DEF base, rights
<1>5. \A a \in DOMAIN bytes : /\ bytes[a] \in Nat
                              /\ a \in Rbar(i) => bytes[a] = base
                              /\ a \in Rasr(i) => bytes[a] = rights
  <2>1. Rbar(i) \cap Rasr(i) = {}
    BY <1>2, TablePlaces
  <2> QED
    BY <1>3, <2>1
<1> HIDE DEF bytes
<1>6. \A a \in Addresses : mem'[a] = IF a \in Rbar(i) \cup Rasr(i) THEN bytes[a] ELSE mem[a]
  BY <1>1, <1>4, StoreDoes DEF StartTypeOK
<1>7. (StartTypeOK /\ AtSlot /\ Coherent /\ SlotsFresh /\ Initialised)'
  <2>1. i' \in Nat /\ j' \in Nat /\ stage' \in {stage, "CacheCheck"}
    BY <1>1, <1>2 DEF RegionNumbers
  <2>2. \A a \in Addresses \cap DOMAIN bytes : bytes[a] \in Int /\ bytes[a] # Junk
    BY <1>5 DEF Junk
  <2> QED
    BY <1>1, <2>1, <2>2, StoreKeeps
<1>8. Rbar(i) \cup Rasr(i) \subseteq MpuTable /\ MpuTable \subseteq Bss
  BY <1>2, TablePlaces
<1>9. AreCopied(5)'
  <2> SUFFICES ASSUME NEW n \in 1 .. 4, NEW a \in Section(InitTable[n]) PROVE mem'[a] = Image(a)
    BY DEF AreCopied
  <2>1. a \in Addresses /\ a \in Nat /\ InitTable[n].ram <= a
    BY Places
  <2>2. BssStart + BssBytes <= InitTable[n].ram /\ InitTable[n].ram \in Nat
    <3>1. AlignUp(BssBytes, W) \in Nat /\ BssBytes <= AlignUp(BssBytes, W)
      BY Layout, AlignUpFacts
    <3>2. BssStart + AlignUp(BssBytes, W) <= InitTable[n].ram /\ InitTable[n].ram \in Nat
      BY Sections
    <3> QED
      BY <3>1, <3>2, Layout
  <2>3. a \notin Bss
    BY <2>1, <2>2, Places, Layout
  <2>4. mem[a] = Image(a)
    BY <1>2 DEF AreCopied
  <2> QED
    BY <1>6, <1>8, <2>1, <2>3, <2>4
<1>10. AreCleared(4)'
  <2> SUFFICES ASSUME NEW n \in 1 .. 3, NEW a \in Section(ZeroTable[n]) \ MpuTable
               PROVE  mem'[a] = 0
    BY DEF AreCleared
  <2> QED
    BY <1>2, <1>6, <1>8, Places DEF AreCleared
<1>0. PICK n \in RegionNumbers : n = i
  BY <1>2
<1>11. AreStored(n + 1)'
  <2> SUFFICES ASSUME NEW m \in RegionNumbers, m < n + 1
               PROVE  /\ \A a \in Rbar(m) : mem'[a] = RegionTable[m + 1].rbar
                      /\ \A a \in Rasr(m) : mem'[a] = RegionTable[m + 1].rasr
    BY DEF AreStored
  <2>1. \A a \in Rbar(m) \cup Rasr(m) : a \in Addresses
    BY TablePlaces, Places
  <2>2. CASE m < n
    <3>1. /\ \A a \in Rbar(m) : mem[a] = RegionTable[m + 1].rbar
          /\ \A a \in Rasr(m) : mem[a] = RegionTable[m + 1].rasr
      BY <1>0, <1>2, <2>2 DEF AreStored
    <3>2. (Rbar(m) \cup Rasr(m)) \cap (Rbar(i) \cup Rasr(i)) = {}
      BY <1>0, <1>2, <2>2, TablePlaces
    <3> QED
      BY <1>6, <2>1, <3>1, <3>2
  <2>3. CASE m = n
    BY <1>0, <1>4, <1>5, <1>6, <2>1, <2>3 DEF base, rights
  <2> QED
    BY <2>2, <2>3 DEF RegionNumbers
<1>12. VectorsCopied'
  BY <1>9, Places DEF AreCopied, VectorsCopied
<1>13. Loaded'
  <2>1. CASE i < 15
    <3>1. n + 1 \in RegionNumbers /\ i' = n + 1
      BY <1>0, <1>1, <2>1 DEF RegionNumbers
    <3> QED
      BY <1>1, <1>9, <1>10, <1>11, <1>12, <2>1, <3>1 DEF Loaded, Filled, Tabled
  <2>2. CASE ~(i < 15)
    <3>1. AreStored(16)'
      <4>1. n + 1 = 16
        BY <1>0, <2>2 DEF RegionNumbers
      <4> QED
        BY <1>11, <4>1
    <3> QED
      BY <1>1, <1>9, <1>10, <1>12, <2>2, <3>1 DEF Loaded, Filled, Tabled
  <2> QED
    BY <2>1, <2>2
<1> QED
  BY <1>7, <1>13

(*------------------------ the slots of the data cache ---------------------*)

(* The loops go through every slot: none is passed at the first, the next  *)
(* one passes the slot before, and at the last all others have been.       *)
LEMMA SlotOrder ==
  /\ FirstSlot \in Slots
  /\ \A slot \in Slots : ~Passed(slot, FirstSlot[1], FirstSlot[2])
  /\ \A slot \in Slots : Passed(slot, 0, 0) \/ slot = LastSlot
  /\ \A s, w \in Nat : <<s, w>> \in Slots /\ <<s, w>> # LastSlot =>
       /\ NextSlot(s, w) = <<NextSlot(s, w)[1], NextSlot(s, w)[2]>>
       /\ NextSlot(s, w) \in Slots
       /\ \A slot \in Slots : Passed(slot, NextSlot(s, w)[1], NextSlot(s, w)[2])
                                => Passed(slot, s, w) \/ slot = <<s, w>>
<1>1. Sets \in Nat \ {0} /\ Ways \in Nat \ {0}
  BY RamAssumption
<1>2. \A slot \in Slots : /\ slot[1] \in 0 .. Sets - 1 /\ slot[2] \in 0 .. Ways - 1
                          /\ slot = <<slot[1], slot[2]>>
  BY DEF Slots
<1>3. FirstSlot \in Slots
  BY <1>1 DEF FirstSlot, Slots
<1>4. \A slot \in Slots : ~Passed(slot, FirstSlot[1], FirstSlot[2])
  BY <1>1, <1>2 DEF FirstSlot, Passed
<1>5. \A slot \in Slots : Passed(slot, 0, 0) \/ slot = LastSlot
  BY <1>1, <1>2 DEF LastSlot, Passed
<1>6. ASSUME NEW s \in Nat, NEW w \in Nat, <<s, w>> \in Slots, <<s, w>> # LastSlot
      PROVE  /\ NextSlot(s, w) = <<NextSlot(s, w)[1], NextSlot(s, w)[2]>>
             /\ NextSlot(s, w) \in Slots
             /\ \A slot \in Slots : Passed(slot, NextSlot(s, w)[1], NextSlot(s, w)[2])
                                      => Passed(slot, s, w) \/ slot = <<s, w>>
  <2>1. s \in 0 .. Sets - 1 /\ w \in 0 .. Ways - 1 /\ ~(s = 0 /\ w = 0)
    BY <1>6 DEF Slots, LastSlot
  <2>2. CASE w > 0
    <3>1. NextSlot(s, w) = <<s, w - 1>>
      BY <2>2 DEF NextSlot
    <3>2. <<s, w - 1>> \in Slots
      <4>1. w - 1 \in 0 .. Ways - 1
        BY <1>1, <2>1, <2>2
      <4> QED
        BY <2>1, <4>1 DEF Slots
    <3>3. \A slot \in Slots : Passed(slot, s, w - 1) => Passed(slot, s, w) \/ slot = <<s, w>>
      BY <1>2, <2>1, <2>2 DEF Passed
    <3> QED
      BY <3>1, <3>2, <3>3
  <2>3. CASE w = 0
    <3>1. NextSlot(s, w) = <<s - 1, Ways - 1>>
      BY <2>3 DEF NextSlot
    <3>2. <<s - 1, Ways - 1>> \in Slots
      BY <1>1, <2>1, <2>3 DEF Slots
    <3>3. \A slot \in Slots : Passed(slot, s - 1, Ways - 1) => Passed(slot, s, w) \/ slot = <<s, w>>
      BY <1>1, <1>2, <2>1, <2>3 DEF Passed
    <3> QED
      BY <3>1, <3>2, <3>3
  <2> QED
    BY <2>1, <2>2, <2>3
<1> QED
  BY <1>3, <1>4, <1>5, <1>6

(* Every line of the cacheable SRAM has a slot.                            *)
LEMMA LineSlots ==
  /\ \A l \in Lines : SlotOf[l] \in Slots
  /\ \A a \in Cacheable : a \div LineBytes \in Lines
  /\ \A slot : Held(slot) \subseteq Cacheable
BY RamAssumption DEF Lines, Held

(*-------------------------- SystemInit, by steps --------------------------*)

(* The cache is cleaned if it is found on, else it is clean already.        *)
LEMMA CacheCheckKeeps == MemInv /\ CacheCheck => MemInv'
<1> SUFFICES ASSUME MemInv, CacheCheck PROVE MemInv'
  OBVIOUS
<1> USE DEF MemInv
<1>1. /\ stage = "CacheCheck"
      /\ \/ stage' = "Clean" /\ i' = FirstSlot[1] /\ j' = FirstSlot[2]
         \/ ~dcache /\ stage' = "Regions" /\ i' = 0 /\ j' = 0
      /\ UNCHANGED <<mem, ram, dcache, stale, vtor, por>>
  BY DEF CacheCheck, Goto, ramVars, StartTypeOK, RamTypeOK
<1>2. FirstSlot = <<FirstSlot[1], FirstSlot[2]>> /\ FirstSlot[1] \in Nat /\ FirstSlot[2] \in Nat
  BY RamAssumption DEF FirstSlot
<1>3. StartTypeOK'
  BY <1>1, <1>2 DEF StartTypeOK, RamTypeOK, Stages, Filled, Tabled
<1>4. AtSlot'
  BY <1>1, <1>2, SlotOrder DEF AtSlot, SlotLoops
<1>5. SlotsFresh'
  BY <1>1 DEF SlotsFresh
<1>6. Coherent'
  <2>1. \A a \in Cacheable : ~Passed(SlotOf[a \div LineBytes], FirstSlot[1], FirstSlot[2])
    BY LineSlots, SlotOrder
  <2> QED
    BY <1>1, <2>1 DEF Coherent
<1>7. Initialised'
  BY <1>1 DEF Initialised, Filled, Tabled
<1>8. Loaded'
  BY <1>1 DEF Loaded, Filled, Tabled, AreCopied, AreCleared, AreStored, VectorsCopied
<1> QED
  BY <1>3, <1>4, <1>5, <1>6, <1>7, <1>8

(* A set and way at a time: no slot gone over is dirty any more.            *)
LEMMA CleanKeeps == MemInv /\ CleanLoop => MemInv'
<1> SUFFICES ASSUME MemInv, CleanLoop PROVE MemInv'
  OBVIOUS
<1> USE DEF MemInv
<1> DEFINE slot == <<i, j>>
<1>1. /\ stage \in {"Clean", "CleanAgain"}
      /\ \/ slot # LastSlot /\ stage' = stage /\ i' = NextSlot(i, j)[1] /\ j' = NextSlot(i, j)[2]
         \/ slot = LastSlot /\ stage' = "CleanAgain" /\ i' = FirstSlot[1] /\ j' = FirstSlot[2]
         \/ slot = LastSlot /\ stage' = "ICacheOff" /\ i' = 0 /\ j' = 0
      /\ UNCHANGED <<mem, dcache, vtor, por>>
      /\ ram' = [a \in Addresses |-> IF a \in Held(slot) THEN mem[a] ELSE ram[a]]
      /\ stale' = stale \ At(slot)
  BY DEF CleanLoop, CleanSlot, Goto
<1>2. slot \in Slots /\ i \in Nat /\ j \in Nat
  BY <1>1 DEF AtSlot, SlotLoops, StartTypeOK
<1>3. /\ stage' \in SlotLoops => <<i', j'>> \in Slots
      /\ i' \in Nat /\ j' \in Nat
  <2>1. FirstSlot = <<FirstSlot[1], FirstSlot[2]>>
    BY DEF FirstSlot
  <2>2. <<i', j'>> \in Slots \/ (stage' = "ICacheOff" /\ i' = 0 /\ j' = 0)
    BY <1>1, <1>2, <2>1, SlotOrder
  <2> QED
    BY <2>2 DEF Slots, SlotLoops
<1>4. \A a \in Addresses : ram'[a] = IF a \in Held(slot) THEN mem[a] ELSE ram[a]
  BY <1>1
<1>5. mem \in [Addresses -> Int] /\ ram' \in [Addresses -> Int]
  BY <1>1 DEF StartTypeOK, RamTypeOK
<1>6. StartTypeOK'
  BY <1>1, <1>3, <1>5 DEF StartTypeOK, RamTypeOK, Stages, Filled, Tabled
<1>7. AtSlot' /\ SlotsFresh'
  BY <1>1, <1>3 DEF AtSlot, SlotsFresh
<1>8. Coherent'
  <2>1. \A a \in Addresses : mem[a] = ram[a] => mem[a] = ram'[a]
    BY <1>4
  <2>2. \A a \in Cacheable : \/ Passed(SlotOf[a \div LineBytes], i, j)
                             \/ SlotOf[a \div LineBytes] = slot
                          => mem[a] = ram'[a]
    BY <1>1, <1>4, <2>1, Places DEF Coherent, Held
  <2>3. \A a \in Addresses \ Cacheable : mem[a] = ram'[a]
    BY <2>1 DEF Coherent
  <2>4. ~dcache => mem = ram'
    BY <1>5, <2>1 DEF Coherent, StartTypeOK, RamTypeOK
  <2>5. CASE slot # LastSlot
    <3>1. \A a \in Cacheable : Passed(SlotOf[a \div LineBytes], i', j') => mem[a] = ram'[a]
      BY <1>1, <1>2, <2>2, <2>5, LineSlots, SlotOrder
    <3> QED
      BY <1>1, <2>3, <2>4, <2>5, <3>1 DEF Coherent
  <2>6. CASE slot = LastSlot
    <3>1. \A a \in Cacheable : mem[a] = ram'[a]
      <4>1. i = 0 /\ j = 0
        BY <2>6 DEF LastSlot
      <4> QED
        BY <2>2, <2>6, <4>1, LineSlots, SlotOrder
    <3>2. mem = ram'
      BY <1>5, <2>3, <3>1
    <3> QED
      BY <1>1, <2>6, <3>2 DEF Coherent
  <2> QED
    BY <2>5, <2>6
<1>9. Initialised'
  <2>1. \A a \in Sram \ Standby : mem[a] # Junk /\ ram[a] # Junk => ram'[a] # Junk
    BY <1>4, Places
  <2> QED
    BY <1>1, <2>1 DEF Initialised, Filled, Tabled
<1>10. Loaded'
  BY <1>1 DEF Loaded, Filled, Tabled, AreCopied, AreCleared, AreStored, VectorsCopied
<1> QED
  BY <1>6, <1>7, <1>8, <1>9, <1>10

(* Turning off a clean cache changes nothing that the core reads.          *)
LEMMA DisableKeeps == MemInv /\ (ICacheDisable \/ DCacheDisable) => MemInv' /\ mem' = mem
<1> SUFFICES ASSUME MemInv, ICacheDisable \/ DCacheDisable PROVE MemInv' /\ mem' = mem
  OBVIOUS
<1> USE DEF MemInv
<1>1. CASE ICacheDisable
  <2>1. /\ stage = "ICacheOff" /\ stage' = "DCacheOff" /\ i' = 0 /\ j' = 0
        /\ UNCHANGED <<mem, ram, dcache, stale, vtor, por>>
    BY <1>1 DEF ICacheDisable, Goto, ramVars
  <2>2. StartTypeOK' /\ AtSlot' /\ SlotsFresh' /\ Coherent'
    BY <2>1
    DEF StartTypeOK, RamTypeOK, Stages, Filled, Tabled, AtSlot, SlotLoops, SlotsFresh, Coherent
  <2>3. Initialised'
    BY <2>1 DEF Initialised, Filled, Tabled
  <2>4. Loaded'
    BY <2>1 DEF Loaded, Filled, Tabled, AreCopied, AreCleared, AreStored, VectorsCopied
  <2> QED
    BY <2>1, <2>2, <2>3, <2>4
<1>2. CASE DCacheDisable
  <2>1. /\ stage = "DCacheOff" /\ stage' = "Regions" /\ i' = 0 /\ j' = 0
        /\ mem = ram /\ mem' = mem /\ ram' = ram /\ dcache' = FALSE /\ stale' = Lines
        /\ UNCHANGED <<vtor, por>>
    BY <1>2 DEF DCacheDisable, CacheOff, Goto, Coherent
  <2>2. StartTypeOK'
    BY <2>1 DEF StartTypeOK, RamTypeOK, Stages, Filled, Tabled
  <2>3. AtSlot' /\ SlotsFresh' /\ Coherent'
    BY <2>1 DEF AtSlot, SlotLoops, SlotsFresh, Coherent
  <2>4. Initialised'
    BY <2>1 DEF Initialised, Filled, Tabled
  <2>5. Loaded'
    BY <2>1 DEF Loaded, Filled, Tabled, AreCopied, AreCleared, AreStored, VectorsCopied
  <2> QED
    BY <2>1, <2>2, <2>3, <2>4, <2>5
<1> QED
  BY <1>1, <1>2

(* The MPU's registers are no memory.                                       *)
LEMMA RegionsKeep == MemInv /\ (RegionSet \/ RegionSkip \/ RegionsOn) => MemInv'
<1> SUFFICES ASSUME MemInv, RegionSet \/ RegionSkip \/ RegionsOn PROVE MemInv'
  OBVIOUS
<1> USE DEF MemInv
<1>1. /\ stage = "Regions"
      /\ \/ stage' = "Regions" /\ i' \in Nat /\ j' \in Nat
         \/ stage' = "Invalidate" /\ i' = FirstSlot[1] /\ j' = FirstSlot[2]
      /\ UNCHANGED <<mem, ram, dcache, stale, vtor, por>>
  BY DEF RegionSet, RegionSkip, AtGap, RegionsOn, Goto, ramVars, StartTypeOK
<1>2. /\ FirstSlot = <<FirstSlot[1], FirstSlot[2]>> /\ FirstSlot \in Slots
      /\ FirstSlot[1] \in Nat /\ FirstSlot[2] \in Nat
  BY RamAssumption, SlotOrder DEF FirstSlot
<1>3. StartTypeOK'
  BY <1>1, <1>2 DEF StartTypeOK, RamTypeOK, Stages, Filled, Tabled
<1>4. AtSlot'
  BY <1>1, <1>2 DEF AtSlot, SlotLoops
<1>5. SlotsFresh'
  BY <1>1, SlotOrder, LineSlots DEF SlotsFresh, StartTypeOK, RamTypeOK
<1>6. Coherent'
  BY <1>1 DEF Coherent
<1>7. Initialised'
  BY <1>1 DEF Initialised, Filled, Tabled
<1>8. Loaded'
  BY <1>1 DEF Loaded, Filled, Tabled, AreCopied, AreCleared, AreStored, VectorsCopied
<1> QED
  BY <1>3, <1>4, <1>5, <1>6, <1>7, <1>8

(* With the cache off nothing is lost by an invalidation.                  *)
LEMMA InvalidateKeeps == MemInv /\ InvalidateLoop => MemInv' /\ mem' = mem
<1> SUFFICES ASSUME MemInv, InvalidateLoop PROVE MemInv' /\ mem' = mem
  OBVIOUS
<1> USE DEF MemInv
<1> DEFINE slot == <<i, j>>
<1>1. /\ stage = "Invalidate"
      /\ \/ slot # LastSlot /\ stage' = stage /\ i' = NextSlot(i, j)[1] /\ j' = NextSlot(i, j)[2]
         \/ slot = LastSlot /\ stage' = "DCacheOn" /\ i' = 0 /\ j' = 0
      /\ UNCHANGED <<ram, dcache, vtor, por>>
      /\ mem' = [a \in Addresses |-> IF a \in Held(slot) THEN ram[a] ELSE mem[a]]
      /\ stale' = stale \ At(slot)
  BY DEF InvalidateLoop, InvalidateSlot, Goto
<1>2. slot \in Slots /\ i \in Nat /\ j \in Nat
  BY <1>1 DEF AtSlot, SlotLoops, StartTypeOK
<1>3. /\ stage' \in SlotLoops => <<i', j'>> \in Slots
      /\ i' \in Nat /\ j' \in Nat
  <2>1. <<i', j'>> \in Slots \/ (stage' = "DCacheOn" /\ i' = 0 /\ j' = 0)
    BY <1>1, <1>2, SlotOrder
  <2> QED
    BY <2>1 DEF Slots, SlotLoops
<1>4. ~dcache /\ mem = ram
  BY <1>1 DEF Coherent
<1>5. mem' = mem
  BY <1>1, <1>4 DEF StartTypeOK, RamTypeOK
<1>6. StartTypeOK'
  BY <1>1, <1>3, <1>5 DEF StartTypeOK, RamTypeOK, Stages, Filled, Tabled
<1>7. AtSlot'
  BY <1>3 DEF AtSlot
<1>8. SlotsFresh'
  <2>1. \A l \in stale : l \in Lines /\ ~Passed(SlotOf[l], i, j) /\ SlotOf[l] \in Slots
    BY <1>1, LineSlots DEF SlotsFresh, StartTypeOK, RamTypeOK
  <2>2. \A l \in stale' : l \in stale /\ SlotOf[l] # slot
    BY <1>1, <2>1 DEF At
  <2>3. CASE slot # LastSlot
    BY <1>1, <1>2, <2>1, <2>2, <2>3, SlotOrder DEF SlotsFresh
  <2>4. CASE slot = LastSlot
    <3>1. i = 0 /\ j = 0
      BY <2>4 DEF LastSlot
    <3>2. stale' = {}
      BY <2>1, <2>2, <2>4, <3>1, SlotOrder
    <3> QED
      BY <1>1, <2>4, <3>2 DEF SlotsFresh
  <2> QED
    BY <2>3, <2>4
<1>9. Coherent'
  BY <1>1, <1>4, <1>5 DEF Coherent
<1>10. Initialised'
  BY <1>1, <1>5 DEF Initialised, Filled, Tabled
<1>11. Loaded'
  BY <1>1, <1>5 DEF Loaded, Filled, Tabled, AreCopied, AreCleared, AreStored, VectorsCopied
<1> QED
  BY <1>5, <1>6, <1>7, <1>8, <1>9, <1>10, <1>11

(* No slot is stale when the cache comes on.                               *)
LEMMA EnableKeeps == MemInv /\ (DCacheEnable \/ ICacheEnable) => MemInv' /\ mem' = mem
<1> SUFFICES ASSUME MemInv, DCacheEnable \/ ICacheEnable PROVE MemInv' /\ mem' = mem
  OBVIOUS
<1> USE DEF MemInv
<1>1. CASE DCacheEnable
  <2>1. /\ stage = "DCacheOn" /\ stale = {}
        /\ stage' = "ICacheOn" /\ i' = 0 /\ j' = 0 /\ dcache' = TRUE
        /\ UNCHANGED <<ram, stale, vtor, por>>
        /\ mem' = [a \in Addresses |->
                     IF a \in Cacheable /\ a \div LineBytes \in stale THEN Junk ELSE mem[a]]
    BY <1>1 DEF DCacheEnable, CacheOn, Goto, SlotsFresh
  <2>2. mem' = mem /\ mem = ram
    BY <2>1 DEF StartTypeOK, RamTypeOK, Coherent
  <2>3. StartTypeOK'
    BY <2>1, <2>2 DEF StartTypeOK, RamTypeOK, Stages, Filled, Tabled
  <2>4. AtSlot' /\ SlotsFresh' /\ Coherent'
    BY <2>1, <2>2 DEF AtSlot, SlotLoops, SlotsFresh, Coherent
  <2>5. Initialised'
    BY <2>1, <2>2, Places DEF Initialised, Filled, Tabled
  <2>6. Loaded'
    BY <2>1, <2>2 DEF Loaded, Filled, Tabled, AreCopied, AreCleared, AreStored, VectorsCopied
  <2> QED
    BY <2>2, <2>3, <2>4, <2>5, <2>6
<1>2. CASE ICacheEnable
  <2>1. /\ stage = "ICacheOn" /\ stage' = "main" /\ i' = 0 /\ j' = 0
        /\ UNCHANGED <<mem, ram, dcache, stale, vtor, por>>
    BY <1>2 DEF ICacheEnable, Goto, ramVars
  <2>2. StartTypeOK' /\ AtSlot' /\ SlotsFresh' /\ Coherent'
    BY <2>1
    DEF StartTypeOK, RamTypeOK, Stages, Filled, Tabled, AtSlot, SlotLoops, SlotsFresh, Coherent
  <2>3. Initialised'
    BY <2>1 DEF Initialised, Filled, Tabled
  <2>4. Loaded'
    BY <2>1 DEF Loaded, Filled, Tabled, AreCopied, AreCleared, AreStored, VectorsCopied
  <2> QED
    BY <2>1, <2>2, <2>3, <2>4
<1> QED
  BY <1>1, <1>2

(*------------------ the program, the cache and the resets -----------------*)

(* The program may change what is its own: neither vectors nor the cache.   *)
LEMMA ProgramKeeps == MemInv /\ (main \/ AppWrite \/ AppClearsPor) => MemInv'
<1> SUFFICES ASSUME MemInv, main \/ AppWrite \/ AppClearsPor PROVE MemInv'
  OBVIOUS
<1> USE DEF MemInv
<1>1. CASE main
  <2>1. /\ stage = "main" /\ stage' = "running" /\ i' = 0 /\ j' = 0
        /\ UNCHANGED <<mem, ram, dcache, stale, vtor, por>>
    BY <1>1 DEF main, Goto, ramVars
  <2>2. StartTypeOK' /\ AtSlot' /\ SlotsFresh' /\ Coherent'
    BY <2>1
    DEF StartTypeOK, RamTypeOK, Stages, Filled, Tabled, AtSlot, SlotLoops, SlotsFresh, Coherent
  <2>3. Initialised'
    BY <2>1 DEF Initialised, Filled, Tabled
  <2>4. AreCopied(5)
    BY <2>1 DEF Loaded, Filled, Tabled
  <2>5. VectorsCopied'
    BY <2>1, <2>4, Places DEF AreCopied, VectorsCopied
  <2>6. Loaded'
    BY <2>1, <2>5 DEF Loaded, Filled, Tabled
  <2> QED
    BY <2>2, <2>3, <2>6
<1>2. CASE AppWrite
  <2>1. PICK section \in AppSections : Store(Fill(section, App))
    BY <1>2 DEF AppWrite
  <2>2. stage = "running" /\ UNCHANGED <<stage, i, j, vtor, por>>
    BY <1>2 DEF AppWrite, startVars
  <2>3. /\ DOMAIN Fill(section, App) = section
        /\ \A a \in section : Fill(section, App)[a] \in Int /\ Fill(section, App)[a] # Junk
    BY DEF Fill, App, Junk
  <2>4. /\ RamTypeOK'
        /\ \A a \in Addresses :
             /\ mem[a] # Junk \/ a \in section => mem'[a] # Junk
             /\ mem[a] # Junk /\ ram[a] # Junk => ram'[a] # Junk
             /\ a \notin Cacheable \/ ~dcache => ram'[a] = mem'[a]
        /\ ~dcache => ram' = mem'
        /\ dcache' = dcache /\ stale' = stale
    BY <2>1, <2>3, StoreInitialises
  <2>5. \A a \in Addresses \ section : mem'[a] = mem[a]
    BY <2>1, <2>3, StoreDoes DEF StartTypeOK
  <2>6. StartTypeOK' /\ AtSlot' /\ SlotsFresh'
    BY <2>2, <2>4 DEF StartTypeOK, AtSlot, SlotsFresh, SlotLoops
  <2>7. Coherent'
    BY <2>2, <2>4 DEF Coherent
  <2>8. Initialised'
    BY <2>2, <2>4, Places DEF Initialised, Filled, Tabled
  <2>9. VectorsCopied'
    <3>1. \A a \in section : a \in Sram
      <4>1. \A a \in Data : a \in Sram
        <5>1. 1 \in 1 .. 4 /\ Data = Section(InitTable[1])
          BY Places
        <5>2. \A a \in Section(InitTable[1]) :
                a \in Addresses /\ a < InitTable[1].ram + InitTable[1].size
          BY <5>1, Places
        <5>3. InitTable[1].ram + InitTable[1].size <= SramEnd
          BY Tables, Layout, Places
        <5>4. InitTable[1].ram + InitTable[1].size \in Nat
          BY Tables, Layout
        <5> DEFINE end == InitTable[1].ram + InitTable[1].size
        <5> HIDE DEF end
        <5>5. ASSUME NEW a \in Data PROVE a \in Addresses /\ a < SramEnd
          <6>1. a \in Section(InitTable[1])
            BY <5>1
          <6>2. a \in Addresses /\ a < end
            BY <5>2, <6>1 DEF end
          <6>3. end <= SramEnd /\ end \in Nat /\ SramEnd \in Nat /\ a \in Nat
            BY <5>3, <5>4, <6>2, Places DEF end
          <6> QED
            BY <6>2, <6>3
        <5> QED
          BY <5>5, Places
      <4> QED
        BY <4>1, Places DEF AppSections
    <3>2. \A a \in Vectors : a \in Addresses \ section
      BY <3>1, Places
    <3> QED
      BY <2>2, <2>5, <3>2 DEF Loaded, VectorsCopied
  <2>10. Loaded'
    BY <2>2, <2>9 DEF Loaded, Filled, Tabled
  <2> QED
    BY <2>6, <2>7, <2>8, <2>10
<1>3. CASE AppClearsPor
  <2>1. /\ stage = "running" /\ por' = FALSE
        /\ UNCHANGED <<mem, ram, dcache, stale, stage, i, j, vtor>>
    BY <1>3 DEF AppClearsPor, ramVars
  <2>2. StartTypeOK' /\ AtSlot' /\ SlotsFresh' /\ Coherent'
    BY <2>1 DEF StartTypeOK, RamTypeOK, AtSlot, SlotLoops, SlotsFresh, Coherent
  <2>3. Initialised'
    BY <2>1 DEF Initialised, Filled, Tabled
  <2>4. Loaded'
    BY <2>1 DEF Loaded, Filled, Tabled, VectorsCopied
  <2> QED
    BY <2>2, <2>3, <2>4
<1> QED
  BY <1>1, <1>2, <1>3

(* A write-back brings the memory nearer to what the core reads.           *)
LEMMA EvictKeeps ==
  ASSUME NEW l \in Lines, MemInv, Evict(l), UNCHANGED startVars
  PROVE  MemInv'
<1> USE DEF MemInv
<1>1. /\ UNCHANGED <<mem, dcache, stale, stage, i, j, vtor, por>>
      /\ ram' = [a \in Addresses |-> IF a \in Held(SlotOf[l]) THEN mem[a] ELSE ram[a]]
  BY DEF Evict, startVars
<1>2. /\ mem \in [Addresses -> Int] /\ ram' \in [Addresses -> Int]
      /\ \A a \in Addresses : ram'[a] = mem[a] \/ ram'[a] = ram[a]
      /\ ram = mem => ram' = mem
  BY <1>1 DEF StartTypeOK, RamTypeOK
<1>3. StartTypeOK' /\ AtSlot' /\ SlotsFresh'
  BY <1>1, <1>2 DEF StartTypeOK, RamTypeOK, AtSlot, SlotsFresh
<1>4. Coherent'
  BY <1>1, <1>2, Places DEF Coherent
<1>5. Initialised'
  BY <1>1, <1>2, Places DEF Initialised
<1>6. Loaded'
  BY <1>1 DEF Loaded, IsCopied, IsCleared, AreCopied, AreCleared, AreStored, VectorsCopied
<1> QED
  BY <1>3, <1>4, <1>5, <1>6

(* Every reset that leaves POR alone keeps the SRAM.                       *)
LEMMA ResetKeeps == MemInv /\ AnyReset => MemInv'
<1> SUFFICES ASSUME MemInv, AnyReset PROVE MemInv'
  OBVIOUS
<1> USE DEF MemInv
<1>1. CASE Handover
  <2>1. /\ stage = "running" /\ stage' = "Reset_Handler" /\ i' = 0 /\ j' = 0
        /\ UNCHANGED <<mem, ram, dcache, stale, vtor, por>>
    BY <1>1 DEF Handover, Goto, ramVars
  <2>2. StartTypeOK' /\ AtSlot' /\ SlotsFresh' /\ Coherent'
    BY <2>1
    DEF StartTypeOK, RamTypeOK, Stages, Filled, Tabled, AtSlot, SlotLoops, SlotsFresh, Coherent
  <2>3. Initialised'
    BY <2>1 DEF Initialised, Filled, Tabled
  <2>4. Loaded'
    BY <2>1 DEF Loaded, Filled, Tabled, VectorsCopied
  <2> QED
    BY <2>2, <2>3, <2>4
<1>2. CASE PowerOn \/ FunctionalReset \/ StandbyExit
  <2>1. PICK kept \in {{}, Sram, Addresses} :
          /\ RamReset(kept)
          /\ por' = TRUE \/ (Sram \subseteq kept /\ por' = por)
    BY <1>2, Places DEF PowerOn, FunctionalReset, StandbyExit
  <2>2. stage' = "Reset_Handler" /\ i' = 0 /\ j' = 0 /\ vtor' = "rom"
    BY <1>2 DEF PowerOn, FunctionalReset, StandbyExit, CoreReset, Goto
  <2>3. /\ ram' = [a \in Addresses |-> IF a \in kept THEN ram[a] ELSE Junk]
        /\ mem' = ram' /\ dcache' = FALSE /\ stale' = Lines
    BY <2>1 DEF RamReset
  <2>4. ram' \in [Addresses -> Int]
    <3>1. \A a \in Addresses : (IF a \in kept THEN ram[a] ELSE Junk) \in Int
      BY DEF StartTypeOK, RamTypeOK, Junk
    <3> QED
      BY <2>3, <3>1
  <2>5. StartTypeOK' /\ AtSlot' /\ SlotsFresh' /\ Coherent'
    BY <2>1, <2>2, <2>3, <2>4
    DEF StartTypeOK, RamTypeOK, Stages, Filled, Tabled, AtSlot, SlotLoops, SlotsFresh, Coherent
  <2>6. Initialised'
    <3>1. ~por' => \A a \in Sram \ Standby : ram'[a] = ram[a] /\ ram[a] # Junk
      BY <2>1, <2>3, Places DEF Initialised, StartTypeOK
    <3> QED
      BY <2>2, <2>3, <3>1 DEF Initialised, Filled, Tabled
  <2>7. Loaded'
    BY <2>2 DEF Loaded, Filled, Tabled
  <2> QED
    BY <2>5, <2>6, <2>7
<1> QED
  BY <1>1, <1>2 DEF AnyReset

(* MemInv is inductive: one lemma for each step of the startup.             *)
LEMMA StepMemInv == MemInv /\ [Next]_vars => MemInv'
<1> SUFFICES ASSUME MemInv, [Next]_vars PROVE MemInv'
  OBVIOUS
<1>0. ASSUME UNCHANGED <<ramVars, startVars>> PROVE MemInv'
  BY <1>0 DEF ramVars, startVars, MemInv, StartTypeOK, RamTypeOK, AtSlot, Coherent, SlotsFresh,
              Initialised, Loaded, IsCopied, IsCleared, AreCopied, AreCleared, AreStored,
              VectorsCopied
<1>1. CASE StartupStep
  BY <1>1, SetVTORKeeps, RamInitKeeps, CopyKeeps, CopyNextKeeps, ZeroKeeps, ZeroNextKeeps
  DEF StartupStep
<1>2. CASE SystemInitStep
  BY <1>2, TableStoreKeeps, CacheCheckKeeps, CleanKeeps, DisableKeeps, RegionsKeep,
     InvalidateKeeps, EnableKeeps
  DEF SystemInitStep
<1>3. CASE main \/ AppWrite \/ AppClearsPor
  BY <1>3, ProgramKeeps
<1>4. CASE \E l \in Lines : Evict(l) /\ UNCHANGED <<startVars, sysInitVars, excptVars>>
  BY <1>4, EvictKeeps
<1>5. CASE AnyReset
  BY <1>5, ResetKeeps
<1> QED
  BY <1>0, <1>1, <1>2, <1>3, <1>4, <1>5
  DEF Next, Thread, BootStep, AppExcpt, AppFaults, Stopped, vars

(* At the first power-on nothing has been written and the cache is off.     *)
LEMMA InitMemInv == Init => MemInv
<1> SUFFICES ASSUME Init PROVE MemInv
  OBVIOUS
<1>1. /\ mem = [a \in Addresses |-> Junk] /\ ram = mem
      /\ dcache = FALSE /\ stale = Lines
      /\ stage = "Reset_Handler" /\ i = 0 /\ j = 0 /\ vtor = "rom" /\ por = TRUE
  BY DEF Init, Fill
<1>2. StartTypeOK
  <2>1. Junk \in Int /\ [a \in Addresses |-> Junk] \in [Addresses -> Int]
    BY DEF Junk
  <2>2. RamTypeOK
    BY <1>1, <2>1 DEF RamTypeOK
  <2> QED
    BY <1>1, <2>2 DEF StartTypeOK, Stages, Filled, Tabled
<1> QED
  BY <1>1, <1>2
  DEF MemInv, AtSlot, SlotLoops, Coherent, SlotsFresh, Initialised, Loaded, Filled, Tabled

(* What the startup has done so far, whatever the reset it started from    *)
(* and the cache it found: the inductive invariant behind the three        *)
(* properties of the memory.                                               *)
THEOREM MemSafety == Spec => []MemInv
BY InitMemInv, StepMemInv, PTL DEF Spec

(* main finds the copied and the cleared sections, the table of regions in *)
(* .bss, and all the RAM but the standby data as the code promises         *)
(* (init_data_bss, RamInit, SystemInit), for every layout and every cache, *)
(* smaller than the memory before it or not.                               *)
THEOREM MainFindsMemory == Spec => []MemoryAsLinked
<1>1. MemInv => MemoryAsLinked
  <2> SUFFICES ASSUME MemInv, stage = "main" PROVE MemoryAsLinked
    BY DEF MemoryAsLinked
  <2>1. AreCopied(5) /\ AreCleared(4) /\ AreStored(16)
    BY DEF MemInv, Loaded, Filled, Tabled
  <2>2. \A n \in DOMAIN InitTable : \A a \in Section(InitTable[n]) : mem[a] = Image(a)
    BY <2>1, Tables DEF AreCopied
  <2>3. \A n \in DOMAIN ZeroTable : \A a \in Section(ZeroTable[n]) \ MpuTable : mem[a] = 0
    BY <2>1, Tables DEF AreCleared
  <2>4. \A n \in RegionNumbers : /\ \A a \in Rbar(n) : mem[a] = RegionTable[n + 1].rbar
                                 /\ \A a \in Rasr(n) : mem[a] = RegionTable[n + 1].rasr
    BY <2>1 DEF AreStored, RegionNumbers
  <2>5. \A a \in Addresses \ Standby : mem[a] # Junk
    BY DEF MemInv, Initialised, Filled, Tabled
  <2> QED
    BY <2>2, <2>3, <2>4, <2>5 DEF MemoryAsLinked
<1> QED
  BY <1>1, MemSafety, PTL

(* VTOR points at a vector table that is whole (SetVTOR, SET_VTOR_TCM).    *)
THEOREM VectorsStay == Spec => []VectorsAreIntact
<1>1. MemInv => VectorsAreIntact
  BY Places DEF MemInv, Loaded, VectorsCopied, VectorsAreIntact
<1> QED
  BY <1>1, MemSafety, PTL

(* A store of the startup, without a power-on to acknowledge, is above the *)
(* standby data.                                                           *)
LEMMA StoresAbove ==
  ASSUME MemInv, ~por, RamInit \/ DTCM_Init \/ Copy \/ Zero \/ TableStore
  PROVE  \A a \in Standby : mem'[a] = mem[a]
<1> USE DEF MemInv
<1>1. \A a \in Standby : a \in Addresses /\ a \in Nat /\ a < BssStart
  BY Places
<1>2. CASE RamInit \/ DTCM_Init
  <2> DEFINE bytes == Fill(Span(j, 2 * W), 0)
  <2>0. BssStart \in Nat /\ BssStart <= SramEnd /\ SramEnd \in Nat
    <3>1. AlignUp(BssBytes, W) \in Nat
      BY Layout, AlignUpFacts
    <3> QED
      BY <3>1, Layout, Places
  <2>1. Store(bytes) /\ BssStart <= j /\ j \in Nat
    BY <1>2, <2>0 DEF RamInit, DTCM_Init, Initialised, StartTypeOK
  <2>2. \A a \in DOMAIN bytes : j <= a
    BY <2>1, Layout DEF Fill, Span
  <2> HIDE DEF bytes
  <2>3. \A a \in Standby : a \notin DOMAIN bytes
    BY <1>1, <2>1, <2>2, Layout
  <2> QED
    BY <1>1, <2>1, <2>3, StoreDoes DEF StartTypeOK
<1>3. CASE Copy
  <2> DEFINE e == InitTable[i]
             bytes == [a \in CopySpan(e, j) |-> Image(a)]
  <2>1. Store(bytes) /\ i \in 1 .. 4 /\ j \in Nat
    BY <1>3 DEF Copy, Loaded, StartTypeOK
  <2>2. e.ram \in Nat /\ e.size \in Nat /\ BssStart <= e.ram
    <3>1. AlignUp(BssBytes, W) \in Nat
      BY Layout, AlignUpFacts
    <3>2. BssStart + AlignUp(BssBytes, W) <= e.ram
      BY <2>1, Sections
    <3> QED
      BY <2>1, <3>1, <3>2, Sections, Layout
  <2>3. DOMAIN bytes = CopySpan(e, j)
    OBVIOUS
  <2> HIDE DEF bytes, e
  <2>4. \A a \in CopySpan(e, j) : a \in Int /\ e.ram <= a
    <3>1. Copied(e, j) \in Nat
      BY <2>1, <2>2, CopyFacts
    <3>2. CopySpan(e, j) = e.ram + Copied(e, j) .. e.ram + Copied(e, j + 1) - 1
      BY <2>1, <2>2, CopyFacts, Zenon
    <3> QED
      BY <2>2, <3>1, <3>2
  <2>5. \A a \in Standby : a \notin DOMAIN bytes
    BY <1>1, <2>2, <2>3, <2>4, Layout
  <2> QED
    BY <1>1, <2>1, <2>5, StoreDoes DEF StartTypeOK
<1>4. CASE Zero
  <2> DEFINE e == ZeroTable[i]
             from == e.ram + j * W
             bytes == Fill(Span(from, W), 0)
  <2>1. Store(bytes) /\ i \in 1 .. 3
    BY <1>4 DEF Zero, Loaded
  <2>2. from \in Nat /\ BssStart <= from
    <3>1. j * W \in Nat /\ e.ram \in Nat /\ BssStart <= e.ram
      BY <2>1, Layout, Sections DEF StartTypeOK
    <3> QED
      BY <3>1, Layout
  <2> HIDE DEF from
  <2>3. \A a \in DOMAIN bytes : a \in Int /\ from <= a
    BY <2>2, Layout DEF Fill, Span
  <2> HIDE DEF bytes
  <2>4. \A a \in Standby : a \notin DOMAIN bytes
    BY <1>1, <2>2, <2>3, Layout
  <2> QED
    BY <1>1, <2>1, <2>4, StoreDoes DEF StartTypeOK
<1>5. CASE TableStore
  <2> DEFINE bytes == [a \in Rbar(i) \cup Rasr(i) |->
                         IF a \in Rbar(i) THEN RegionTable[i + 1].rbar ELSE RegionTable[i + 1].rasr]
  <2>1. Store(bytes) /\ i \in RegionNumbers
    BY <1>5 DEF TableStore, Loaded
  <2>2. DOMAIN bytes = Rbar(i) \cup Rasr(i)
    OBVIOUS
  <2> HIDE DEF bytes
  <2>3. \A a \in Standby : a \notin DOMAIN bytes
    BY <1>1, <2>1, <2>2, TablePlaces, Places, Layout
  <2> QED
    BY <1>1, <2>1, <2>3, StoreDoes DEF StartTypeOK
<1> QED
  BY <1>2, <1>3, <1>4, <1>5

(* The startup leaves the standby data alone, through both caches' upkeep  *)
(* and whatever the cache writes back (NO_INIT_STANDBY_REGION).            *)
THEOREM StandbyStays == Spec => StandbySurvives
<1>1. MemInv /\ [Next]_vars =>
        [stage \notin {"main", "running"} /\ ~por /\ ~AnyReset
           => \A a \in Standby : mem'[a] = mem[a]]_vars
  <2> SUFFICES ASSUME MemInv, Next, stage \notin {"main", "running"}, ~por, ~AnyReset
               PROVE  \A a \in Standby : mem'[a] = mem[a]
    OBVIOUS
  <2>0. ASSUME UNCHANGED mem PROVE \A a \in Standby : mem'[a] = mem[a]
    BY <2>0
  <2>1. CASE StartupStep
    <3>1. CASE RamInit \/ DTCM_Init \/ Copy \/ Zero
      BY <3>1, StoresAbove
    <3>2. CASE SetVTOR \/ CopyNext \/ ZeroNext
      BY <2>0, <3>2 DEF SetVTOR, CopyNext, ZeroNext, ramVars
    <3> QED
      BY <2>1, <3>1, <3>2 DEF StartupStep
  <2>2. CASE SystemInitStep
    <3>1. CASE TableStore
      BY <3>1, StoresAbove
    <3>2. CASE ICacheDisable \/ DCacheDisable \/ InvalidateLoop \/ DCacheEnable \/ ICacheEnable
      BY <2>0, <3>2, DisableKeeps, InvalidateKeeps, EnableKeeps
    <3>3. CASE CacheCheck \/ CleanLoop \/ RegionSet \/ RegionSkip \/ RegionsOn
      BY <2>0, <3>3
      DEF CacheCheck, CleanLoop, CleanSlot, RegionSet, RegionSkip, AtGap, RegionsOn, ramVars
    <3> QED
      BY <2>2, <3>1, <3>2, <3>3 DEF SystemInitStep
  <2>3. CASE \E l \in Lines : Evict(l)
    BY <2>0, <2>3 DEF Evict
  <2>4. CASE UNCHANGED ramVars
    BY <2>0, <2>4 DEF ramVars
  <2> QED
    BY <2>1, <2>2, <2>3, <2>4
    DEF Next, Thread, BootStep, main, AppWrite, AppClearsPor, AppExcpt, AppFaults, Stopped
<1> QED
  BY <1>1, MemSafety, PTL DEF Spec, StandbySurvives

(*----------------------------------- MPU ----------------------------------*)

\* The register that entry k of the table goes to, if it is in use, and the next one.
Place(k) == IF k <= 10 THEN k ELSE IF k <= 14 THEN k - 1 ELSE 13

\* What the registers hold when the table has been gone through.
Programmed ==
  [n \in RegionNumbers |-> IF n <= 9 THEN RegionTable[n + 1]
                           ELSE IF n <= 12 THEN RegionTable[n + 2] ELSE Disabled(0)]

(* Where the loop over the table is, what it has programmed, and that a     *)
(* start with the MPU on programs what is there.                            *)
MpuInv ==
  /\ mpu \in [RegionNumbers -> {Disabled(0)} \cup {Programmed[n] : n \in RegionNumbers}]
  /\ \A n \in RegionNumbers : mpu[n] \in {Disabled(0), Programmed[n]}
  /\ stage = "Regions" => /\ i \in 0 .. 16 /\ j = Place(i)
                          /\ \A n \in RegionNumbers : n < j => mpu[n] = Programmed[n]
  /\ mpuOn => mpu = Programmed

(* What the core reads back of the table is what SystemInit has stored.     *)
LEMMA EntryIsStored ==
  ASSUME MemInv, stage = "Regions", NEW n \in RegionNumbers
  PROVE  Entry(n) = RegionTable[n + 1]
<1>1. AreStored(16)
  BY DEF MemInv, Loaded, Tabled
<1>2. n < 16
  BY DEF RegionNumbers
<1>3. /\ mem[RbarStart + n * EntryBytes] = RegionTable[n + 1].rbar
      /\ mem[RasrStart + n * EntryBytes] = RegionTable[n + 1].rasr
  BY <1>1, <1>2, TablePlaces DEF AreStored
<1>4. RegionTable[n + 1] = [rbar |-> RegionTable[n + 1].rbar, rasr |-> RegionTable[n + 1].rasr]
  BY DEF RegionNumbers, RegionTable, Region, Disabled
<1> QED
  BY <1>3, <1>4 DEF Entry

\* What the MPU takes a register of these halves for.
Reads(base, upper, lower, kb, parts) ==
  LET r == Region(base, upper, lower)
  IN Enabled(r) /\ KB(r) = kb /\ Subregions(r) = parts /\ Rights(r) = upper

(* The words of the table, taken apart.                                     *)
LEMMA Fields ==
  ASSUME NEW base
  PROVE  /\ Reads(base, None, \h3F, 4194304, 8)
         /\ Reads(base, Tcm, \h1D, 32, 8)
         /\ Reads(base, Code, \h29, 2048, 8)
         /\ Reads(base, Rom, \h23, 256, 8)
         /\ Reads(base, Rom, \h19, 8, 8)
         /\ Reads(base, Tcm, \h1F, 64, 8)
         /\ Reads(base, Ram, \h1D, 32, 8)
         /\ Reads(base, Shared, \h1D, 32, 8)
         /\ Reads(base, Device, \hC02D, 8192, 6)
         /\ Reads(base, Device, \h13, 1, 8)
         /\ Reads(base, Qspi, \h35, 131072, 8)
         /\ Reads(base, Device, \h27, 1024, 8)
<1>1. /\ Reads(base, None, \h3F, 4194304, 8)
      /\ Reads(base, Tcm, \h1D, 32, 8)
      /\ Reads(base, Code, \h29, 2048, 8)
  BY SMT DEF Reads, Enabled, KB, Subregions, Rights, Region, Code, None, Tcm
<1>2. /\ Reads(base, Rom, \h23, 256, 8)
      /\ Reads(base, Rom, \h19, 8, 8)
      /\ Reads(base, Tcm, \h1F, 64, 8)
  BY SMT DEF Reads, Enabled, KB, Subregions, Rights, Region, Rom, Tcm
<1>3. /\ Reads(base, Ram, \h1D, 32, 8)
      /\ Reads(base, Shared, \h1D, 32, 8)
      /\ Reads(base, Device, \hC02D, 8192, 6)
  BY SMT DEF Reads, Enabled, KB, Subregions, Rights, Region, Device, Ram, Shared
<1>4. /\ Reads(base, Device, \h13, 1, 8)
      /\ Reads(base, Qspi, \h35, 131072, 8)
      /\ Reads(base, Device, \h27, 1024, 8)
  BY SMT DEF Reads, Enabled, KB, Subregions, Rights, Region, Device, Qspi
<1> QED
  BY <1>1, <1>2, <1>3, <1>4

(* The entries in use are the first ten and the next but one to three.      *)
LEMMA InUse ==
  \A k \in 0 .. 15 : Enabled(RegionTable[k + 1]) <=> k \in (0 .. 9) \cup (11 .. 13)
<1>1. /\ Enabled(RegionTable[1]) /\ Enabled(RegionTable[2]) /\ Enabled(RegionTable[3])
      /\ Enabled(RegionTable[4]) /\ Enabled(RegionTable[5]) /\ Enabled(RegionTable[6])
      /\ Enabled(RegionTable[7]) /\ Enabled(RegionTable[8]) /\ Enabled(RegionTable[9])
      /\ Enabled(RegionTable[10]) /\ Enabled(RegionTable[12]) /\ Enabled(RegionTable[13])
      /\ Enabled(RegionTable[14])
  BY SystemInitAssumption
  DEF RegionTable, Region, Enabled, None, Code, Rom, Tcm, Ram, Shared, Device, Qspi
<1>2. /\ ~Enabled(RegionTable[11]) /\ ~Enabled(RegionTable[15]) /\ ~Enabled(RegionTable[16])
  BY DEF RegionTable, Disabled, Enabled
<1> QED
  BY <1>1, <1>2

(* A step of the loop programs the register that its entry belongs to.      *)
LEMMA RegionStep ==
  ASSUME MemInv, MpuInv, RegionSet \/ RegionSkip
  PROVE  MpuInv'
<1>1. /\ stage = "Regions" /\ i \in 0 .. 15 /\ j = Place(i) /\ i' = i + 1
      /\ stage' = "Regions" /\ mpuOn' = mpuOn
  BY DEF RegionSet, RegionSkip, AtGap, MpuInv, sysInitVars, Goto
<1>2. Entry(i) = RegionTable[i + 1]
  BY <1>1, EntryIsStored DEF RegionNumbers
<1>3. CASE RegionSet
  <2>1. i \in (0 .. 9) \cup (11 .. 13)
    BY <1>1, <1>2, <1>3, InUse DEF RegionSet
  <2>2. /\ j \in RegionNumbers /\ RegionTable[i + 1] = Programmed[j]
        /\ j' = j + 1 /\ j + 1 = Place(i + 1)
    <3>1. j' = j + 1
      BY <1>3 DEF RegionSet, Goto
    <3>2. CASE i \in 0 .. 9
      BY <3>1, <3>2, <1>1 DEF Place, Programmed, RegionNumbers
    <3>3. CASE i \in 11 .. 13
      <4>1. j = i - 1 /\ j \in 10 .. 12 /\ j + 2 = i + 1 /\ j \in RegionNumbers
        BY <3>3, <1>1 DEF Place, RegionNumbers
      <4>2. Programmed[j] = RegionTable[j + 2]
        BY <4>1 DEF Programmed
      <4> QED
        BY <4>1, <4>2, <3>1, <3>3 DEF Place
    <3> QED
      BY <2>1, <3>2, <3>3
  <2>3. mpu' = [mpu EXCEPT ![j] = Programmed[j]]
    BY <1>2, <1>3, <2>2 DEF RegionSet
  <2> HIDE DEF Programmed
  <2>4. \A n \in RegionNumbers : mpu'[n] = IF n = j THEN Programmed[j] ELSE mpu[n]
    BY <2>3 DEF MpuInv
  <2>5. mpu' \in [RegionNumbers -> {Disabled(0)} \cup {Programmed[n] : n \in RegionNumbers}]
    BY <2>2, <2>3 DEF MpuInv
  <2>6. \A n \in RegionNumbers : n < j + 1 => mpu'[n] = Programmed[n]
    BY <2>2, <2>4, <1>1 DEF MpuInv, RegionNumbers
  <2>7. mpuOn => mpu' = Programmed
    BY <2>3 DEF MpuInv
  <2> QED
    BY <1>1, <2>2, <2>4, <2>5, <2>6, <2>7 DEF MpuInv
<1>4. CASE RegionSkip
  <2>1. i \in {10, 14, 15} /\ j' = j /\ mpu' = mpu
    BY <1>1, <1>2, <1>4, InUse DEF RegionSkip, AtGap, Goto, sysInitVars
  <2>2. j = Place(i + 1) /\ i + 1 \in 0 .. 16
    BY <1>1, <2>1 DEF Place
  <2> QED
    BY <1>1, <2>1, <2>2 DEF MpuInv
<1> QED
  BY <1>3, <1>4

(* The MPU comes on when all of the table is in the registers.              *)
LEMMA RegionsOnStep == MpuInv /\ RegionsOn => MpuInv'
<1> SUFFICES ASSUME MpuInv, RegionsOn PROVE MpuInv'
  OBVIOUS
<1>1. j = 13 /\ mpu' = mpu /\ stage' # "Regions"
  BY DEF RegionsOn, MpuInv, Place, Goto
<1>2. \A n \in RegionNumbers : n >= 13 => Programmed[n] = Disabled(0)
  BY DEF Programmed, RegionNumbers
<1>3. \A n \in RegionNumbers : mpu[n] = Programmed[n]
  <2> SUFFICES ASSUME NEW n \in RegionNumbers PROVE mpu[n] = Programmed[n]
    OBVIOUS
  <2>1. n < 13 \/ n >= 13
    BY DEF RegionNumbers
  <2>2. stage = "Regions"
    BY DEF RegionsOn
  <2> QED
    BY <1>1, <1>2, <2>1, <2>2 DEF MpuInv
<1>4. mpu = Programmed
  <2>1. Programmed = [n \in RegionNumbers |-> Programmed[n]]
    BY DEF Programmed
  <2>2. mpu = [n \in RegionNumbers |-> mpu[n]]
    BY DEF MpuInv
  <2> HIDE DEF Programmed
  <2> QED
    BY <1>3, <2>1, <2>2
<1> QED
  BY <1>1, <1>4 DEF MpuInv

(* The registers are programmed by SystemInit alone and cleared by resets.  *)
LEMMA StepMpu ==
  ASSUME MemInv, MpuInv, [Next]_vars
  PROVE  MpuInv'
<1>1. CASE RegionSet \/ RegionSkip
  BY <1>1, RegionStep
<1>2. CASE RegionsOn
  BY <1>2, RegionsOnStep
<1>3. CASE UNCHANGED <<mpu, mpuOn>> /\ stage' = "Regions" /\ i' = 0 /\ j' = 0
  <2>1. Place(0) = 0 /\ \A n \in RegionNumbers : ~(n < 0)
    BY DEF Place, RegionNumbers
  <2> HIDE DEF Programmed
  <2> QED
    BY <1>3, <2>1 DEF MpuInv
<1>4. CASE UNCHANGED <<mpu, mpuOn>> /\ (stage' # "Regions" \/ UNCHANGED <<stage, i, j>>)
  BY <1>4 DEF MpuInv
<1>5. CASE CoreReset
  BY <1>5 DEF CoreReset, Goto, MpuInv
<1>6. CASE StartupStep /\ UNCHANGED sysInitVars
  <2>1. stage' # "Regions"
    BY <1>6
    DEF StartupStep, SetVTOR, RamInit, DTCM_Init, Copy, CopyNext, Zero, ZeroNext, Goto
  <2> QED
    BY <2>1, <1>4, <1>6 DEF sysInitVars
<1>7. CASE \/ TableStore \/ CacheCheck \/ CleanLoop \/ ICacheDisable \/ DCacheDisable
           \/ InvalidateLoop \/ DCacheEnable \/ ICacheEnable
  BY <1>3, <1>4, <1>7
  DEF TableStore, CacheCheck, CleanLoop, ICacheDisable, DCacheDisable, InvalidateLoop, DCacheEnable,
      ICacheEnable, Goto, sysInitVars
<1> QED
  BY <1>1, <1>2, <1>4, <1>5, <1>6, <1>7
  DEF Next, Thread, BootStep, SystemInitStep, main, AppWrite, AppClearsPor, AppExcpt, AppFaults,
      Stopped, AnyReset, PowerOn, FunctionalReset, StandbyExit, Handover, Goto, startVars,
      sysInitVars, vars

(* The highest region that has an address decides about it.                 *)
LEMMA HighestDecides ==
  ASSUME NEW kb, NEW n \in RegionNumbers, Matches(mpu[n], kb),
         \A m \in RegionNumbers : m > n => ~Matches(mpu[m], kb)
  PROVE  RightsAt(kb) = Rights(mpu[n])
<1> DEFINE hits == {m \in RegionNumbers : Matches(mpu[m], kb)}
           First(m) == m \in hits /\ \A k \in hits : k <= m
<1>1. n \in hits /\ \A m \in hits : m <= n
  BY DEF RegionNumbers
<1>2. (CHOOSE m \in hits : \A k \in hits : k <= m) = n
  <2>1. (CHOOSE m \in hits : \A k \in hits : k <= m) = CHOOSE m : First(m)
    OBVIOUS
  <2>2. \A m : First(m) => m = n
    BY <1>1 DEF RegionNumbers
  <2>3. First(n)
    BY <1>1
  <2> HIDE DEF First
  <2>4. First(CHOOSE m : First(m))
    BY <2>3, Zenon
  <2> QED
    BY <2>1, <2>2, <2>4
<1>3. RightsAt(kb) = IF hits = {} THEN None
                     ELSE Rights(mpu[CHOOSE m \in hits : \A k \in hits : k <= m])
  BY DEF RightsAt
<1> HIDE DEF hits
<1> QED
  BY <1>1, <1>2, <1>3

(* Where a region is, and what it allows.                                   *)
LEMMA RegionMatches ==
  ASSUME NEW base \in Nat, NEW upper, NEW lower, NEW size \in Nat, NEW parts \in Nat,
         NEW kb \in Nat,
         Reads(base, upper, lower, size, parts)
  PROVE  /\ Matches(Region(base, upper, lower), kb)
              <=> base <= kb /\ kb < base + (size * parts) \div 8
         /\ Rights(Region(base, upper, lower)) = upper
<1> DEFINE r == Region(base, upper, lower)
<1>1. r.rbar = base
  BY DEF Region
<1>2. Enabled(r) /\ KB(r) = size /\ Subregions(r) = parts /\ Rights(r) = upper
  BY SMT DEF Reads
<1> HIDE DEF r
<1>3. Matches(r, kb) <=> base <= kb /\ kb < base + (size * parts) \div 8
  BY <1>1, <1>2, SMT DEF Matches
<1> QED
  BY <1>2, <1>3, SMT DEF r

(* What each register has once all are programmed.                          *)
LEMMA Registers ==
  ASSUME ~Lockstep, MpuInv, mpuOn, NEW kb \in Nat
  PROVE  /\ (Matches(mpu[0], kb) <=> kb < 4194304) /\ Rights(mpu[0]) = None
         /\ (Matches(mpu[1], kb) <=> kb < 32) /\ Rights(mpu[1]) = Tcm
         /\ (Matches(mpu[2], kb) <=> 4096 <= kb /\ kb < 6144) /\ Rights(mpu[2]) = Code
         /\ (Matches(mpu[3], kb) <=> 262144 <= kb /\ kb < 262400) /\ Rights(mpu[3]) = Rom
         /\ (Matches(mpu[4], kb) <=> 442368 <= kb /\ kb < 442376) /\ Rights(mpu[4]) = Rom
         /\ (Matches(mpu[5], kb) <=> 524288 <= kb /\ kb < 524352) /\ Rights(mpu[5]) = Tcm
         /\ (Matches(mpu[6], kb) <=> 528384 <= kb /\ kb < 528416) /\ Rights(mpu[6]) = Ram
         /\ (Matches(mpu[7], kb) <=> 528416 <= kb /\ kb < 528448) /\ Rights(mpu[7]) = Shared
         /\ (Matches(mpu[8], kb) <=> 528448 <= kb /\ kb < 528480) /\ Rights(mpu[8]) = Shared
         /\ (Matches(mpu[9], kb) <=> 1048576 <= kb /\ kb < 1054720) /\ Rights(mpu[9]) = Device
         /\ (Matches(mpu[10], kb) <=> 1687552 <= kb /\ kb < 1687553) /\ Rights(mpu[10]) = Device
         /\ (Matches(mpu[11], kb) <=> 1703936 <= kb /\ kb < 1835008) /\ Rights(mpu[11]) = Qspi
         /\ (Matches(mpu[12], kb) <=> 3670016 <= kb /\ kb < 3671040) /\ Rights(mpu[12]) = Device
         /\ \A n \in 13 .. 15 : ~Matches(mpu[n], kb)
<1>1. mpu = Programmed
  BY DEF MpuInv
<1>2. /\ mpu[0] = Region(0, None, \h3F)
      /\ mpu[1] = Region(0, Tcm, \h1D)
      /\ mpu[2] = Region(4096, Code, \h29)
      /\ mpu[3] = Region(262144, Rom, \h23)
      /\ mpu[4] = Region(442368, Rom, \h19)
      /\ mpu[5] = Region(524288, Tcm, \h1F)
      /\ mpu[6] = Region(528384, Ram, \h1D)
      /\ mpu[7] = Region(528416, Shared, \h1D)
      /\ mpu[8] = Region(528448, Shared, \h1D)
      /\ mpu[9] = Region(1048576, Device, \hC02D)
      /\ mpu[10] = Region(1687552, Device, \h13)
      /\ mpu[11] = Region(1703936, Qspi, \h35)
      /\ mpu[12] = Region(3670016, Device, \h27)
      /\ \A n \in 13 .. 15 : mpu[n] = Disabled(0)
  <2>1. \A n \in RegionNumbers :
          Programmed[n] = IF n <= 9 THEN RegionTable[n + 1]
                          ELSE IF n <= 12 THEN RegionTable[n + 2] ELSE Disabled(0)
    BY DEF Programmed
  <2>2. /\ RegionTable[1] = Region(0, None, \h3F)
        /\ RegionTable[2] = Region(0, Tcm, \h1D)
        /\ RegionTable[3] = Region(4096, Code, \h29)
        /\ RegionTable[4] = Region(262144, Rom, \h23)
        /\ RegionTable[5] = Region(442368, Rom, \h19)
        /\ RegionTable[6] = Region(524288, Tcm, \h1F)
        /\ RegionTable[7] = Region(528384, Ram, \h1D)
        /\ RegionTable[8] = Region(528416, Shared, \h1D)
        /\ RegionTable[9] = Region(528448, Shared, \h1D)
        /\ RegionTable[10] = Region(1048576, Device, \hC02D)
        /\ RegionTable[12] = Region(1687552, Device, \h13)
        /\ RegionTable[13] = Region(1703936, Qspi, \h35)
        /\ RegionTable[14] = Region(3670016, Device, \h27)
    BY DEF RegionTable
  <2> QED
    BY <1>1, <2>1, <2>2 DEF RegionNumbers
<1>3. /\ Reads(0, None, \h3F, 4194304, 8)
      /\ Reads(0, Tcm, \h1D, 32, 8)
      /\ Reads(4096, Code, \h29, 2048, 8)
      /\ Reads(262144, Rom, \h23, 256, 8)
      /\ Reads(442368, Rom, \h19, 8, 8)
      /\ Reads(524288, Tcm, \h1F, 64, 8)
      /\ Reads(528384, Ram, \h1D, 32, 8)
      /\ Reads(528416, Shared, \h1D, 32, 8)
      /\ Reads(528448, Shared, \h1D, 32, 8)
      /\ Reads(1048576, Device, \hC02D, 8192, 6)
      /\ Reads(1687552, Device, \h13, 1, 8)
      /\ Reads(1703936, Qspi, \h35, 131072, 8)
      /\ Reads(3670016, Device, \h27, 1024, 8)
  BY Fields
<1>4. ~Enabled(Disabled(0))
  BY DEF Enabled, Disabled
<1>5. (Matches(mpu[0], kb) <=> kb < 4194304) /\ Rights(mpu[0]) = None
  <2>1. mpu[0] = Region(0, None, \h3F) /\ Reads(0, None, \h3F, 4194304, 8)
    BY <1>2, <1>3, SMT
  <2> QED
    BY <2>1, RegionMatches, SMT
<1>6. (Matches(mpu[1], kb) <=> kb < 32) /\ Rights(mpu[1]) = Tcm
  <2>1. mpu[1] = Region(0, Tcm, \h1D) /\ Reads(0, Tcm, \h1D, 32, 8)
    BY <1>2, <1>3, SMT
  <2> QED
    BY <2>1, RegionMatches, SMT
<1>7. (Matches(mpu[2], kb) <=> 4096 <= kb /\ kb < 6144) /\ Rights(mpu[2]) = Code
  <2>1. mpu[2] = Region(4096, Code, \h29) /\ Reads(4096, Code, \h29, 2048, 8)
    BY <1>2, <1>3, SMT
  <2> QED
    BY <2>1, RegionMatches, SMT
<1>8. (Matches(mpu[3], kb) <=> 262144 <= kb /\ kb < 262400) /\ Rights(mpu[3]) = Rom
  <2>1. mpu[3] = Region(262144, Rom, \h23) /\ Reads(262144, Rom, \h23, 256, 8)
    BY <1>2, <1>3, SMT
  <2> QED
    BY <2>1, RegionMatches, SMT
<1>9. (Matches(mpu[4], kb) <=> 442368 <= kb /\ kb < 442376) /\ Rights(mpu[4]) = Rom
  <2>1. mpu[4] = Region(442368, Rom, \h19) /\ Reads(442368, Rom, \h19, 8, 8)
    BY <1>2, <1>3, SMT
  <2> QED
    BY <2>1, RegionMatches, SMT
<1>10. (Matches(mpu[5], kb) <=> 524288 <= kb /\ kb < 524352) /\ Rights(mpu[5]) = Tcm
  <2>1. mpu[5] = Region(524288, Tcm, \h1F) /\ Reads(524288, Tcm, \h1F, 64, 8)
    BY <1>2, <1>3, SMT
  <2> QED
    BY <2>1, RegionMatches, SMT
<1>11. (Matches(mpu[6], kb) <=> 528384 <= kb /\ kb < 528416) /\ Rights(mpu[6]) = Ram
  <2>1. mpu[6] = Region(528384, Ram, \h1D) /\ Reads(528384, Ram, \h1D, 32, 8)
    BY <1>2, <1>3, SMT
  <2> QED
    BY <2>1, RegionMatches, SMT
<1>12. (Matches(mpu[7], kb) <=> 528416 <= kb /\ kb < 528448) /\ Rights(mpu[7]) = Shared
  <2>1. mpu[7] = Region(528416, Shared, \h1D) /\ Reads(528416, Shared, \h1D, 32, 8)
    BY <1>2, <1>3, SMT
  <2> QED
    BY <2>1, RegionMatches, SMT
<1>13. (Matches(mpu[8], kb) <=> 528448 <= kb /\ kb < 528480) /\ Rights(mpu[8]) = Shared
  <2>1. mpu[8] = Region(528448, Shared, \h1D) /\ Reads(528448, Shared, \h1D, 32, 8)
    BY <1>2, <1>3, SMT
  <2> QED
    BY <2>1, RegionMatches, SMT
<1>14. (Matches(mpu[9], kb) <=> 1048576 <= kb /\ kb < 1054720) /\ Rights(mpu[9]) = Device
  <2>1. mpu[9] = Region(1048576, Device, \hC02D) /\ Reads(1048576, Device, \hC02D, 8192, 6)
    BY <1>2, <1>3, SMT
  <2> QED
    BY <2>1, RegionMatches, SMT
<1>15. (Matches(mpu[10], kb) <=> 1687552 <= kb /\ kb < 1687553) /\ Rights(mpu[10]) = Device
  <2>1. mpu[10] = Region(1687552, Device, \h13) /\ Reads(1687552, Device, \h13, 1, 8)
    BY <1>2, <1>3, SMT
  <2> QED
    BY <2>1, RegionMatches, SMT
<1>16. (Matches(mpu[11], kb) <=> 1703936 <= kb /\ kb < 1835008) /\ Rights(mpu[11]) = Qspi
  <2>1. mpu[11] = Region(1703936, Qspi, \h35) /\ Reads(1703936, Qspi, \h35, 131072, 8)
    BY <1>2, <1>3, SMT
  <2> QED
    BY <2>1, RegionMatches, SMT
<1>17. (Matches(mpu[12], kb) <=> 3670016 <= kb /\ kb < 3671040) /\ Rights(mpu[12]) = Device
  <2>1. mpu[12] = Region(3670016, Device, \h27) /\ Reads(3670016, Device, \h27, 1024, 8)
    BY <1>2, <1>3, SMT
  <2> QED
    BY <2>1, RegionMatches, SMT
<1>18. \A n \in 13 .. 15 : ~Matches(mpu[n], kb)
  BY <1>2, <1>4 DEF Matches
<1> QED
  BY <1>5, <1>6, <1>7, <1>8, <1>9, <1>10, <1>11,
     <1>12, <1>13, <1>14, <1>15, <1>16, <1>17, <1>18

(* The areas of the linker file, and what is behind them.                   *)
LEMMA Areas ==
  ASSUME ~Lockstep, MpuInv, mpuOn, NEW kb \in Nat
  PROVE  /\ kb \in 0 .. 31 => RightsAt(kb) = Tcm
         /\ kb \in 4096 .. 6143 => RightsAt(kb) = Code
         /\ kb \in 262144 .. 262399 => RightsAt(kb) = Rom
         /\ kb \in 442368 .. 442375 => RightsAt(kb) = Rom
         /\ kb \in 524288 .. 524351 => RightsAt(kb) = Tcm
         /\ kb \in 528384 .. 528415 => RightsAt(kb) = Ram
         /\ kb \in 528416 .. 528447 => RightsAt(kb) = Shared
         /\ kb \in 528448 .. 528479 => RightsAt(kb) = Shared
         /\ kb \in 1048576 .. 1054719 => RightsAt(kb) = Device
         /\ kb \in 3670016 .. 3671039 => RightsAt(kb) = Device
         /\ kb \in {32, 6144, 262400, 442376, 524352, 528480, 1054720, 3671040}
              => RightsAt(kb) = None
<1> USE HighestDecides, Registers, SMT DEF RegionNumbers
<1>1. kb \in 0 .. 31 => RightsAt(kb) = Tcm
  OBVIOUS
<1>2. kb \in 4096 .. 6143 => RightsAt(kb) = Code
  OBVIOUS
<1>3. kb \in 262144 .. 262399 => RightsAt(kb) = Rom
  OBVIOUS
<1>4. kb \in 442368 .. 442375 => RightsAt(kb) = Rom
  OBVIOUS
<1>5. kb \in 524288 .. 524351 => RightsAt(kb) = Tcm
  OBVIOUS
<1>6. kb \in 528384 .. 528415 => RightsAt(kb) = Ram
  OBVIOUS
<1>7. kb \in 528416 .. 528447 => RightsAt(kb) = Shared
  OBVIOUS
<1>8. kb \in 528448 .. 528479 => RightsAt(kb) = Shared
  OBVIOUS
<1>9. kb \in 1048576 .. 1054719 => RightsAt(kb) = Device
  OBVIOUS
<1>10. kb \in 3670016 .. 3671039 => RightsAt(kb) = Device
  OBVIOUS
<1>11. kb \in {32, 6144, 262400, 442376, 524352, 528480, 1054720, 3671040} => RightsAt(kb) = None
  OBVIOUS
<1> QED
  BY <1>1, <1>2, <1>3, <1>4, <1>5, <1>6, <1>7, <1>8, <1>9, <1>10, <1>11

(* Without lockstep, for which the linker file gives the TCMs their sizes,  *)
(* the MPU's regions fit the areas of the linker file from the moment the   *)
(* MPU is on, and through every later start that finds it on: whatever the  *)
(* cache was, the table that is read back is the one that was stored.       *)
THEOREM MpuFits ==
  ASSUME ~Lockstep
  PROVE  Spec => []MapFitsLinker
<1>1. Init => MpuInv
  BY DEF Init, MpuInv
<1>2. MemInv /\ MpuInv /\ [Next]_vars => MpuInv'
  BY StepMpu
<1>3. MpuInv => MapFitsLinker
  <2> SUFFICES ASSUME MpuInv, mpuOn PROVE MapFitsLinker
    BY DEF MapFitsLinker
  <2> HIDE DEF MpuInv
  <2>1. RightsAt(0) = Tcm /\ RightsAt(31) = Tcm
    BY Areas
  <2>2. RightsAt(4096) = Code /\ RightsAt(5967) = Code
    BY Areas
  <2>3. RightsAt(262144) = Rom /\ RightsAt(262271) = Rom
    BY Areas
  <2>4. RightsAt(442368) = Rom /\ RightsAt(442375) = Rom
    BY Areas
  <2>5. RightsAt(524288) = Tcm /\ RightsAt(524351) = Tcm
    BY Areas
  <2>6. RightsAt(528384) = Ram /\ RightsAt(528415) = Ram
    BY Areas
  <2>7. RightsAt(528416) = Shared /\ RightsAt(528447) = Shared
    BY Areas
  <2>8. RightsAt(528448) = Shared /\ RightsAt(528479) = Shared
    BY Areas
  <2>9. RightsAt(1048576) = Device /\ RightsAt(1054719) = Device
    BY Areas
  <2>10. RightsAt(3670016) = Device /\ RightsAt(3671039) = Device
    BY Areas
  <2>11. RightsAt(32) = None /\ RightsAt(6144) = None
    BY Areas
  <2>12. RightsAt(262400) = None /\ RightsAt(442376) = None
    BY Areas
  <2>13. RightsAt(524352) = None /\ RightsAt(528480) = None
    BY Areas
  <2>14. RightsAt(1054720) = None /\ RightsAt(3671040) = None
    BY Areas
  <2> QED
    BY <2>1, <2>2, <2>3, <2>4, <2>5, <2>6, <2>7, <2>8, <2>9, <2>10, <2>11, <2>12, <2>13, <2>14
    DEF MapFitsLinker
<1> QED
  BY <1>1, <1>2, <1>3, MemSafety, PTL DEF Spec

(*--------------------------------- types ----------------------------------*)

(* The registers after a reset.                                             *)
LEMMA NoRegions ==
  [n \in RegionNumbers |-> Disabled(0)] \in [RegionNumbers -> [rbar : Int, rasr : Int]]
<1>1. Disabled(0) \in [rbar : Int, rasr : Int]
  BY DEF Disabled
<1> QED
  BY <1>1, Zenon

(* A region is set to what is in the table, or a reset disables them all.   *)
LEMMA StepRegions ==
  ASSUME MemInv, MpuInv, SystemInitTypeOK, [Next]_vars
  PROVE  SystemInitTypeOK'
<1>1. CASE RegionSet
  <2>1. /\ mpu' = [mpu EXCEPT ![j] = Entry(i)] /\ mpuOn' = mpuOn /\ icache' = icache
        /\ stage = "Regions" /\ i < 16
    BY <1>1 DEF RegionSet
  <2>2. i \in RegionNumbers
    BY <2>1 DEF MpuInv, RegionNumbers
  <2>3. mem \in [Addresses -> Int]
    BY DEF MemInv, StartTypeOK, RamTypeOK
  <2>4. RbarStart + i * EntryBytes \in Addresses /\ RasrStart + i * EntryBytes \in Addresses
    BY <2>2, TablePlaces, Places
  <2>5. Entry(i) \in [rbar : Int, rasr : Int]
    BY <2>3, <2>4 DEF Entry
  <2> QED
    BY <2>1, <2>5 DEF SystemInitTypeOK
<1>2. CASE RegionsOn
  BY <1>2 DEF RegionsOn, SystemInitTypeOK
<1>3. CASE PowerOn \/ FunctionalReset \/ StandbyExit
  <2>1. CoreReset
    BY <1>3 DEF PowerOn, FunctionalReset, StandbyExit
  <2> QED
    BY <2>1, NoRegions, Zenon DEF CoreReset, SystemInitTypeOK
<1>4. CASE ICacheDisable \/ ICacheEnable
  BY <1>4 DEF ICacheDisable, ICacheEnable, SystemInitTypeOK
<1>5. ASSUME UNCHANGED sysInitVars PROVE SystemInitTypeOK'
  BY <1>5 DEF sysInitVars, SystemInitTypeOK
<1> QED
  BY <1>1, <1>2, <1>3, <1>4, <1>5
  DEF Next, Thread, BootStep, SystemInitStep, TableStore, CacheCheck, CleanLoop, DCacheDisable,
      RegionSkip, AtGap, InvalidateLoop, DCacheEnable, main, AppWrite, AppClearsPor, AppExcpt,
      AppFaults, Stopped, AnyReset, Handover, vars

(* The registers of the faults and the handlers' locals keep their types.   *)
LEMMA StepFaultTypes ==
  ASSUME ExcptTypeOK, [Next]_vars
  PROVE  ExcptTypeOK'
<1>1. CASE excpt_ena_all \/ excpt_dis_all
  BY <1>1 DEF excpt_ena_all, excpt_dis_all, ExcptTypeOK
<1>2. ASSUME NEW c \in Classes, NEW state \in {0, 1}, excpt_set(c, state) PROVE ExcptTypeOK'
  BY <1>2 DEF excpt_set, excpt_set_field, ExcptTypeOK
<1>3. ASSUME NEW c \in Classes, Fault(c) PROVE ExcptTypeOK'
  <2>1. Own[c] \in Handlers /\ "HardFault_Handler" \in Handlers
    BY Names DEF Handlers
  <2> QED
    BY <1>3, <2>1 DEF Fault, ExcptTypeOK
<1>4. CASE HandlerStep
  <2>1. CASE HandlerReads
    BY <2>1 DEF HandlerReads, ExcptTypeOK
  <2>2. CASE Breakpoint
    BY <2>2, Names DEF Breakpoint, ExcptTypeOK, Handlers
  <2> QED
    BY <1>4, <2>1, <2>2 DEF HandlerStep
<1>5. CASE Nmi \/ Unhandled
  BY <1>5 DEF Nmi, Unhandled, StopsIn, ExcptTypeOK, Handlers
<1>6. CASE ExcptReset
  BY <1>6 DEF ExcptReset, ExcptTypeOK, Handlers
<1>7. ASSUME UNCHANGED excptVars PROVE ExcptTypeOK'
  BY <1>7 DEF excptVars, ExcptTypeOK
<1>8. DivideByZero => \E c \in Classes : Fault(c)
  BY DEF DivideByZero, Classes
<1> QED
  BY <1>1, <1>2, <1>3, <1>4, <1>5, <1>6, <1>7, <1>8
  DEF Next, Thread, BootStep, main, AppWrite, AppClearsPor, AppExcpt, AppFaults, Stopped,
      AnyReset, PowerOn, FunctionalReset, StandbyExit, CoreReset, Handover, vars

(* All variables of the startup, the MPU and the faults have their types.   *)
(* Those of the memory are part of MemInv: no store leaves the RAM.         *)
THEOREM Typing == Spec => []BootTypeOK
<1> DEFINE Types == MemInv /\ MpuInv /\ SystemInitTypeOK /\ ExcptTypeOK
<1>1. Init => Types
  <2> SUFFICES ASSUME Init PROVE Types
    OBVIOUS
  <2>1. SystemInitTypeOK
    BY NoRegions, Zenon DEF Init, SystemInitTypeOK
  <2>2. ExcptTypeOK
    BY DEF Init, ExcptInit, ExcptTypeOK, Handlers
  <2>3. MpuInv
    BY DEF Init, MpuInv
  <2> QED
    BY <2>1, <2>2, <2>3, InitMemInv
<1>2. Types /\ [Next]_vars => Types'
  BY StepMemInv, StepMpu, StepRegions, StepFaultTypes
<1>3. Types => BootTypeOK
  BY DEF MemInv, StartTypeOK, Stages, Filled, Tabled, BootTypeOK
<1> QED
  BY <1>1, <1>2, <1>3, PTL DEF Spec

==============================================================================
