---------------------------------- MODULE Excpt ----------------------------------
(***************************************************************************)
(* src/src/excpt.c: which faults have a handler of their own, and what the *)
(* handlers do, which is to read the fault status and stop.  Where the     *)
(* core goes on a fault is the core's: to the handler of the class if      *)
(* SHCSR enables it, to HardFault_Handler if not; a BKPT is a fault of its *)
(* own unless a debugger is there to take it.                              *)
(***************************************************************************)
EXTENDS Naturals

Classes == {"mem", "bus", "usage"}
Own == [mem |-> "MemManage_Handler", bus |-> "BusFault_Handler", usage |-> "UsageFault_Handler"]
FaultHandlers == {"HardFault_Handler"} \cup {Own[c] : c \in Classes}
Handlers == FaultHandlers \cup {"none", "NMI_Handler", "undefined_handler"}

VARIABLES
  shcsr,    \* the classes SHCSR enables
  traps,    \* CCR: division by zero and unaligned accesses fault
  handler,  \* the one running, or "none"
  hpc,      \* where in it: "entry", "bkpt", "spin"
  cfsr,     \* the classes CFSR reports; nothing in the program clears it
  hfsr,     \* why a hard fault was taken: "FORCED", "DEBUGEVT"
  locals,   \* what the handler running has read of the two
  asked,    \* the classes that the last call about them enabled
  fault     \* the class of the last fault, or "none"

excptVars == <<shcsr, traps, handler, hpc, cfsr, hfsr, locals, asked, fault>>

ExcptTypeOK ==
  /\ {shcsr, cfsr, asked} \subseteq SUBSET Classes
  /\ hfsr \subseteq {"FORCED", "DEBUGEVT"} /\ locals \subseteq cfsr \cup hfsr
  /\ traps \in BOOLEAN
  /\ handler \in Handlers /\ hpc \in {"entry", "bkpt", "spin"}
  /\ fault \in Classes \cup {"none"}

ExcptInit ==
  /\ shcsr = {} /\ traps = FALSE
  /\ handler = "none" /\ hpc = "spin"
  /\ cfsr = {} /\ hfsr = {} /\ locals = {}
  /\ asked = {} /\ fault = "none"

ExcptReset ==
  /\ shcsr' = {} /\ traps' = FALSE
  /\ handler' = "none" /\ hpc' = "spin"
  /\ cfsr' = {} /\ hfsr' = {} /\ locals' = {}
  /\ asked' = {} /\ fault' = "none"

excpt_ena_all ==
  /\ shcsr' = shcsr \cup Classes /\ asked' = asked \cup Classes
  /\ traps' = TRUE
  /\ UNCHANGED <<handler, hpc, cfsr, hfsr, locals, fault>>

(* The two traps stay on.                                                  *)
excpt_dis_all ==
  /\ shcsr' = shcsr \ Classes /\ asked' = asked \ Classes
  /\ UNCHANGED <<traps, handler, hpc, cfsr, hfsr, locals, fault>>

(* Faulty: the mask is not cleared first, so that 0 leaves the bit as it is. *)
excpt_set_field_OrOnly(mask, value) == shcsr' = shcsr \cup value

excpt_set_field(mask, value) == shcsr' = (shcsr \ mask) \cup value

(* excpt_set_mem, excpt_set_bus and excpt_set_usg.                         *)
excpt_set(c, state) ==
  /\ excpt_set_field({c}, IF state = 1 THEN {c} ELSE {})
  /\ asked' = IF state = 1 THEN asked \cup {c} ELSE asked \ {c}
  /\ UNCHANGED <<traps, handler, hpc, cfsr, hfsr, locals, fault>>

(* A fault of the thread.                                                  *)
Fault(c) ==
  /\ handler = "none"
  /\ cfsr' = cfsr \cup {c} /\ fault' = c
  /\ IF c \in shcsr THEN handler' = Own[c] /\ UNCHANGED hfsr
     ELSE handler' = "HardFault_Handler" /\ hfsr' = hfsr \cup {"FORCED"}
  /\ hpc' = "entry"
  /\ UNCHANGED <<shcsr, traps, locals, asked>>

(* A division by zero is a usage fault if it traps, and 0 if not.          *)
DivideByZero == traps /\ Fault("usage")

HandlerEntered == handler # "none" /\ hpc = "entry"

(* A handler's locals take the registers; the three go on to their BKPT.   *)
HandlerReads ==
  /\ HandlerEntered
  /\ locals' = cfsr \cup (IF handler = "HardFault_Handler" THEN hfsr ELSE {})
  /\ hpc' = IF handler = "HardFault_Handler" THEN "spin" ELSE "bkpt"
  /\ UNCHANGED <<shcsr, traps, handler, cfsr, hfsr, asked, fault>>

(* A debugger takes the BKPT and resumes, or there is none.                *)
Breakpoint ==
  /\ hpc = "bkpt"
  /\ \/ hpc' = "spin" /\ UNCHANGED <<handler, hfsr>>
     \/ hpc' = "entry" /\ handler' = "HardFault_Handler" /\ hfsr' = hfsr \cup {"DEBUGEVT"}
  /\ UNCHANGED <<shcsr, traps, cfsr, locals, asked, fault>>

StopsIn(h) ==
  /\ handler' = h /\ hpc' = "spin"
  /\ UNCHANGED <<shcsr, traps, cfsr, hfsr, locals, asked, fault>>

(* An NMI comes at any time; an interrupt that the program has no handler  *)
(* for, while no fault keeps it out.                                       *)
Nmi == handler # "NMI_Handler" /\ StopsIn("NMI_Handler")
Unhandled == handler = "none" /\ StopsIn("undefined_handler")

HandlerStep == HandlerReads \/ Breakpoint

==============================================================================
