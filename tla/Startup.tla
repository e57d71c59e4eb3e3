-------------------------------- MODULE Startup --------------------------------
(***************************************************************************)
(* From Reset_Handler to the call of SystemInit:                           *)
(* Project_Settings/Startup_Code/startup_cm7.s and init_data_bss of        *)
(* startup.c, one action per store or branch that changes memory, on a     *)
(* memory laid out as Linker_Files/linker_flash_s32k312.ld does, with a    *)
(* word of W bytes (4 on the device).  Of the ITCM, the clock and the      *)
(* watchdog registers, which no data depends on, nothing is kept, nor of   *)
(* .data_tcm_data, in which the repository places nothing, nor of          *)
(* init_data_bss_core2, which one core never calls.                        *)
(***************************************************************************)
EXTENDS Ram

CONSTANTS
  W,             \* bytes of a word; strd stores two
  StandbyBytes,  \* of .standby_data
  BssBytes,      \* of .bss and .mcal_bss
  DataBytes,     \* of .data and .mcal_data
  NcDataBytes,   \* of .non_cacheable_data, never empty: HSE_LOOP_ADDR is in it
  NcBssBytes,    \* of .non_cacheable_bss
  NcEnd,         \* of int_sram_no_cacheable, where int_sram_shareable starts
  ShDataBytes,   \* of .shareable_data
  ShBssBytes,    \* of .shareable_bss
  VectorBytes    \* of .int_vector, at the start of the DTCM

AlignUp(n, m) == ((n + m - 1) \div m) * m

BssStart == AlignUp(StandbyBytes, 4 * W)
BssEnd == BssStart + BssBytes
DataStart == AlignUp(BssEnd, W)
NcBssStart == AlignUp(CacheEnd + NcDataBytes, 4 * W)
ShBssStart == AlignUp(NcEnd + ShDataBytes, 4 * W)

ASSUME StartupAssumption ==
  /\ {W, StandbyBytes, BssBytes, DataBytes, VectorBytes} \subseteq Nat
  /\ {NcDataBytes, NcBssBytes, NcEnd, ShDataBytes, ShBssBytes} \subseteq Nat
  /\ W > 0
  /\ SramEnd % (2 * W) = 0 /\ RamEnd % (2 * W) = 0
  /\ DataStart + DataBytes <= CacheEnd
  /\ NcBssStart + AlignUp(NcBssBytes, W) <= NcEnd
  /\ ShBssStart + AlignUp(ShBssBytes, W) <= SramEnd
  /\ SramEnd + VectorBytes <= RamEnd

Span(start, size) == start .. start + size - 1
Standby == Span(0, StandbyBytes)
Bss == Span(BssStart, BssBytes)
Data == Span(DataStart, DataBytes)
Vectors == Span(SramEnd, VectorBytes)

(* The two tables, in the order of startup_cm7.s.                          *)
InitTable == <<
  [ram |-> DataStart, size |-> DataBytes],
  [ram |-> CacheEnd,  size |-> NcDataBytes],
  [ram |-> NcEnd,     size |-> ShDataBytes],
  [ram |-> SramEnd,   size |-> VectorBytes]>>
ZeroTable == <<
  [ram |-> ShBssStart, size |-> ShBssBytes],
  [ram |-> NcBssStart, size |-> NcBssBytes],
  [ram |-> BssStart,   size |-> BssBytes]>>
Section(e) == Span(e.ram, e.size)

(* The byte of the image that belongs at address a of a copied section.    *)
Image(a) == a + 1

VARIABLES
  stage,  \* of the boot, named after the label or function that is running
  i, j,   \* its loop counters
  vtor,   \* the vector table in use, "rom" or "ram"
  por     \* MC_RGM.DES[F_POR]

startVars == <<stage, i, j, vtor, por>>

Goto(s, a, b) == stage' = s /\ i' = a /\ j' = b

(* Faulty: the vector table stays where the last run left it.              *)
SetVTOR_Skipped ==
  /\ stage = "Reset_Handler"
  /\ Goto("RamInit", 0, IF por THEN 0 ELSE BssStart)
  /\ UNCHANGED <<ramVars, vtor, por>>

SetVTOR ==
  /\ stage = "Reset_Handler"
  /\ vtor' = "rom"
  /\ Goto("RamInit", 0, IF por THEN 0 ELSE BssStart)
  /\ UNCHANGED <<ramVars, por>>

RamInit ==
  /\ stage = "RamInit"
  /\ Store(Fill(Span(j, 2 * W), 0))
  /\ IF j + 2 * W < SramEnd THEN Goto(stage, 0, j + 2 * W) ELSE Goto("DTCM_Init", 0, SramEnd)
  /\ UNCHANGED <<vtor, por>>

DTCM_Init ==
  /\ stage = "DTCM_Init"
  /\ Store(Fill(Span(j, 2 * W), 0))
  /\ IF j + 2 * W < RamEnd THEN Goto(stage, 0, j + 2 * W) ELSE Goto("Copy", 1, 0)
  /\ UNCHANGED <<vtor, por>>

(* The j-th store of the copy of a section: words, then the bytes left.    *)
CopySpan(e, k) ==
  LET words == e.size \div W IN
  IF k < words THEN Span(e.ram + k * W, W) ELSE Span(e.ram + words * W + (k - words), 1)
Copies(e) == (e.size \div W) + (e.size % W)

Copy ==
  /\ stage = "Copy" /\ j < Copies(InitTable[i])
  /\ Store([a \in CopySpan(InitTable[i], j) |-> Image(a)])
  /\ Goto(stage, i, j + 1)
  /\ UNCHANGED <<vtor, por>>

CopyNext ==
  /\ stage = "Copy" /\ j = Copies(InitTable[i])
  /\ IF i < Len(InitTable) THEN Goto(stage, i + 1, 0) ELSE Goto("Zero", 1, 0)
  /\ UNCHANGED <<ramVars, vtor, por>>

(* A whole word is cleared for the bytes left, the last in the section.    *)
Zeros(e) == AlignUp(e.size, W) \div W

Zero ==
  /\ stage = "Zero" /\ j < Zeros(ZeroTable[i])
  /\ Store(Fill(Span(ZeroTable[i].ram + j * W, W), 0))
  /\ Goto(stage, i, j + 1)
  /\ UNCHANGED <<vtor, por>>

(* After the last section, VTOR moves to the copy of the vectors.          *)
ZeroNext ==
  /\ stage = "Zero" /\ j = Zeros(ZeroTable[i])
  /\ IF i < Len(ZeroTable)
     THEN Goto(stage, i + 1, 0) /\ UNCHANGED vtor
     ELSE Goto("SystemInit", 0, 0) /\ vtor' = "ram"
  /\ UNCHANGED <<ramVars, por>>

StartupStep == SetVTOR \/ RamInit \/ DTCM_Init \/ Copy \/ CopyNext \/ Zero \/ ZeroNext

==============================================================================
