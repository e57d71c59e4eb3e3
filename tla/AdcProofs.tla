------------------------------ MODULE AdcProofs ------------------------------
(***************************************************************************)
(* Proofs about Adc for every period of the two drivers, every set of     *)
(* samples and every speed of the converter.                               *)
(***************************************************************************)
EXTENDS Adc, TLAPS

(* pit_ms_to_ticks returns a uint32, whatever the product.                  *)
LEMMA MsToTicksIsUint32 ==
  ASSUME NEW ms \in Nat
  PROVE  pit_ms_to_ticks(ms) \in Uint32
<1> DEFINE product == ms * PitMsTicks
           width == MaxUint32 + 1
<1>1. product \in Nat /\ width \in Nat \ {0}
  BY PitAssumption
<1>2. pit_ms_to_ticks(ms) = product % width /\ Uint32 = 0 .. width - 1
  BY PitAssumption DEF pit_ms_to_ticks, Uint32
<1> HIDE DEF product, width
<1> QED
  BY <1>1, <1>2

(* pit_restart_timer touches no counter but that of its timer.              *)
LEMMA RestartType ==
  ASSUME PitTypeOK, NEW id, pit_restart_timer(id)
  PROVE  PitTypeOK'
<1>1. 0 \in Uint32
  BY PitAssumption DEF Uint32
<1> QED
  BY <1>1 DEF pit_restart_timer, PitTypeOK

(* Both timers fit the table, and nothing has been sampled.                 *)
LEMMA InitTypeOK == Init => TypeOK
<1> SUFFICES ASSUME Init PROVE TypeOK
  OBVIOUS
<1> USE PitAssumption, AdcAssumption
<1>1. /\ pit_ms_to_ticks(ADC_PERIOD_MS) \in Uint32
      /\ pit_ms_to_ticks(TEMT6000_PERIOD_MS) \in Uint32
  BY MsToTicksIsUint32
<1>2. limit \in [Ids -> Uint32]
  BY <1>1 DEF Init
<1>3. counter \in [Ids -> Uint32] /\ ntimers \in 0 .. TimersArraySize
  BY DEF Init, Uint32
<1> QED
  BY <1>2, <1>3 DEF Init, TypeOK, PitTypeOK

(* TypeOK is inductive.                                                     *)
LEMMA StepTypeOK == TypeOK /\ [Next]_vars => TypeOK'
<1> SUFFICES ASSUME TypeOK, [Next]_vars PROVE TypeOK'
  OBVIOUS
<1> USE DEF TypeOK
<1>1. CASE Tick
  BY <1>1, PitAssumption DEF Tick, pit_callback, PitTypeOK, Ids, Uint32
<1>2. CASE adc_end_of_chain_notif
  BY <1>2 DEF adc_end_of_chain_notif, pitVars, PitTypeOK
<1>3. CASE AdcPoll
  <2>1. PitTypeOK'
    BY <1>3, RestartType DEF AdcPoll, pitVars, PitTypeOK
  <2> QED
    BY <1>3, <2>1 DEF AdcPoll
<1>4. CASE AdcCheck
  BY <1>4 DEF AdcCheck, pitVars, PitTypeOK
<1>5. CASE StartConversion
  BY <1>5 DEF StartConversion, pitVars, PitTypeOK
<1>6. CASE FlagOngoing
  BY <1>6 DEF FlagOngoing, pitVars, PitTypeOK
<1>7. CASE temt6000_main
  <2>1. PitTypeOK'
    BY <1>7, RestartType DEF temt6000_main, pitVars, PitTypeOK
  <2>2. temt6000_read \in Nat
    BY AdcAssumption DEF temt6000_read
  <2> QED
    BY <1>7, <2>1, <2>2 DEF temt6000_main
<1>8. CASE UNCHANGED vars
  BY <1>8 DEF vars, PitTypeOK
<1> QED
  BY <1>1, <1>2, <1>3, <1>4, <1>5, <1>6, <1>7, <1>8 DEF Next, superloop, adc_main

(* The variables of the two drivers have their types, whatever the periods  *)
(* and the samples: the milliseconds become uint32 ticks and what is read   *)
(* is 0 or a sample.                                                       *)
THEOREM Typing == Spec => []TypeOK
BY InitTypeOK, StepTypeOK, PTL DEF Spec

(* While a conversion is in flight conv_st says so, or is about to be told. *)
InFlightIsFlagged == converting => conv_st = "ONGOING" \/ pc = "flag"

IInv == InFlightIsFlagged /\ NoOverlap

(* No conversion is in flight when the drivers have been initialised.       *)
LEMMA InitIInv == Init => IInv
BY DEF Init, IInv, InFlightIsFlagged, NoOverlap

(* Each step of the loop and each interrupt keeps the invariant.            *)
LEMMA StepIInv == IInv /\ [Next]_vars => IInv'
<1> SUFFICES ASSUME IInv, [Next]_vars PROVE IInv'
  OBVIOUS
<1> USE DEF IInv, InFlightIsFlagged, NoOverlap
<1>1. CASE Tick
  BY <1>1 DEF Tick
<1>2. CASE adc_end_of_chain_notif
  BY <1>2 DEF adc_end_of_chain_notif
<1>3. CASE AdcPoll
  BY <1>3 DEF AdcPoll
<1>4. CASE AdcCheck
  BY <1>4 DEF AdcCheck
<1>5. CASE StartConversion
  BY <1>5 DEF StartConversion
<1>6. CASE FlagOngoing
  BY <1>6 DEF FlagOngoing
<1>7. CASE temt6000_main
  BY <1>7 DEF temt6000_main
<1>8. CASE UNCHANGED vars
  BY <1>8 DEF vars
<1> QED
  BY <1>1, <1>2, <1>3, <1>4, <1>5, <1>6, <1>7, <1>8 DEF Next, superloop, adc_main

(* adc_main never starts a conversion over another one, wherever the        *)
(* end-of-chain interrupt falls: conv_st can be wrong in one direction only. *)
THEOREM OneAtATime == Spec => []NoOverlap
<1>1. IInv => NoOverlap
  BY DEF IInv
<1> QED
  BY InitIInv, StepIInv, <1>1, PTL DEF Spec

==============================================================================
