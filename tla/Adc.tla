---------------------------------- MODULE Adc ----------------------------------
(***************************************************************************)
(* src/src/adc.c and its only reader, src/src/temt6000.c.  adc_main starts *)
(* a conversion of the light sensor's voltage every ADC_PERIOD_MS and the  *)
(* end-of-chain interrupt stores the result; temt6000_main turns the last  *)
(* result into lux on a timer of its own.                                  *)
(*                                                                         *)
(* The interrupt may come between any two accesses of adc_main to          *)
(* adc.conv_st, in particular between the return of                        *)
(* Adc_Sar_Ip_StartConversion and the store that follows it.  The timers   *)
(* are those of Pit; their calls are one step here (PitPreempted).         *)
(***************************************************************************)
EXTENDS Pit

CONSTANTS
  ADC_PERIOD_MS,
  TEMT6000_PERIOD_MS,
  Samples  \* what Adc_Sar_Ip_GetConvData may return

ASSUME AdcAssumption ==
  /\ {ADC_PERIOD_MS, TEMT6000_PERIOD_MS} \subseteq Nat
  /\ Samples \subseteq Nat
  /\ TimersArraySize >= 2  \* adc_init and temt6000_init get a timer each

VARIABLES
  conv_st,     \* adc.conv_st
  raw_data,    \* adc.raw_data
  lux,         \* what temt6000_read returned last, in 1/1023 lux
  converting,  \* the converter has a conversion whose interrupt is to come
  slow,        \* whether every conversion outlasts the call that starts it
  pc           \* the superloop: about to enter adc_main, inside it, or past it

vars == <<counter, limit, ntimers, conv_st, raw_data, lux, converting,
          slow, pc>>

adc_rd_timer_id == 0
temt6000_rd_timer_id == 1

TypeOK ==
  /\ PitTypeOK
  /\ conv_st \in {"ONGOING", "DONE", "NONE"}
  /\ raw_data \in Samples \cup {0}
  /\ lux \in Nat
  /\ {converting, slow} \subseteq BOOLEAN
  /\ pc \in {"adc", "check", "start", "flag", "temt"}

(* 3.3 V over 1023 steps and 10 kOhm, 2 lux per microampere.                *)
temt6000_read == raw_data * 660

(* adc_init and temt6000_init: each has been given its timer.               *)
Init ==
  /\ counter = [i \in Ids |-> 0]
  /\ limit = [i \in Ids |-> pit_ms_to_ticks(IF i = adc_rd_timer_id
                                              THEN ADC_PERIOD_MS
                                              ELSE TEMT6000_PERIOD_MS)]
  /\ ntimers = 2
  /\ conv_st = "NONE"
  /\ raw_data = 0
  /\ lux = 0
  /\ converting = FALSE
  /\ slow \in BOOLEAN
  /\ pc = "adc"

Tick == pit_callback /\ UNCHANGED <<conv_st, raw_data, lux, converting, slow, pc>>

(* The end-of-chain interrupt.                                              *)
adc_end_of_chain_notif_NotDone ==  \* faulty: conv_st is left alone
  /\ converting
  /\ slow => pc # "flag"
  /\ raw_data' \in Samples
  /\ converting' = FALSE
  /\ UNCHANGED <<pitVars, conv_st, lux, slow, pc>>

adc_end_of_chain_notif ==
  /\ converting
  /\ slow => pc # "flag"
  /\ raw_data' \in Samples
  /\ conv_st' = "DONE"
  /\ converting' = FALSE
  /\ UNCHANGED <<pitVars, lux, slow, pc>>

(* adc_main, in four steps.                                                 *)
AdcPoll ==
  /\ pc = "adc"
  /\ IF pit_elapsed(adc_rd_timer_id)
       THEN pit_restart_timer(adc_rd_timer_id) /\ pc' = "check"
       ELSE UNCHANGED pitVars /\ pc' = "temt"
  /\ UNCHANGED <<conv_st, raw_data, lux, converting, slow>>

AdcCheck_Skipped ==  \* faulty: starts whatever conv_st says
  /\ pc = "check"
  /\ pc' = "start"
  /\ UNCHANGED <<pitVars, conv_st, raw_data, lux, converting, slow>>

AdcCheck ==
  /\ pc = "check"
  /\ pc' = IF conv_st = "ONGOING" THEN "temt" ELSE "start"
  /\ UNCHANGED <<pitVars, conv_st, raw_data, lux, converting, slow>>

StartConversion ==
  /\ pc = "start"
  /\ converting' = TRUE
  /\ pc' = "flag"
  /\ UNCHANGED <<pitVars, conv_st, raw_data, lux, slow>>

FlagOngoing ==
  /\ pc = "flag"
  /\ conv_st' = "ONGOING"
  /\ pc' = "temt"
  /\ UNCHANGED <<pitVars, raw_data, lux, converting, slow>>

adc_main == AdcPoll \/ AdcCheck \/ StartConversion \/ FlagOngoing

temt6000_main ==
  /\ pc = "temt"
  /\ IF pit_elapsed(temt6000_rd_timer_id)
       THEN lux' = temt6000_read /\ pit_restart_timer(temt6000_rd_timer_id)
       ELSE UNCHANGED <<lux, pitVars>>
  /\ pc' = "adc"
  /\ UNCHANGED <<conv_st, raw_data, converting, slow>>

superloop == adc_main \/ temt6000_main

Next == Tick \/ adc_end_of_chain_notif \/ superloop

(* The PIT ticks, conversions end, the superloop goes round.                *)
Fairness ==
  /\ WF_vars(Tick)
  /\ WF_vars(adc_end_of_chain_notif)
  /\ WF_vars(superloop)

Spec == Init /\ [][Next]_vars /\ Fairness

(*------------------------------ properties -------------------------------*)

(***************************************************************************)
(* A conversion is never started while another one is in flight, wherever  *)
(* the interrupt falls: conv_st may wrongly say that one is, never that    *)
(* none is (the check of adc_main).                                        *)
(***************************************************************************)
NoOverlap == pc = "start" => ~converting

(***************************************************************************)
(* Conversions never stop coming, each one with its interrupt, provided    *)
(* that they outlast the two statements that start and flag them (adc_main *)
(* and adc_end_of_chain_notif).                                            *)
(***************************************************************************)
ConversionsKeepComing == slow => []<><<adc_end_of_chain_notif>>_vars

(***************************************************************************)
(* adc_end_of_chain_notif is "called when ADC read ends" and clears the    *)
(* state, so between two calls of adc_main ADC_CONV_ONGOING means that a   *)
(* conversion is still to end.                                             *)
(***************************************************************************)
OngoingMeansInFlight ==
  pc = "adc" /\ conv_st = "ONGOING" => converting

==============================================================================
