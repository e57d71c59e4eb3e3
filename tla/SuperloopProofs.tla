---------------------------- MODULE SuperloopProofs ----------------------------
(***************************************************************************)
(* Proofs about Superloop, for every size of the pool of timers, width of  *)
(* the counters, length of a tick and set of bytes.                        *)
(***************************************************************************)
EXTENDS Superloop, SequenceTheorems, TLAPS

(*--------------------- the functions of pit.c they call -------------------*)

(* pit_ms_to_ticks returns a uint32, whatever the product.                  *)
LEMMA MsToTicksIsUint32 ==
  ASSUME NEW ms \in Nat
  PROVE  pit_ms_to_ticks(ms) \in Uint32
<1> DEFINE product == ms * PitMsTicks
           width == MaxUint32 + 1
<1>1. product \in Nat /\ width \in Nat \ {0}
  BY PitAssumption
<1>2. pit_ms_to_ticks(ms) = product % width /\ Uint32 = 0 .. width - 1
  BY PitAssumption DEF pit_ms_to_ticks, Uint32
<1> HIDE DEF product, width
<1> QED
  BY <1>1, <1>2

(* pit_add_timer hands out the next slot, or nothing when there is none.    *)
LEMMA AddTimerType ==
  ASSUME PitTypeOK, NEW period \in Uint32, NEW id, pit_add_timer(period, id)
  PROVE  /\ PitTypeOK'
         /\ \/ id = ntimers /\ id \in Ids /\ ntimers' = ntimers + 1
            \/ id = -1 /\ ntimers = TimersArraySize /\ UNCHANGED pitVars
<1> USE PitAssumption DEF Ids, Uint32, PitTypeOK
<1>1. CASE ntimers < TimersArraySize
  <2>1. /\ id = ntimers
        /\ counter' = [counter EXCEPT ![ntimers] = 0]
        /\ limit' = [limit EXCEPT ![ntimers] = period]
        /\ ntimers' = ntimers + 1
    BY <1>1 DEF pit_add_timer
  <2>2. ntimers \in Ids /\ ntimers' \in 0 .. TimersArraySize /\ 0 \in Uint32
    BY <1>1, <2>1
  <2>3. counter' \in [Ids -> Uint32] /\ limit' \in [Ids -> Uint32]
    BY <2>1, <2>2
  <2> QED
    BY <2>1, <2>2, <2>3
<1>2. CASE ntimers >= TimersArraySize
  BY <1>2 DEF pit_add_timer, pitVars
<1>3. ntimers < TimersArraySize \/ ntimers >= TimersArraySize
  OBVIOUS
<1> QED
  BY <1>1, <1>2, <1>3

(* pit_restart_timer touches no counter but that of its timer.              *)
LEMMA RestartType ==
  ASSUME PitTypeOK, NEW id, pit_restart_timer(id)
  PROVE  PitTypeOK'
<1>1. 0 \in Uint32
  BY PitAssumption DEF Uint32
<1> QED
  BY <1>1 DEF pit_restart_timer, PitTypeOK

(*------------------------- the order of the timers ------------------------*)

UartTimer == 4  \* the place of the UART's timer in BootOrder

(* Elements and length of a concatenation of two sequences given as         *)
(* functions.                                                               *)
LEMMA ConcatAt ==
  ASSUME NEW S, NEW m \in Nat, NEW n \in Nat, NEW s \in [1 .. m -> S], NEW t \in [1 .. n -> S]
  PROVE  /\ Len(s \o t) = m + n
         /\ \A k \in 1 .. m + n : (s \o t)[k] = IF k <= m THEN s[k] ELSE t[k - m]
<1>1. s \in Seq(S) /\ t \in Seq(S)
  OBVIOUS
<1>2. Len(s) = m /\ Len(t) = n
  BY <1>1, LenProperties
<1> QED
  BY <1>1, <1>2, ConcatProperties

(* The timers of the boot, one by one.                                      *)
LEMMA BootIs ==
  /\ Len(BootOrder) = 13
  /\ \A k \in 1 .. 13 : BootOrder[k] = IF k <= 8 THEN Drivers[k] ELSE Sensors[k - 8]
<1> DEFINE S == {Drivers[k] : k \in 1 .. 8} \cup {Sensors[k] : k \in 1 .. 5}
           m == 8
           n == 5
<1>1. m \in Nat /\ n \in Nat /\ m + n = 13
  OBVIOUS
<1>2. Drivers \in [1 .. m -> S]
  <2>1. Drivers = [k \in 1 .. 8 |-> Drivers[k]]
    BY DEF Drivers
  <2> QED
    BY <2>1
<1>3. Sensors \in [1 .. n -> S]
  <2>1. Sensors = [k \in 1 .. 5 |-> Sensors[k]]
    BY DEF Sensors
  <2> QED
    BY <2>1
<1> HIDE DEF S, m, n
<1>4. /\ Len(Drivers \o Sensors) = m + n
      /\ \A k \in 1 .. m + n :
           (Drivers \o Sensors)[k] = IF k <= m THEN Drivers[k] ELSE Sensors[k - m]
  BY <1>1, <1>2, <1>3, ConcatAt
<1>5. m = 8
  BY DEF m
<1> QED
  BY <1>1, <1>4, <1>5 DEF BootOrder

(* The place of each owner's timer among the thirteen that main's init      *)
(* functions ask for.                                                       *)
Place(o) ==
  CASE o = "led" -> 1
    [] o = "spi_rx" -> 2
    [] o = "spi_tx" -> 3
    [] o = "uart" -> 4
    [] o = "adc" -> 5
    [] o = "i2c_rx" -> 6
    [] o = "i2c_tx" -> 7
    [] o = "temt6000" -> 8
    [] o = "veml7700_0" -> 9
    [] o = "veml7700_1" -> 10
    [] o = "veml7700_2" -> 11
    [] o = "veml7700_3" -> 12
    [] o = "veml7700_4" -> 13

(* Each of them has an owner of its own.                                    *)
LEMMA BootFacts ==
  \A k \in 1 .. 13 :
    /\ Place(BootOrder[k].owner) = k
    /\ BootOrder[k].ms \in Nat
    /\ BootOrder[k].owner = "uart" <=> k = UartTimer
<1> DEFINE Good(t, k) == Place(t.owner) = k /\ t.ms \in Nat
<1>1. \A k \in 1 .. 8 : Good(Drivers[k], k)
  <2>1. Good(Drivers[1], 1)
    BY DEF Drivers, Timer, Place
  <2>2. Good(Drivers[2], 2)
    BY DEF Drivers, Timer, Place
  <2>3. Good(Drivers[3], 3)
    BY DEF Drivers, Timer, Place
  <2>4. Good(Drivers[4], 4)
    BY DEF Drivers, Timer, Place
  <2>5. Good(Drivers[5], 5)
    BY DEF Drivers, Timer, Place
  <2>6. Good(Drivers[6], 6)
    BY DEF Drivers, Timer, Place
  <2>7. Good(Drivers[7], 7)
    BY DEF Drivers, Timer, Place
  <2>8. Good(Drivers[8], 8)
    BY DEF Drivers, Timer, Place
  <2> HIDE DEF Good
  <2> QED
    BY <2>1, <2>2, <2>3, <2>4, <2>5, <2>6, <2>7, <2>8
<1>2. \A k \in 1 .. 5 : Good(Sensors[k], k + 8)
  <2>1. Good(Sensors[1], 9)
    BY DEF Sensors, Timer, Place
  <2>2. Good(Sensors[2], 10)
    BY DEF Sensors, Timer, Place
  <2>3. Good(Sensors[3], 11)
    BY DEF Sensors, Timer, Place
  <2>4. Good(Sensors[4], 12)
    BY DEF Sensors, Timer, Place
  <2>5. Good(Sensors[5], 13)
    BY DEF Sensors, Timer, Place
  <2> HIDE DEF Good
  <2> QED
    BY <2>1, <2>2, <2>3, <2>4, <2>5
<1> HIDE DEF Good
<1>3. \A k \in 9 .. 13 : Good(Sensors[k - 8], k)
  <2> SUFFICES ASSUME NEW k \in 9 .. 13 PROVE Good(Sensors[k - 8], k)
    OBVIOUS
  <2>1. k - 8 \in 1 .. 5 /\ (k - 8) + 8 = k
    OBVIOUS
  <2> QED
    BY <1>2, <2>1
<1>4. \A k \in 1 .. 13 : Good(BootOrder[k], k)
  BY <1>1, <1>3, BootIs
<1>5. BootOrder[UartTimer].owner = "uart" /\ Place("uart") = UartTimer
  BY BootIs DEF Drivers, Timer, Place, UartTimer
<1>6. \A k \in 1 .. 13 : Place(BootOrder[k].owner) = k /\ BootOrder[k].ms \in Nat
  BY <1>4 DEF Good
<1> QED
  BY <1>5, <1>6

(* The owners are those of the boot, and each asks once.                    *)
LEMMA OwnersInOrder ==
  /\ \A k \in 1 .. 13 : BootOrder[k].owner \in Owners
  /\ \A o \in Owners : \E k \in 1 .. 13 : o = BootOrder[k].owner
  /\ \A k, j \in 1 .. 13 : BootOrder[k].owner = BootOrder[j].owner => k = j
<1>1. /\ \A k \in 1 .. 13 : BootOrder[k].owner \in Owners
      /\ \A o \in Owners : \E k \in 1 .. 13 : o = BootOrder[k].owner
  BY BootIs DEF Owners
<1>2. \A k \in 1 .. 13 : Place(BootOrder[k].owner) = k
  BY BootFacts
<1> QED
  BY <1>1, <1>2

(*--------------------------------- types ---------------------------------*)

Places == {"boot", "led", "spi_rx", "spi_tx", "spi_wait", "button", "uart", "uart_wait", "others"}

(* The boot goes through the thirteen timers; the loop follows it, and the  *)
(* receiver is armed on the way.                                           *)
BootFirst ==
  /\ pc \in Places
  /\ booted \in 0 .. 13
  /\ pc = "boot" <=> booted < 13
  /\ booted < UartTimer => rxst = "off"

Typed == TypeOK /\ BootFirst

(* The period of every timer is a number of ticks.                         *)
LEMMA TicksAreNat ==
  ASSUME NEW ms \in Nat
  PROVE  Ticks(ms) \in Nat
<1> DEFINE a == ms + TickMs - 1
<1>1. a \in Nat /\ TickMs \in Nat \ {0}
  BY SuperloopAssumption
<1>2. Ticks(ms) = a \div TickMs
  BY DEF Ticks
<1> HIDE DEF a
<1>3. a \div TickMs \in Nat
  BY <1>1
<1> QED
  BY <1>2, <1>3

(* One step of the boot: the next timer is asked for.                      *)
LEMMA BootStep ==
  ASSUME Typed, Boot
  PROVE  /\ booted + 1 \in 1 .. 13 /\ booted' = booted + 1
         /\ pc' = IF booted' = 13 THEN "led" ELSE "boot"
         /\ PitTypeOK'
         /\ \E id \in {NullId} \cup Ids :
              /\ idOf' = IF BootOrder[booted + 1].keeps /\ id < 0 THEN idOf
                         ELSE [idOf EXCEPT ![BootOrder[booted + 1].owner] = id]
              /\ \/ id = ntimers /\ id \in Ids /\ ntimers' = ntimers + 1
                 \/ ntimers = TimersArraySize /\ ntimers' = ntimers
<1> DEFINE next == BootOrder[booted + 1]
<1>1. booted + 1 \in 1 .. 13 /\ booted' = booted + 1 /\ Len(BootOrder) = 13
  BY BootIs DEF Boot, Typed, BootFirst
<1>2. next.ms \in Nat
  BY <1>1, BootFacts
<1>3. pit_ms_to_ticks(Ticks(next.ms)) \in Uint32
  BY <1>2, TicksAreNat, MsToTicksIsUint32
<1>4. PICK id \in {NullId} \cup Ids :
        /\ pit_add_timer(pit_ms_to_ticks(Ticks(next.ms)), id)
        /\ idOf' = IF next.keeps /\ id < 0 THEN idOf ELSE [idOf EXCEPT ![next.owner] = id]
  BY DEF Boot
<1>5. /\ PitTypeOK'
      /\ \/ id = ntimers /\ id \in Ids /\ ntimers' = ntimers + 1
         \/ id = -1 /\ ntimers = TimersArraySize /\ UNCHANGED pitVars
  BY <1>3, <1>4, AddTimerType DEF Typed, TypeOK
<1>6. pc' = IF booted' = 13 THEN "led" ELSE "boot"
  BY <1>1 DEF Boot
<1> QED
  BY <1>1, <1>4, <1>5, <1>6 DEF pitVars

(* What the boot does besides asking for the timer.                        *)
LEMMA BootAround ==
  ASSUME Typed, Boot
  PROVE  /\ UNCHANGED <<dim, duty, pin, bsw2, spi_st, test_pin, spi_hw, rxBuffer, owed, txst>>
         /\ IF booted + 1 = UartTimer
              THEN last_st' = pin /\ sampled' = TRUE /\ presses' = 0 /\ rxst' = "armed"
              ELSE UNCHANGED <<last_st, sampled, presses, rxst>>
<1>1. BootOrder[booted + 1].owner = "uart" <=> booted + 1 = UartTimer
  BY BootStep, BootFacts
<1> QED
  BY <1>1 DEF Boot, ledVars, spiVars

(* Types and the order of boot and loop are inductive.                      *)
LEMMA StepTyped == Typed /\ [Next]_vars => Typed'
<1> SUFFICES ASSUME Typed, [Next]_vars PROVE Typed'
  OBVIOUS
<1> USE DEF ledVars, buttonVars, spiVars, uartVars
<1>1. CASE Boot
  <2>1. BootOrder[booted + 1].owner \in Owners
    BY <1>1, BootStep, OwnersInOrder
  <2>2. idOf' \in [Owners -> {NullId} \cup Ids]
    BY <1>1, <2>1, BootStep DEF Typed, TypeOK
  <2>3. booted' \in 0 .. Len(BootOrder)
    BY <1>1, BootStep, BootIs
  <2>4. TypeOK'
    BY <1>1, <2>2, <2>3, BootStep, BootAround DEF Typed, TypeOK, Levels
  <2>5. BootFirst'
    <3>1. /\ booted + 1 \in 1 .. 13 /\ booted' = booted + 1
          /\ pc' = IF booted' = 13 THEN "led" ELSE "boot"
      BY <1>1, BootStep
    <3>2. booted' < UartTimer => rxst' = "off"
      <4> SUFFICES ASSUME booted' < UartTimer PROVE rxst' = "off"
        OBVIOUS
      <4>1. booted + 1 # UartTimer /\ booted < UartTimer
        BY <3>1 DEF UartTimer, Typed, BootFirst
      <4>2. rxst' = rxst
        BY <1>1, <4>1, BootAround
      <4> QED
        BY <4>1, <4>2 DEF Typed, BootFirst
    <3> QED
      BY <3>1, <3>2 DEF BootFirst, Places
  <2> QED
    BY <2>4, <2>5 DEF Typed
<1> USE DEF Typed, TypeOK, BootFirst, Places, UartTimer
<1>2. CASE led_main
  <2>1. PitTypeOK'
    BY <1>2, RestartType DEF led_main, RestartTimer, pitVars, PitTypeOK
  <2> QED
    BY <1>2, <2>1 DEF led_main
<1>3. CASE SpiRx
  <2>1. PitTypeOK'
    BY <1>3, RestartType DEF SpiRx, RestartTimer, pitVars, PitTypeOK
  <2> QED
    BY <1>3, <2>1 DEF SpiRx
<1>4. CASE SpiTx
  <2>1. PitTypeOK'
    BY <1>4, RestartType DEF SpiTx, RestartTimer, pitVars, PitTypeOK
  <2> QED
    BY <1>4, <2>1 DEF SpiTx, Levels
<1>5. CASE SpiWait
  BY <1>5 DEF SpiWait, pitVars, PitTypeOK
<1>6. CASE button_main
  BY <1>6 DEF button_main, handle_bsw2, led_set_r, Levels, pitVars, PitTypeOK
<1>7. CASE UartPoll
  <2>1. PitTypeOK'
    BY <1>7, RestartType DEF UartPoll, RestartTimer, pitVars, PitTypeOK
  <2> QED
    BY <1>7, <2>1 DEF UartPoll
<1>8. CASE UartWait
  <2>1. PitTypeOK'
    BY <1>8, RestartType DEF UartWait, RestartTimer
  <2> QED
    BY <1>8, <2>1 DEF UartWait
<1>9. CASE Others
  <2>1. 0 \in Uint32
    BY PitAssumption DEF Uint32
  <2>2. PitTypeOK'
    BY <1>9, <2>1 DEF Others, PitTypeOK
  <2> QED
    BY <1>9, <2>2 DEF Others
<1>10. CASE Tick
  <2>1. PitTypeOK'
    BY <1>10, PitAssumption DEF Tick, pit_callback, PitTypeOK, Ids, Uint32
  <2> QED
    BY <1>10, <2>1 DEF Tick
<1>11. CASE PinChanges
  <2>1. pin' \in Levels /\ presses' \in Levels /\ sampled' = FALSE
    BY <1>11 DEF PinChanges, Levels
  <2>2. PitTypeOK' /\ UNCHANGED <<booted, idOf, pc, ledVars, last_st, bsw2, spiVars, uartVars>>
    BY <1>11 DEF PinChanges, pitVars, PitTypeOK
  <2> QED
    BY <2>1, <2>2
<1>12. CASE SpiDone
  <2>1. PitTypeOK' /\ spi_hw' \in {"idle", "busy", "fault"}
    BY <1>12 DEF SpiDone, pitVars, PitTypeOK
  <2> QED
    BY <1>12, <2>1 DEF SpiDone
<1>13. CASE UartSent
  <2>1. PitTypeOK' /\ txst' \in {"idle", "busy", "error"}
    BY <1>13 DEF UartSent, pitVars, PitTypeOK
  <2> QED
    BY <1>13, <2>1 DEF UartSent
<1>14. ASSUME NEW b \in Bytes, UartReceives(b) PROVE Typed'
  <2>1. PitTypeOK' /\ rxst' \in {"done", "error"}
    BY <1>14 DEF UartReceives, pitVars, PitTypeOK
  <2>2. rxBuffer' \in Bytes \cup {NoByte} /\ owed' \in Bytes \cup {NoByte}
    BY <1>14 DEF UartReceives
  <2>3. ~(booted' < UartTimer)
    BY <1>14 DEF UartReceives
  <2> QED
    BY <1>14, <2>1, <2>2, <2>3 DEF UartReceives
<1>15. CASE UNCHANGED vars
  BY <1>15 DEF vars, PitTypeOK
<1> QED
  BY <1>1, <1>2, <1>3, <1>4, <1>5, <1>6, <1>7, <1>8, <1>9, <1>10, <1>11, <1>12, <1>13, <1>14, <1>15
  DEF Next, main

(* Nothing has been asked for yet.                                          *)
LEMMA InitTyped == Init => Typed
<1> SUFFICES ASSUME Init PROVE Typed
  OBVIOUS
<1>1. PitTypeOK
  BY PitAssumption DEF Init, pit_init, PitTypeOK, Ids, Uint32
<1>2. idOf \in [Owners -> {NullId} \cup Ids]
  BY PitAssumption DEF Init, Ids
<1>3. booted \in 0 .. Len(BootOrder)
  BY BootIs DEF Init
<1> QED
  BY <1>1, <1>2, <1>3 DEF Init, Typed, TypeOK, BootFirst, Places, Levels, UartTimer

(* The loop's variables have their types, and the boot comes before the     *)
(* loop and never again.                                                   *)
THEOREM LoopTyping == Spec => [](TypeOK /\ BootFirst)
BY InitTyped, StepTyped, PTL DEF Spec, Typed

(* Types alone, as the run checks them.                                    *)
THEOREM Typing == Spec => []TypeOK
BY LoopTyping, PTL

(*------------------------------ own timers --------------------------------*)

(* With a pool that is large enough, the k-th timer asked for is slot k - 1. *)
InOrder ==
  /\ ntimers = booted
  /\ \A k \in 1 .. 13 : k <= booted => idOf[BootOrder[k].owner] = k - 1

(* Every init call gets the id that is next.                                *)
LEMMA StepInOrder ==
  ASSUME TimersArraySize >= Len(BootOrder)
  PROVE  Typed /\ InOrder /\ [Next]_vars => InOrder'
<1> SUFFICES ASSUME Typed, InOrder, [Next]_vars PROVE InOrder'
  OBVIOUS
<1>1. CASE Boot
  <2>1. booted + 1 \in 1 .. 13 /\ booted' = booted + 1
    BY <1>1, BootStep
  <2>2. TimersArraySize >= 13
    BY BootIs
  <2>3. ntimers < TimersArraySize
    BY <2>1, <2>2, PitAssumption DEF InOrder, Typed, BootFirst
  <2>4. ntimers' = ntimers + 1 /\ ntimers \in Nat
        /\ idOf' = [idOf EXCEPT ![BootOrder[booted + 1].owner] = ntimers]
    <3>1. PICK id \in {NullId} \cup Ids :
            /\ idOf' = IF BootOrder[booted + 1].keeps /\ id < 0 THEN idOf
                       ELSE [idOf EXCEPT ![BootOrder[booted + 1].owner] = id]
            /\ \/ id = ntimers /\ id \in Ids /\ ntimers' = ntimers + 1
               \/ ntimers = TimersArraySize /\ ntimers' = ntimers
      BY <1>1, BootStep
    <3>2. id = ntimers /\ id \in Ids /\ ntimers' = ntimers + 1
      BY <2>3, <3>1, PitAssumption
    <3>3. id \in Nat
      BY <3>2, PitAssumption DEF Ids
    <3> QED
      BY <3>1, <3>2, <3>3
  <2>5. ASSUME NEW k \in 1 .. 13, k <= booted'
        PROVE  idOf'[BootOrder[k].owner] = k - 1
    <3> DEFINE nth == booted + 1
    <3>1. nth \in 1 .. 13 /\ nth = ntimers + 1 /\ k <= nth /\ (k = nth \/ k <= booted)
      BY <2>1, <2>5 DEF InOrder, Typed, BootFirst
    <3>2. idOf' = [idOf EXCEPT ![BootOrder[nth].owner] = ntimers] /\ ntimers \in Nat
      BY <2>4
    <3> HIDE DEF nth
    <3>3. BootOrder[k].owner \in Owners
      BY OwnersInOrder
    <3>4. idOf'[BootOrder[k].owner] = IF k = nth THEN ntimers ELSE idOf[BootOrder[k].owner]
      BY <3>1, <3>2, <3>3, OwnersInOrder DEF Typed, TypeOK
    <3>5. k # nth => idOf[BootOrder[k].owner] = k - 1
      BY <3>1 DEF InOrder
    <3> QED
      BY <3>1, <3>2, <3>4, <3>5
  <2> QED
    BY <2>1, <2>4, <2>5 DEF InOrder
<1>2. CASE ~Boot
  <2>1. UNCHANGED <<ntimers, booted, idOf>>
    BY <1>2 DEF Next, main, vars, pitVars, led_main, SpiRx, SpiTx, SpiWait, button_main, UartPoll,
                UartWait, Others, Tick, PinChanges, SpiDone, UartSent, UartReceives,
                RestartTimer, pit_restart_timer, pit_callback
  <2> QED
    BY <2>1 DEF InOrder
<1> QED
  BY <1>1, <1>2

(* If the pool has a slot for each of the timers that the boot asks for,    *)
(* every driver enters the loop with a timer in service and of its own.     *)
THEOREM OwnTimers ==
  ASSUME TimersArraySize >= Len(BootOrder)
  PROVE  Spec => []EachItsOwnTimer
<1>1. Init => InOrder
  BY DEF Init, pit_init, InOrder
<1>2. TypeOK /\ BootFirst /\ InOrder => EachItsOwnTimer
  <2> SUFFICES ASSUME TypeOK, BootFirst, InOrder, pc # "boot", NEW o \in Owners, NEW p \in Owners
               PROVE  id_valid(idOf[o]) /\ (o # p => idOf[o] # idOf[p])
    BY DEF EachItsOwnTimer
  <2>1. booted = 13 /\ ntimers = 13
    BY DEF BootFirst, InOrder
  <2>2. PICK k \in 1 .. 13 : o = BootOrder[k].owner
    BY OwnersInOrder
  <2>3. PICK j \in 1 .. 13 : p = BootOrder[j].owner
    BY OwnersInOrder
  <2>4. idOf[o] = k - 1 /\ idOf[p] = j - 1
    <3>1. k <= booted /\ j <= booted
      BY <2>1
    <3> QED
      BY <2>2, <2>3, <3>1 DEF InOrder
  <2> QED
    BY <2>1, <2>2, <2>3, <2>4 DEF id_valid
<1> QED
  BY <1>1, <1>2, StepInOrder, LoopTyping, PTL DEF Spec, Typed

(*------------------------------- the button -------------------------------*)

(* From button_init on, what has been sampled is the level of the pin, and  *)
(* the only press that the red LED does not show yet is the one to be seen. *)
PressSeen ==
  /\ booted >= UartTimer /\ sampled => last_st = pin
  /\ booted >= UartTimer => (PressPending <=> bsw2 # presses)
  /\ pc = "boot" => bsw2 = 0
  /\ duty["red"] = IF bsw2 = 1 THEN DIM_ON ELSE DIM_OFF

(* PressSeen is inductive: button_main compares with the last sample.       *)
LEMMA StepPressSeen == Typed /\ PressSeen /\ [Next]_vars => PressSeen'
<1> SUFFICES ASSUME Typed, PressSeen, [Next]_vars PROVE PressSeen'
  OBVIOUS
<1>1. CASE Boot
  <2>1. pc = "boot" /\ bsw2 = 0 /\ bsw2' = 0 /\ pin' = pin /\ duty' = duty
    BY <1>1, BootAround DEF Boot, PressSeen
  <2>2. booted' = booted + 1 /\ booted \in 0 .. 13
    BY <1>1, BootStep DEF Typed, BootFirst
  <2>3. CASE booted + 1 = UartTimer
    <3>1. last_st' = pin /\ sampled' = TRUE /\ presses' = 0
      BY <1>1, <2>3, BootAround
    <3> QED
      BY <2>1, <3>1 DEF PressSeen, PressPending
  <2>4. CASE booted + 1 # UartTimer
    <3>1. UNCHANGED <<last_st, sampled, presses>>
      BY <1>1, <2>4, BootAround
    <3>2. booted' >= UartTimer => booted >= UartTimer
      BY <2>2, <2>4 DEF UartTimer
    <3> QED
      BY <2>1, <3>1, <3>2 DEF PressSeen, PressPending
  <2> QED
    BY <2>3, <2>4
<1> USE DEF PressSeen, PressPending, ledVars, buttonVars
<1>2. CASE button_main
  <2>1. booted >= UartTimer /\ pc # "boot" /\ pc' # "boot" /\ booted' = booted
    BY <1>2 DEF button_main, Typed, BootFirst, UartTimer
  <2>2. last_st' = pin /\ pin' = pin /\ sampled' = TRUE /\ presses' = presses
    BY <1>2 DEF button_main
  <2>3. CASE last_st = 1 /\ pin = 0
    <3>1. ~sampled
      BY <2>1, <2>3
    <3>2. bsw2 # presses /\ bsw2' = 1 - bsw2
      BY <1>2, <2>1, <2>3, <3>1 DEF button_main, handle_bsw2
    <3>3. bsw2' = presses
      BY <3>2 DEF Typed, TypeOK, Levels
    <3>4. duty'["red"] = IF bsw2' = 1 THEN DIM_ON ELSE DIM_OFF
      BY <1>2, <2>3 DEF button_main, handle_bsw2, led_set_r, Typed, TypeOK
    <3> QED
      BY <2>1, <2>2, <3>3, <3>4
  <2>4. CASE ~(last_st = 1 /\ pin = 0)
    <3>1. UNCHANGED <<duty, bsw2>>
      BY <1>2, <2>4 DEF button_main
    <3> QED
      BY <2>1, <2>2, <2>4, <3>1
  <2> QED
    BY <2>3, <2>4
<1>3. CASE PinChanges
  <2>1. sampled /\ pin' = 1 - pin /\ ~sampled' /\ UNCHANGED <<booted, pc, last_st, bsw2, duty>>
    BY <1>3 DEF PinChanges
  <2>2. ASSUME booted >= UartTimer PROVE PressPending' <=> bsw2 # presses'
    <3>1. last_st = pin /\ bsw2 = presses
      BY <2>1, <2>2
    <3>2. CASE pin = 1
      <4>1. presses' = 1 - presses
        BY <1>3, <3>2 DEF PinChanges
      <4> QED
        BY <2>1, <3>1, <3>2, <4>1 DEF Typed, TypeOK, Levels
    <3>3. CASE pin # 1
      <4>1. presses' = presses
        BY <1>3, <3>3 DEF PinChanges
      <4> QED
        BY <2>1, <3>1, <3>3, <4>1
    <3> QED
      BY <3>2, <3>3
  <2> QED
    BY <2>1, <2>2
<1>4. CASE led_main
  <2>1. duty' = [duty EXCEPT !["green"] = dim'] \/ duty' = duty
    BY <1>4 DEF led_main
  <2>2. duty'["red"] = duty["red"]
    BY <2>1 DEF Typed, TypeOK
  <2>3. pc # "boot" /\ pc' # "boot" /\ UNCHANGED <<booted, pin, last_st, sampled, bsw2, presses>>
    BY <1>4 DEF led_main
  <2> QED
    BY <2>2, <2>3
<1>5. ASSUME UNCHANGED <<booted, pin, last_st, sampled, bsw2, presses, duty>>,
             pc' = "boot" => pc = "boot"
      PROVE  PressSeen'
  BY <1>5
<1>6. CASE ~(Boot \/ button_main \/ PinChanges \/ led_main)
  <2>1. /\ UNCHANGED <<booted, pin, last_st, sampled, bsw2, presses, duty>>
        /\ pc' = "boot" => pc = "boot"
    BY <1>6 DEF Next, main, vars, SpiRx, SpiTx, SpiWait, UartPoll, UartWait, Others,
                Tick, SpiDone, UartSent, UartReceives
  <2> QED
    BY <1>5, <2>1
<1> QED
  BY <1>1, <1>2, <1>3, <1>4, <1>6

(* The red LED shows the parity of the presses of SW2, but for the one that *)
(* button_main is about to see, wherever in the boot or the loop they come. *)
THEOREM RedFollows == Spec => []RedFollowsPresses
<1>1. Init => PressSeen
  BY DEF Init, PressSeen, UartTimer, DIM_ON, DIM_OFF
<1>2. TypeOK /\ BootFirst /\ PressSeen => RedFollowsPresses
  BY DEF BootFirst, PressSeen, RedFollowsPresses, UartTimer
<1> QED
  BY <1>1, <1>2, StepPressSeen, LoopTyping, PTL DEF Spec, Typed

(*--------------------------------- the echo -------------------------------*)

(* uart_main waits for the transmitter only with a byte received, and the   *)
(* receiver is not started meanwhile.                                      *)
EchoOnce == EchoIsOwed /\ (pc = "uart_wait" => rxst = "done")

(* EchoOnce is inductive: the receiver is armed after the echo only.        *)
LEMMA StepEchoOnce == Typed /\ EchoOnce /\ [Next]_vars => EchoOnce'
<1> SUFFICES ASSUME Typed, EchoOnce, [Next]_vars PROVE EchoOnce'
  OBVIOUS
<1> USE DEF EchoOnce, EchoIsOwed, uartVars
<1>1. CASE Boot
  <2>1. pc = "boot" /\ pc' \in {"boot", "led"} /\ UNCHANGED <<rxBuffer, owed>>
    BY <1>1, BootStep, BootAround DEF Boot
  <2>2. CASE booted + 1 = UartTimer
    <3>1. rxst' = "armed"
      BY <1>1, <2>2, BootAround
    <3>2. rxst = "off"
      BY <2>2 DEF Typed, BootFirst, UartTimer
    <3> QED
      BY <2>1, <3>1, <3>2
  <2>3. CASE booted + 1 # UartTimer
    <3>1. rxst' = rxst
      BY <1>1, <2>3, BootAround
    <3> QED
      BY <2>1, <3>1
  <2> QED
    BY <2>2, <2>3
<1>2. CASE UartPoll
  BY <1>2 DEF UartPoll
<1>3. CASE UartWait
  BY <1>3 DEF UartWait
<1>4. ASSUME NEW b \in Bytes, UartReceives(b) PROVE EchoOnce'
  BY <1>4, SuperloopAssumption DEF UartReceives
<1>5. ASSUME UNCHANGED <<rxst, rxBuffer, owed>>, pc' = "uart_wait" <=> pc = "uart_wait"
      PROVE  EchoOnce'
  BY <1>5
<1>6. \/ UNCHANGED <<rxst, rxBuffer, owed>> /\ (pc' = "uart_wait" <=> pc = "uart_wait")
      \/ Boot \/ UartPoll \/ UartWait \/ \E b \in Bytes : UartReceives(b)
  BY DEF Next, main, vars, led_main, SpiRx, SpiTx, SpiWait, button_main, Others,
         Tick, PinChanges, SpiDone, UartSent
<1> QED
  BY <1>1, <1>2, <1>3, <1>4, <1>5, <1>6

(* The byte received is owed an echo until uart_main starts sending it, and *)
(* no other byte can take its place before.                                *)
THEOREM Echo == Spec => []EchoIsOwed
<1>1. Init => EchoOnce
  BY DEF Init, EchoOnce, EchoIsOwed
<1> QED
  BY <1>1, StepEchoOnce, LoopTyping, PTL DEF Spec, Typed, EchoOnce

==============================================================================
