------------------------------- MODULE Superloop -------------------------------
(***************************************************************************)
(* src/src/main.c: the boot sequence, in which every driver takes its      *)
(* timers from the pool of pit.c, and the endless loop that calls the      *)
(* drivers in turn.  led.c, button.c, spi.c and uart.c are modelled whole; *)
(* of i2c.c, which has no main in the loop, the boot; of adc.c, temt6000.c *)
(* and veml7700.c, which have modules of their own, the timers.            *)
(*                                                                         *)
(* Ticks, pins, bytes and the peripherals' progress come between any two   *)
(* steps of the loop.  The only places where the loop stays are the two    *)
(* busy waits, of spi_write and of uart_main, neither of which has a bound *)
(* or heeds a failure.  One tick stands for TickMs.                        *)
(***************************************************************************)
EXTENDS Pit, Sequences

CONSTANTS
  TickMs,  \* milliseconds per tick; periods are rounded up to whole ticks
  Bytes,   \* what may arrive on the serial line
  NoByte   \* none of them

ASSUME SuperloopAssumption == TickMs \in Nat \ {0} /\ NoByte \notin Bytes

Levels == {0, 1}   \* of a pin; a button pulls its pin down
DIM_ON == 32512    \* 0x7F00
DIM_OFF == 32768   \* 0x8000
NullId == -1

(***************************************************************************)
(* The timers in the order of main's init calls: whose, how long, and      *)
(* whether its variable keeps its static 0 when the pool is exhausted      *)
(* ("if (id >= 0)") or takes the -1.                                       *)
(***************************************************************************)
Timer(owner, ms, keeps) == [owner |-> owner, ms |-> ms, keeps |-> keeps]

Drivers ==
  << Timer("led", 1000, TRUE), Timer("spi_rx", 1000, TRUE), Timer("spi_tx", 2000, TRUE),
     Timer("uart", 100, FALSE), Timer("adc", 500, TRUE),
     Timer("i2c_rx", 10, TRUE), Timer("i2c_tx", 10, TRUE), Timer("temt6000", 500, TRUE) >>

Sensors ==
  << Timer("veml7700_0", 1000, FALSE), Timer("veml7700_1", 1000, FALSE),
     Timer("veml7700_2", 1000, FALSE), Timer("veml7700_3", 1000, FALSE),
     Timer("veml7700_4", 1000, FALSE) >>

BootOrder == Drivers \o Sensors

Owners == {BootOrder[k].owner : k \in 1 .. Len(BootOrder)}

VARIABLES
  booted,   \* how many timers have been asked for
  idOf,     \* the id variable of each owner
  pc,       \* where the loop is
  dim,      \* led_main's dim
  duty,     \* duty cycle of the red and of the green channel
  pin,      \* level of the SW2 pin
  last_st,  \* bsw2_last_st
  sampled,  \* whether button_main has read the pin since it last changed
  bsw2,     \* handle_bsw2's st
  presses,  \* presses of SW2 since boot, modulo 2
  spi_st,   \* spi_main's st
  test_pin, \* level of pin_prueba
  spi_hw,   \* the LPSPI: "idle", "busy" or "fault"
  rxst,     \* the UART receiver: "off", "armed", "done" or "error"
  rxBuffer, \* rxBuffer[0]
  owed,     \* the byte that has arrived and is to be echoed
  txst      \* the UART transmitter: "idle", "busy" or "error"

ledVars == <<dim, duty>>
buttonVars == <<pin, last_st, sampled, bsw2, presses>>
spiVars == <<spi_st, test_pin, spi_hw>>
uartVars == <<rxst, rxBuffer, owed, txst>>
vars == <<counter, limit, ntimers, booted, idOf, pc, dim, duty, pin, last_st,
          sampled, bsw2, presses, spi_st, test_pin, spi_hw, rxst, rxBuffer,
          owed, txst>>

TypeOK ==
  /\ PitTypeOK
  /\ booted \in 0 .. Len(BootOrder)
  /\ idOf \in [Owners -> {NullId} \cup Ids]
  /\ dim \in {DIM_ON, DIM_OFF} /\ duty \in [{"red", "green"} -> {DIM_ON, DIM_OFF}]
  /\ {pin, last_st, bsw2, presses, spi_st, test_pin} \subseteq Levels
  /\ sampled \in BOOLEAN
  /\ spi_hw \in {"idle", "busy", "fault"} /\ txst \in {"idle", "busy", "error"}
  /\ rxst \in {"off", "armed", "done", "error"}
  /\ {rxBuffer, owed} \subseteq Bytes \cup {NoByte}

Elapsed(owner) == pit_elapsed(idOf[owner])
RestartTimer(owner) == pit_restart_timer(idOf[owner])

(*--------------------------------- boot ----------------------------------*)

Init ==
  /\ pit_init
  /\ booted = 0
  /\ idOf = [o \in Owners |-> 0]
  /\ pc = "boot"
  /\ dim = DIM_ON
  /\ duty = [c \in {"red", "green"} |-> DIM_OFF]
  /\ pin \in Levels /\ last_st = 0 /\ sampled = TRUE
  /\ bsw2 = 0 /\ presses = 0
  /\ spi_st = 0 /\ test_pin \in Levels /\ spi_hw = "idle"
  /\ rxst = "off" /\ rxBuffer = NoByte /\ owed = NoByte /\ txst = "idle"

Ticks(ms) == (ms + TickMs - 1) \div TickMs

(* The next pit_add_timer of the init functions, until none is left.  What *)
(* button_init and uart_init do before it goes with the timer of the UART.  *)
Boot ==
  /\ pc = "boot"
  /\ LET next == BootOrder[booted + 1]
     IN  /\ \E id \in {NullId} \cup Ids :
              /\ pit_add_timer(pit_ms_to_ticks(Ticks(next.ms)), id)
              /\ idOf' = IF next.keeps /\ id < 0 THEN idOf
                                                 ELSE [idOf EXCEPT ![next.owner] = id]
         /\ IF next.owner = "uart"
              THEN last_st' = pin /\ sampled' = TRUE /\ presses' = 0 /\ rxst' = "armed"
              ELSE UNCHANGED <<last_st, sampled, presses, rxst>>
  /\ booted' = booted + 1
  /\ pc' = IF booted' = Len(BootOrder) THEN "led" ELSE "boot"
  /\ UNCHANGED <<ledVars, pin, bsw2, spiVars, rxBuffer, owed, txst>>

(*-------------------------------- drivers --------------------------------*)

led_main ==
  /\ pc = "led"
  /\ IF Elapsed("led")
       THEN /\ dim' = IF dim = DIM_ON THEN DIM_OFF ELSE DIM_ON
            /\ duty' = [duty EXCEPT !["green"] = dim']
            /\ RestartTimer("led")
       ELSE UNCHANGED <<pitVars, ledVars>>
  /\ pc' = "spi_rx"
  /\ UNCHANGED <<booted, idOf, buttonVars, spiVars, uartVars>>

SpiRx ==
  /\ pc = "spi_rx"
  /\ IF Elapsed("spi_rx") THEN RestartTimer("spi_rx") ELSE UNCHANGED pitVars
  /\ pc' = "spi_tx"
  /\ UNCHANGED <<booted, idOf, ledVars, buttonVars, spiVars, uartVars>>

(* spi_write: Lpspi_Ip_SyncTransmit returns with the byte sent or a failure *)
(* that is reported; on success the hardware may still be busy, or at fault. *)
SpiTx ==
  /\ pc = "spi_tx"
  /\ IF Elapsed("spi_tx")
       THEN /\ RestartTimer("spi_tx")
            /\ test_pin' = spi_st
            /\ spi_st' = 1 - spi_st
            /\ \/ spi_hw' \in {"idle", "busy", "fault"} /\ pc' = "spi_wait"
               \/ UNCHANGED spi_hw /\ pc' = "button"
       ELSE UNCHANGED <<pitVars, spiVars>> /\ pc' = "button"
  /\ UNCHANGED <<booted, idOf, ledVars, buttonVars, uartVars>>

(* Faulty variant: the wait goes on while the hardware is idle.            *)
SpiWait_WhileIdle ==
  /\ pc = "spi_wait"
  /\ spi_hw = "busy"
  /\ pc' = "button"
  /\ UNCHANGED <<pitVars, booted, idOf, ledVars, buttonVars, spiVars, uartVars>>

(* do ... while (hwst != LPSPI_IP_IDLE): a fault is only tested for after.  *)
SpiWait ==
  /\ pc = "spi_wait"
  /\ spi_hw = "idle"
  /\ pc' = "button"
  /\ UNCHANGED <<pitVars, booted, idOf, ledVars, buttonVars, spiVars, uartVars>>

led_set_r(st) == duty' = [duty EXCEPT !["red"] = IF st = 1 THEN DIM_ON ELSE DIM_OFF]

handle_bsw2 == led_set_r(1 - bsw2) /\ bsw2' = 1 - bsw2

(* Faulty variant: the sample is not remembered.                           *)
button_main_Forgets ==
  /\ pc = "button"
  /\ IF last_st = 1 /\ pin = 0 THEN handle_bsw2 ELSE UNCHANGED <<duty, bsw2>>
  /\ sampled' = TRUE
  /\ pc' = "uart"
  /\ UNCHANGED <<pitVars, booted, idOf, dim, pin, last_st, presses, spiVars, uartVars>>

(* A falling edge between two samples is a press.                           *)
(* SW3 is sampled in the same way and its handler is empty.                 *)
button_main ==
  /\ pc = "button"
  /\ IF last_st = 1 /\ pin = 0 THEN handle_bsw2 ELSE UNCHANGED <<duty, bsw2>>
  /\ last_st' = pin
  /\ sampled' = TRUE
  /\ pc' = "uart"
  /\ UNCHANGED <<pitVars, booted, idOf, dim, pin, presses, spiVars, uartVars>>

(* Echo the byte if one has come (Uart_AsyncSend sends what rxBuffer holds *)
(* then), rearm after an error, let a reception that is under way go on.    *)
UartPoll ==
  /\ pc = "uart"
  /\ \/ /\ Elapsed("uart") /\ rxst = "done"
        /\ txst' = "busy"
        /\ owed' = NoByte
        /\ pc' = "uart_wait"
        /\ UNCHANGED <<pitVars, rxst, rxBuffer>>
     \/ /\ Elapsed("uart") /\ rxst # "done"
        /\ rxst' = "armed"
        /\ RestartTimer("uart")
        /\ pc' = "others"
        /\ UNCHANGED <<rxBuffer, owed, txst>>
     \/ /\ ~Elapsed("uart")
        /\ pc' = "others"
        /\ UNCHANGED <<pitVars, uartVars>>
  /\ UNCHANGED <<booted, idOf, ledVars, buttonVars, spiVars>>

(* Faulty variant: the receiver is not started again after the echo.       *)
UartWait_NotRearmed ==
  /\ pc = "uart_wait"
  /\ txst = "idle"
  /\ RestartTimer("uart")
  /\ pc' = "others"
  /\ UNCHANGED <<booted, idOf, ledVars, buttonVars, spiVars, rxst, rxBuffer, owed, txst>>

UartWait ==
  /\ pc = "uart_wait"
  /\ txst = "idle"
  /\ rxst' = "armed"
  /\ RestartTimer("uart")
  /\ pc' = "others"
  /\ UNCHANGED <<booted, idOf, ledVars, buttonVars, spiVars, rxBuffer, owed, txst>>

(* adc_main, temt6000_main and veml7700_main restart what has elapsed; of   *)
(* the sensors' timers only that of the one device added is ever polled.    *)
Others ==
  /\ pc = "others"
  /\ LET due == {o \in {"adc", "temt6000", "veml7700_0"} : Elapsed(o)}
     IN  counter' = [i \in Ids |-> IF \E o \in due : idOf[o] = i THEN 0 ELSE counter[i]]
  /\ pc' = "led"
  /\ UNCHANGED <<limit, ntimers, booted, idOf, ledVars, buttonVars, spiVars, uartVars>>

main == \/ Boot \/ led_main \/ SpiRx \/ SpiTx \/ SpiWait \/ button_main
        \/ UartPoll \/ UartWait \/ Others

(*------------------------------ environment ------------------------------*)

Tick ==
  /\ pit_callback
  /\ UNCHANGED <<booted, idOf, pc, ledVars, buttonVars, spiVars, uartVars>>

(* A finger holds the button, and leaves it alone, for a pass at least.     *)
PinChanges ==
  /\ sampled
  /\ pin' = 1 - pin
  /\ sampled' = FALSE
  /\ presses' = IF pin = 1 THEN 1 - presses ELSE presses
  /\ UNCHANGED <<pitVars, booted, idOf, pc, ledVars, last_st, bsw2, spiVars, uartVars>>

(* A transfer that is under way ends well or badly.                         *)
SpiDone ==
  /\ spi_hw = "busy" /\ spi_hw' \in {"idle", "fault"}
  /\ UNCHANGED <<pitVars, booted, idOf, pc, ledVars, buttonVars, spi_st, test_pin, uartVars>>

UartSent ==
  /\ txst = "busy" /\ txst' \in {"idle", "error"}
  /\ UNCHANGED <<pitVars, booted, idOf, pc, ledVars, buttonVars, spiVars, rxst, rxBuffer, owed>>

UartReceives(b) ==
  /\ rxst = "armed"
  /\ \/ rxst' = "done" /\ rxBuffer' = b /\ owed' = b
     \/ rxst' = "error" /\ UNCHANGED <<rxBuffer, owed>>
  /\ UNCHANGED <<pitVars, booted, idOf, pc, ledVars, buttonVars, spiVars, txst>>

Next == main \/ Tick \/ PinChanges \/ SpiDone \/ UartSent
             \/ \E b \in Bytes : UartReceives(b)

Spec == /\ Init /\ [][Next]_vars
        /\ WF_vars(main) /\ WF_vars(Tick) /\ WF_vars(SpiDone) /\ WF_vars(UartSent)

(*------------------------------ properties -------------------------------*)

(* When the loop starts, each driver has a timer in service and none has    *)
(* another's: the drivers ask for 13 of the 32 slots.  One that was refused *)
(* would keep the id 0 of its static variable and restart the green LED's   *)
(* timer as its own.                                                        *)
EachItsOwnTimer ==
  pc # "boot" => \A o, p \in Owners : id_valid(idOf[o]) /\ (o # p => idOf[o] # idOf[p])

(* The red LED is lit after an odd number of presses of SW2, except for the *)
(* press that button_main has yet to see: none is lost and none is counted  *)
(* twice, wherever in the loop, or in the boot, it comes.                   *)
PressPending == ~sampled /\ last_st = 1 /\ pin = 0

RedFollowsPresses ==
  /\ pc # "boot" => (PressPending <=> bsw2 # presses)
  /\ duty["red"] = IF bsw2 = 1 THEN DIM_ON ELSE DIM_OFF

(* The byte in rxBuffer is one that uart_main owes an echo exactly while    *)
(* the receiver reports it and the echo is not under way: no byte is echoed *)
(* twice, and none is overwritten before its echo.                          *)
EchoIsOwed ==
  /\ (rxst = "done" /\ pc # "uart_wait") <=> owed # NoByte
  /\ owed # NoByte => owed = rxBuffer

(* The loop is in a busy wait whose peripheral reports a failure.           *)
Stuck ==
  \/ pc = "spi_wait" /\ spi_hw = "fault"
  \/ pc = "uart_wait" /\ txst = "error"

(* The green LED keeps blinking until a transfer fails: no wait on a        *)
(* peripheral that works holds the loop for ever, and no driver takes the   *)
(* LED's timer away from it.                                                *)
GreenBlinksUnlessStuck ==
  \/ []<>(duty["green"] = DIM_ON) /\ []<>(duty["green"] = DIM_OFF)
  \/ <>[]Stuck

(* A byte that has been received is echoed, and the receiver started again, *)
(* unless the loop is stuck.                                                *)
EveryByteEchoed == rxst = "done" ~> rxst = "armed" \/ Stuck

==============================================================================
