# Verification of the S32K312 mini-EVB test firmware

The firmware in `src/` (C, bare metal, an NXP S32K312 board) is a superloop: a
startup code prepares the memory, `main` initialises one driver after another and then calls their `*_main`
functions in turn for ever.  Interrupts advance software timers, end
conversions and receive CAN frames underneath it.  This directory holds TLA+
models of its code, the TLC configurations that check them and proofs that
TLAPS checks.

Paths such as `pit.c` are short for `src/src/pit.c`; `startup_cm7.s`,
`startup.c`, `system.c`, `exceptions.c` and `nvic.c` are in
`src/Project_Settings/Startup_Code/`.

## 1. Inventory

| part | state | operations | properties that make it correct |
|---|---|---|---|
| `pit.c` software timers | 32 slots (counter, limit), number in use | `pit_callback` (interrupt), `pit_add_timer`, `pit_elapsed`, `pit_restart_timer`, `pit_set_limit`, `pit_set_count`, `pit_ms_to_ticks` | an expiry is seen exactly once its period is over, wherever the interrupt falls; no timer dies; ids are not shared |
| `can.c` CAN messages | a ring to send, a ring received, mailboxes | `can_init`, `can_main`, `can_send_msg`, `Can0_Rx_Callback` (interrupt) | both rings are bounded FIFOs; nothing is stranded; every message has a mailbox |
| `adc.c`, `temt6000.c` | conversion state, last sample | `adc_main`, `adc_end_of_chain_notif` (interrupt), `adc_read`, `temt6000_main` | no conversion over another; conversions never stop |
| `veml7700.c` light sensors on I2C | per device: gain, integration time, scale, state, timer | `veml7700_init`, `veml7700_add_dev`, `veml7700_main` (autorange, reads) | the lux value is the light; driver and sensor agree on the configuration; autorange settles; between two rangings the timer runs for exactly the period |
| `main.c` | where the loop is | boot, loop | drivers do not take each other's timers; the loop never stops |
| `led.c`, `button.c` | dimming, last sample of each pin | `led_main`, `button_main` | green keeps blinking; red follows the presses |
| `uart.c` | one receive byte, driver status | `uart_main` with a busy wait | each byte received is echoed once |
| `spi.c` | two timers, a test pin | `spi_main`, `spi_write` with a busy wait | does not hold up the loop |
| `i2c.c` | two timers, unused buffers | `i2c_init`, `i2c_main` (never called) | none beyond its timers |
| `sys.c` | the timer of the wait | memory, string and text functions, `sys_init`, `sys_blocking_wait` | each does what its comment says, to no other byte; a wait is never short, returns, and leaves other timers alone |
| `excpt.c`, handlers of `exceptions.c` | fault enable bits, CFSR and HFSR, the handlers' locals | setters, fault handlers | a fault stops in the handler asked for, and its cause can be read there |
| `startup_cm7.s`, `startup.c` | SRAM, DTCM, VTOR | `Reset_Handler` to `SystemInit`, `init_data_bss` | `main` finds its variables as the image and `SystemInit` leave them, standby data survives, vectors are never torn |
| `system.c` | caches, `rbar[]` and `rasr[]`, MPU regions | `SystemInit`, `sys_m7_cache_*` | nothing is lost in the cache, its own table included; the MPU lets the linker's areas be used as meant |
| linker file, `prueba00.mex` | | | the layout fits the MPU table; the rest is configuration |

**How they interact.**  Every driver polls timers of `pit.c`, by an id it got
at boot.  The drivers run in one thread; three interrupts preempt it: the PIT
tick writes the counters, the ADC's end-of-chain callback writes `conv_st` and
`raw_data`, the FlexCAN callback writes the receive ring.  `temt6000.c` reads
what the ADC's interrupt stored, `button.c` sets a LED, `can.c` uses the memory
functions of `sys.c`.  Two busy waits (`spi_write`, `uart_main`) hold up
everything else.  The startup code hands its memory over to all of them: the
rings of `can.c` and the table of `pit.c` count on a zeroed `.bss`.  It can run
more than once, on what an earlier run has left in RAM, cache and registers.

**What is hard.**  Interrupts between two accesses of a driver; a timer that is
compared with `==` and so must never overshoot; rings whose full and empty
states have the same indices; several copies of one configuration; bus errors
that are ignored; resets in the middle of the startup, with a cache that may
hold the only copy of the data; three calls on one timer that have to amount to
a wait.  `PROJECT.json` lists
each hazard at its line with the properties that cover it, or the reason why
none does.

## 2. Modules

| module | models | extends |
|---|---|---|
| `Pit` | `pit.c`, one operator per function | |
| `PitTimers` | any caller of `pit.h`, each call one step | `Pit` |
| `PitPreempted` | the drivers' calls split at their accesses, the tick between any two | `Pit` |
| `Countdown` | abstract: a pool of countdown timers | |
| `PitPreemptedProofs` | theorems about `PitPreempted` | `PitPreempted`, TLAPS |
| `SysWait` | `sys_init` and `sys_blocking_wait` among any other callers of `pit.h` | `PitTimers` |
| `SysWaitProofs` | theorems about `PitTimers` and `SysWait` | `SysWait`, TLAPS |
| `Can` | `can.c` with its interrupt | |
| `Fifo` | abstract: a bounded queue | |
| `CanProofs` | theorems about `Can` | `Can`, TLAPS |
| `Adc` | `adc.c` and `temt6000.c` with the end-of-chain interrupt | `Pit` |
| `AdcProofs` | theorems about `Adc` | `Adc`, TLAPS |
| `Veml7700` | `veml7700.c`, with the sensor and the bus as environment | `Pit` |
| `Veml7700Proofs` | theorems about `Veml7700` | `Veml7700`, TLAPS |
| `Superloop` | `main.c`, `led.c`, `button.c`, `spi.c`, `uart.c`, all timers | `Pit` |
| `SuperloopProofs` | theorems about `Superloop` | `Superloop`, TLAPS |
| `Sys` | the functions of `sys.c` on a memory, loop turn by loop turn | |
| `SysProofs` | theorems about `Sys` | `Sys`, TLAPS |
| `Ram` | the memory and the data cache, with the loops over sets and ways | |
| `Startup` | `startup_cm7.s` and `init_data_bss`, store by store | `Ram` |
| `SystemInit` | `SystemInit` of `system.c`: cache and MPU | `Startup` |
| `Excpt` | `excpt.c` and the handlers that stop the core | |
| `Boot` | every start to `main` and every fault after it, composed | `SystemInit`, `Excpt` |
| `BootProofs` | theorems about `Boot` | `Boot`, TLAPS |

`Pit` is the component the others are composed with: `Adc`, `Veml7700` and
`Superloop` call its operators on its variables, and `SysWait` adds a caller to
`PitTimers`.  `Boot` composes the parts of the startup with the faults.

### How state and actions correspond to the code

* **Pit.**  `struct pit_cfg` is one function per field (`counter`, `limit`) and
  `ntimers`.  An operator has the name of its C function.  `pit_callback`
  advances every slot below `ntimers` that is under its limit.  Programming the
  PIT peripheral, the first half of `pit_init`, is not modelled; the initial
  state is the cleared table.
* **PitPreempted.**  `op` is the call in progress.  `pit_elapsed` is
  `PollRead` (the counter is read) and `PollCompare` (with the limit);
  `pit_add_timer` is `AddCall` and one `AddStore` for each of its three stores,
  in any order, because only `counter` is volatile and the build may reorder
  the others; a change of period is `SetLimit` and then `SetLimitRestart`, as
  in `veml7700.c:190-192`.
* **SysWait.**  `pc` is where `sys_blocking_wait` is: `pit_set_limit` is done
  ("restart"), `pit_restart_timer` too ("poll"), or no wait is on.  A tick may
  come before each.  A poll that answers no changes nothing and is left out.
  `sys_init` may come at any time, or not at all: `main.c` never calls it.  The
  other callers pause during a wait, since they share its thread.  `granted`
  and `waited` are history.
* **Can.**  Each ring keeps the slots' messages and `processed` flags and the
  two indices.  `can_main` is split into `process_tx_buffer` (the test),
  `process_tx_msg`, `process_rx_buffer` (the test), `RxTake`, `process_rx_msg`,
  `RxAdvance`; `Can0_Rx_Callback` may run between any two.  The code's store
  order is taken as written: the interrupt reads neither `idx_rd` nor a
  message whose flag it finds unset.  `rxRefused` and `txRefused` are history:
  the ring has not taken a message since it last changed.
* **Adc.**  `adc_main` is `AdcPoll`, `AdcCheck`, `StartConversion`,
  `FlagOngoing`.  `slow` says whether a conversion outlasts the step from
  `StartConversion` to `FlagOngoing`.
* **Veml7700.**  `dev` is the device table, `sensor` the chip: the register
  written last, the one its data register still reflects, and the ticks since.
  A step of `veml7700_main` is one turn of its loop.  `sinceRead` is history: the
  ticks since the last reading that may range a device, but for those that come
  between an expiry of its timer and the loop's next turn, which are the loop's
  lateness and not the driver's.  Resolutions are integers
  of 1/10000 lux.  A count reflects the light at the time of reading.
* **Superloop.**  `pc` walks through the boot and through the calls of the
  loop.  The boot takes one timer per step, in the order of the init calls.
  `spi_write` and `uart_main` have a step in which they wait.  `sampled`,
  `presses` and `owed` are history: whether the pin has been read since it
  changed, the parity of the presses, the byte that has to be echoed.
  The peripherals may report a lasting failure (`LPSPI_IP_FAULT`, a UART status
  that is no success): `Stuck` is the loop in a busy wait on one that did.
* **Ram, Startup, SystemInit.**  `mem` is what the core reads, `ram` what is
  behind the cache; a line is dirty while they differ.  `stage` is the label or
  function that runs and `i`, `j` its counters.  The stores of `RamInit`,
  `DTCM_Init` and `init_data_bss` are one step each, as is each set and way of a
  loop on DCCISW or DCISW, each entry of the MPU table as it is stored in
  `rbar[]` and `rasr[]` and each as it is read back and programmed.  Between two
  steps a line may be evicted or a reset may come.  A byte is 0, a byte of the
  image, one of the application's, or `Junk`: never written since the power
  came; of a word of the MPU table each byte stands for the whole value.  The
  table is part of `.bss`, at any place in it, and goes through the cache like
  the rest.  `SlotOf` puts the lines of the SRAM into slots in any way, several
  of them in one when the cache is smaller than the SRAM; which of them the slot
  holds is not kept, so any of them may be dirty.  Addresses of the memory are
  offsets, those of the MPU table are KB.  `mpu` and `mpuOn` are the registers;
  `RightsAt` is how the core reads them.  Of the instruction cache only its
  enable bit is there (`icache`), which `SystemInit` tests too.
* **Excpt.**  SHCSR and CFSR are sets of classes.  `hpc` is where the handler is:
  it reads the registers, three of them execute a BKPT, all spin.  Where the
  core goes on a fault is modelled from how `excpt.c` uses it.  A BKPT is taken
  by a debugger or, with none, is a hard fault; both are possible.
* **Boot.**  A reset comes in any state: a power-on (RAM lost), a functional
  reset (RAM kept), an exit from standby (SRAM kept, DTCM lost), or a jump to
  `Reset_Handler` by software that leaves caches and MPU on, which is what
  `SystemInit` tests the caches for.  `AppClearsPor` is the call that would
  acknowledge a power-on, commented out in `main.c:40`: standby data survives
  no functional reset without it.  The vectors are those of the system
  exceptions; drivers install their own afterwards.
* **Sys.**  Init chooses a call and a memory among those the function's comment
  allows (regions that fit, strings that end, no overlap); a step is one turn
  of a loop.  `text` is what a conversion has written.  `sys.h` declares
  `sys_u32tohex8` where `sys.c` defines `sys_u32_to_hex8`; the model is of the
  definition.

## 3. Runs

Each line of this table is one question; the cfg has the bounds.

| run | what it shows | bounds, and why they are enough |
|---|---|---|
| `pit_preempted` | `Inv`; `ImplementsCountdown`: refinement of `Countdown`; `EveryTimerElapses` under the drivers' protocol | 2 slots, counters up to 3, periods 0, 1 and 3; the theorems of section 5 hold for all values |
| `sys_wait` | `ExpiryIsLatched`: whoever calls, an expiry is only lost to a call on that very timer; `NoWaitIsShort`, `WaitSparesOthers`, `EveryWaitReturns` | 2 slots: the wait's and another's, or one of both before `sys_init`; counters up to 7, periods that wrap and that do not, and 0; every call with every id |
| `can_rings` | `RxIsFifo`, `TxIsFifo` (refinements of `Fifo`), `EveryRxProcessed`, `EveryTxSentUnlessFull` | 3 slots: empty, partly full, full and wrapped are all reached; two payloads tell two messages apart; one id at and one above `CAN_MAX_ID` |
| `can_tx_full` | **fails**: `EveryStoredTxSent` | |
| `can_mailboxes` | **fails**: `EveryMessageHasMailbox` | |
| `adc` | `NoOverlap` for any speed of the converter, `ConversionsKeepComing` for slow conversions | the interrupt between any two accesses |
| `adc_wedged` | **fails**: `OngoingMeansInFlight` | |
| `veml_one_device` | `LuxIsLight`, `ConfigInStep`, `RangingKeepsPeriod`, `AutorangeSettles` | the real table of gains and times, one tick per 25 ms (all periods are multiples); darkness, a dim light and a glare, so that every setting is passed through; one device, since devices share nothing but the loop |
| `veml_bus_fault` | **fails**: `RangedCountIsValid` | |
| `superloop` | `EachItsOwnTimer`, `RedFollowsPresses`, `EchoIsOwed`, `GreenBlinksUnlessStuck`, `EveryByteEchoed` | the real pool of 32 slots, 13 of them asked for; SPI and UART may fail; one tick per second, shorter periods rounded up to one tick: order and phase of the timers vary, their ratios do not matter to the properties |
| `sys` | `BlocksAreExact`, `CompareIsFirstDifference`, `StringsAreExact`, `NumeralsReadBack`, `EveryCallReturns` | all memories of 5 bytes over 0, 1 and 255 (terminator, plain, above 127); all 8-bit integers, bases 1 to 17 at the boundaries |
| `boot` | `MemoryAsLinked`, `VectorsAreIntact`, `StandbySurvives`, `MapFitsLinker`, `FaultStopsAsAsked`, `BootCompletes` | two lines of cacheable SRAM in different sets and ways, so that both loops over the cache turn; words of 4 bytes; the standby data and most of `.bss` in one line, the end of the MPU table and `.data` in the other; sections of all three kinds of SRAM, most of which end within a word, and an empty one; the real table of regions, each of its words in one byte (`EntryBytes`), and the linker file's areas (`Lockstep` FALSE, as the linker's sizes of the TCMs are); a jump to `Reset_Handler` only with the faults all enabled, as `main` leaves them (`LeftEnabled`: what is enabled does not touch the memory) |

The run `boot` (116655 states) has one instance of everything, but every reset
at every step; the proofs have any number.
Its memory differs from the device's in size only; the properties compare bytes
with what belongs at them, and no two places of a section are treated alike by
accident, since the image's bytes are all different.

All runs check for deadlock but `sys`, whose behaviours end when the call has
returned.  `Sys` has no caller beyond the call, so that is the end of the
program as far as it goes.

### What the failing runs show

* `can_tx_full`: when the transmit ring fills up, `idx_rd = idx_wr` and
  `process_tx_buffer` (`can.c:259`) takes it for empty.  Nothing is sent any
  more and every later message is refused.  The receive side looks at the flag
  as well (`can.c:224-225`) and passes the same check.
* `can_mailboxes`: both messages are configured on mailbox 1 (`can.c:96-108`),
  the second replaces the first.
* `adc_wedged`: the interrupt between `adc.c:86` and `adc.c:88` makes
  `adc_main` overwrite `ADC_CONV_DONE`, and no conversion starts again.  It
  needs a conversion that ends before the very next store, which another
  interrupt in between makes possible.
* `veml_bus_fault`: a failed read is used as a count (`veml7700.c:489-500`).

### Fairness

* The tick (`WF(Tick)`): the PIT is free-running hardware.
* The loop (`WF` of `can_main`, `superloop`, `veml7700_main`, `main`): one
  thread that nothing but interrupts preempts, and interrupts return.
* The peripherals (`TxComplete`, `SpiDone`, `UartSent`, the end of a
  conversion): a transfer that has started ends.  These are assumptions about
  hardware.  `EveryTxSentUnlessFull` also assumes that mailbox 0, which
  `can_init` arms for reception, does not stay so.  In `Superloop` a transfer
  ends or fails; that one has failed for good is part of the properties
  (`Stuck`), because the code spins for ever then (`spi.c:111`, `uart.c:47`).
* A wait (`WF(Wait)` of `SysWait`) and a call (`WF(Return)` of `PitPreempted`):
  the thread goes on between two interrupts.
* The core (`WF(Thread)`, `WF(Stopped)` of `Boot`): instructions are executed,
  of the startup or of a handler.  Resets, evictions, faults and an NMI are
  never owed; `BootCompletes` allows for a reset that cuts each start short.
* Nothing is assumed of when bytes, frames, presses or changes of the light
  come.  A pin of a button does keep its level until `button_main` has sampled
  it once (`PinChanges`): shorter presses and bouncing contacts, which the code
  does not handle (`button.c:51`), are left out.

## 4. Abstract specifications

* `Countdown` is what a driver may count on: a timer given a period of p answers
  "elapsed" exactly when p ticks have gone by, and keeps answering so.
  `PitPreempted` implements it: a slot's remaining ticks are `limit - counter`;
  a creation takes effect at its last store, a poll when the counter is read; a
  timer between `pit_set_limit` and `pit_restart_timer` is suspended.
* `Fifo` is a bounded queue that refuses only when full.  A refusal sets a mark
  that stays until the queue next changes, so that a refusal while there is
  room is a step that the queue does not have, and not a stutter.  Both rings
  of `Can` implement it, with `rxRefused` and `txRefused` as the mark, which
  record that the ring did not take a message, whatever the reason (in the code,
  a slot still taken: `can.c:203`; ids that `can_send_msg` rejects never get to
  the ring): the queue is the run of unprocessed slots from the read index;
  on the receive side, the message whose flag has been set and whose index has
  not moved yet is already out.

## 5. Proofs

`PitPreemptedProofs` holds, for every table size, counter width, tick rate and
set of periods (the assumptions `PitAssumption` and `PeriodsAssumption`):

* `Safety`: `Spec => []Inv`.  `Inv` is type correctness and four parts.
  `NeverPastLimit` is the one that matters: the `==` of `pit_elapsed` is only
  right while no counter has gone past its limit.  It is not inductive alone:
  a new slot has its limit after its counter, or the other way round, so
  `AddInProgress` says what each order of the stores leaves behind and
  `SpareSlotsZero` what the slot held before; and a poll that the tick preempts
  needs `CallInProgress`, that the counter only grew since it was read.
* `Implementation`: `Spec => ImplementsCountdown`.  The initial states
  correspond, and each action maps to a step of `Countdown` or to a stutter;
  the tick is the one step common to all calls in progress, and the case of a
  poll under way uses `CallInProgress`: the tick changes the answer neither
  from no to yes nor back, since it was fixed at the read.

There is one lemma for each group of actions, and under it one step for each
conjunct.

`SysWaitProofs` holds, for every table and any caller of `pit.h`, `Typing`
(`Spec => []PitTypeOK`, which is inductive as it stands) and from it `Latched`
(`Spec => ExpiryIsLatched`): the case of each call shows that it leaves the
other timers alone, the case of the tick that it stops at the limit.  This is
carried over to a system in which `sys_init` and `sys_blocking_wait` are among
the callers (`StepIsCall`: every step but
`sys_init` is a step of some caller of `pit.h`).  The invariant is `WaitInv`:
types; `WaitInService`, that the timer of a wait has the limit asked for and,
once restarted, has counted no more than the ticks gone by; `GrantIsUsed`, that
the timer `sys_init` got is the one the waits use.  From it `WaitsLast`
(`NoWaitIsShort`: a poll says yes when the count is the limit), `WaitsSpare`
(`WaitSparesOthers`: the wait's calls name its own timer, and the tick stops at
a limit) and `WaitLatched`.  They hold for every table, width and set of
periods.

`CanProofs` holds `RxRefines` and `TxRefines`: both rings implement `Fifo`, for
every size, every set of ids and payloads.  That a refusal is one of a full
queue is a case of its own: the slot at the write index is unprocessed, and by
`Rings` all the others are then too.  The indices alone do not tell a full
ring from an empty one, so the invariant `Rings` says with the flags what a ring
is: from the head on, n slots in a row are unprocessed and the others are not,
and the write index is the slot after them.  For the receive side the head is
`RxHead`, past the slot that is marked and not yet left.  `Rings` also keeps
what one step of `can_main` has found true for the next: the slot to be taken is
unprocessed, the message taken is the slot's, mailbox 0 is idle.  The interrupt
writes at the other end of the ring only.  The modulo of the indices is removed
first (`Wraps`, `At`), then storing is shown to append to the queue
(`StoreAppends`), marking the head to take its first element (`TakeOut`).

`BootProofs` holds six results, for every memory and cache.

`FaultStops` is `Spec => []FaultStopsAsAsked`.  `ExcptInv` follows a fault through its handlers: `RegistersAsAsked`
(SHCSR is what the calls asked for), `HandlerHasSteps`, `FaultsAreKnown` (HFSR
is empty until a hard fault and then has one reason: FORCED if the class was
off, DEBUGEVT if its own handler met the BKPT) and `LocalsAreRead`, which has to
cover the BKPT as well as the end, because a debugger goes from one to the
other.  It needs that no handler calls the setters and that nothing but a reset
leaves a handler.

`MainFindsMemory` (`MemoryAsLinked`), `VectorsStay` (`VectorsAreIntact`) and
`StandbyStays` (`StandbySurvives`) rest on one invariant, `MemInv`, since what a
start leaves in RAM, cache and VTOR is what the next one begins with.  Its parts:

* `Coherent`: where the cache may differ from the RAM.  `CLEAN` goes over sets
  and ways, so the invariant orders the slots (`Passed`): whatever is in a slot
  gone over is clean, and when the loop ends all slots are (`AtSlot`).
* `SlotsFresh`: the same for the loop that invalidates; nothing stale is left
  when the cache goes on.
* `Initialised`: how far `RamInit` and `DTCM_Init` are.  After a reset that is
  no power-on they begin at `.bss`, and what is below is no junk because an
  earlier start wrote it.  It has to hold in the RAM as well as in the cache,
  for a reset loses the cache.
* `Loaded`: how far each section has been copied or zeroed; the stores are one
  word each and at last one byte each (`Copied`).  VTOR points to the RAM from
  the end of the copies to the next start only.  After that, `.bss` is zero
  outside `rbar[]` and `rasr[]`, which have the table's words up to the entry
  `SystemInit` is at (`AreStored`).  This stays true of what the core reads
  while the lines are cleaned and the cache goes off, since `Coherent` has
  nothing dirty left by then.

`Typing` (`BootTypeOK`) comes with it: no store leaves the RAM.  The arithmetic
of the linker's alignment is in lemmas (`AlignUpFacts`, `AlignUpShifts`); all
they assume is `RamAssumption`, `StartupAssumption` and `SystemInitAssumption`:
that the sections fit, that each line of SRAM has some slot of the cache, and
that `rbar[]` and `rasr[]` are apart and in `.bss`.

`MpuFits` is `Spec => []MapFitsLinker`, from the moment the MPU is on and
through every later start that finds it on.  What the loop reads of `rbar[]` and
`rasr[]` is what was stored there (`EntryIsStored`, from `MemInv`): the case
that could fail is the start with the cache on, where the stores wait in dirty
lines.  The loop moves to the next register only for an entry in use, so entry k goes to register
`Place(k)`; `MpuInv` says that the registers below `j` hold their entries and
that no register ever holds anything but `Disabled` or the entry it gets in the
end (`Programmed`).  A start with the MPU on therefore programs what is there,
and the map is the same before, during and after.  Which region decides on an
address is `HighestDecides`; `Registers` and `Areas` read the map off the table,
for every address of an area and not only for the ends the run looks at.  The
hypothesis is `~Lockstep`: the linker file has the sizes of the TCMs without it.

`AdcProofs` holds `OneAtATime`: `Spec => []NoOverlap`.  The invariant is
strengthened by `InFlightIsFlagged`: a conversion in flight is flagged
ONGOING, or the store of the flag is the next step of `adc_main`.  Only this
direction holds; `adc_wedged` shows that the other does not.  `Typing` needs
that the pool has a slot for both timers, as `main` gives it.

`SuperloopProofs` holds four results for every tick, set of bytes and, but for
`OwnTimers`, every size of the pool:

* `Typing`, together with `BootFirst`: the loop starts when the last of the
  thirteen timers has been asked for, and never goes back to the boot.
* `OwnTimers` (`EachItsOwnTimer`), if the pool has a slot for each of them: the
  k-th to ask gets slot k - 1 (`InOrder`).
* `RedFollows` (`RedFollowsPresses`).  The run's property speaks of the loop
  only, and a pin may move before `button_init` samples it, so `PressSeen`
  begins at `button_init`, says what `button_main` will compare the pin with,
  and that the LED is dark until the loop.
* `Echo` (`EchoIsOwed`), with the one fact it needs: while the loop waits for
  the transmitter the receiver is not armed.

`Veml7700Proofs` holds, for any number of devices, any light that changes at
any time and a superloop that may be late:

* `Typing`, and `PeriodIsKept` (`RangingKeepsPeriod`: the period is met exactly,
  so a wait for an integration neither lengthens nor shortens it), with a bus
  that fails as well as without.  `TimeInv` is the invariant: a timer's limit and the ticks
  since the last ranging make up the period, whether what the timer runs is the
  period, an integration time or the rest after one (`Timed`).  The products in
  `pit_ms_to_ticks` must not wrap: `UintAssumption`, which the code's 1000 ms
  meet with room to spare.
* `LuxFollowsLight` (`LuxIsLight`) and `ConfigStays` (`ConfigInStep`), if the
  bus does not fail; `veml_bus_fault` shows what comes of one that does.
  `SensorInv` adds to `TimeInv` that resolution and range are those of the
  configuration (`Scaled`), that the register is what the sensor was told
  (`Told`) and that when a device is ready its sensor has integrated with it
  (`Integrated`).  A device that was just added is the exception: it is read
  before its first integration, as a count of 0.  The tables of gains and times
  are checked entry by entry (`TablesAgree`, `Decoded`).

`SysProofs` holds the properties of `sys.c` for every size and content of the
memory, every call its caller may make and every base; `SysAssumption` is all
it assumes.  `SysInv` is one loop invariant per function: what the turns so far
have written, and that nothing else has changed.  `OwnSteps` shows that a step
is one of the function called, so each invariant has to survive its own steps
only, and `Promised` has what the functions' comments ask of the caller.

* `Blocks`, `Compare` and `Strings`: the loop invariants at the end of the call.
  Where a string ends is a least element, which exists by well-foundedness
  (`Least`).  `strncpy` pads in a second loop, which starts where the first
  has met the zero.
* `Numerals` (`NumeralsReadBack`): the digits are the remainders of dividing by
  the base again and again.  The invariant carries the quotients in between
  (`Divided`: each is the next one times the base plus a digit), so that no
  induction over an operator is needed.  The loop that turns the digits around
  gives the quotients backwards (`Turned`), and these are the values of the
  leading digits in `ValueOf`: two functions with the same recursion are equal
  (`OneValue`, `ReadsBack`).  A quotient above zero gives no leading zero.
  INT32_MIN is its own magnitude as a uint32 (`MagnitudeIs`).
* `Typing` (`TypeOK`): each digit at least halves the number, so there are at
  most `Bits` of them.  This takes the powers of two to 2^32, which the provers
  know only as numbers; that is why the width is at most 32, the C type's.

Theorems are stated for the specifications without fairness where there are two
(`Spec` and `FairSpec`), and so hold for both.

Only model-checked is liveness (`EveryTimerElapses`, `ConversionsKeepComing`,
`AutorangeSettles`, `GreenBlinksUnlessStuck`, `EveryByteEchoed`,
`EveryWaitReturns`, `EveryCallReturns`, `BootCompletes`, `EveryRxProcessed`,
`EveryTxSentUnlessFull`), which is beyond the prover: fairness is about ENABLED.
Every other property of a passing run is a theorem.

## 6. Not modelled

* `nvic.c`: writes of one interrupt register each, called by nobody in `src/`.  `NVIC_SetPriorityGrouping` writes AIRCR
  neither shifted nor with its key (`nvic.c:94-98`), which the core ignores;
  the comment above it says otherwise.
* Of the startup: the copy of the ITCM, clock and watchdog registers, the routing
  of the interrupts (`system.c:418-447`), what the instruction cache holds, `.data_tcm_data` (empty), the FPU, user
  mode and what only a second core runs (`init_data_bss_core2`).  No
  variable of the program depends on them.
* The board configuration: generated, and read for the constants.  The linker
  file of the RAM image (`linker_ram_s32k312.ld`).
* `sys_get_binsize`, `led_set_g`, `led_set_b`, `i2c_main`, `test.h` (no caller).
* The vendor's drivers, which are not in the repository; each model states what
  it assumes of them in the section "environment" or beside the operator.
* Wall-clock time: how long a pass of the loop takes, other than that ticks and
  steps interleave at will.

Seen while modelling, and of no consequence for the properties: the comment
on region 11 gives it 128 MB (`system.c:568`), while the code and the table
above it give it 1 KB; the test for a fault after `spi_write`'s loop
(`spi.c:115`) cannot succeed.

## 7. Plan

Order of work: timers first, since all else hangs on them; then the drivers
with interrupts; then the loop that joins them; then the library; then the
startup under all of them.

1. Done: the modules of section 2, with the runs of section 3, and the
   theorems of section 5.
2. Done: no safety property is left that is only model-checked.  What is left to
   TLC is liveness.
3. If the firmware gains them: callers of `sys_init`, `excpt_dis_*` or `nvic.c`;
   a second VEML7700, which shares nothing with the first but the loop.
