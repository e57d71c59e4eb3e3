------------------------------- MODULE Veml7700 -------------------------------
(***************************************************************************)
(* src/src/veml7700.c: up to MAX_NUM_DEV ambient light sensors on the I2C  *)
(* bus, each read once per RD_PERIOD_MS.  A count that is too low or too   *)
(* high changes gain or integration time by one step (autorange); then the *)
(* driver waits one integration time before it takes the count, and the    *)
(* rest of the period before it ranges again.                              *)
(*                                                                         *)
(* Time: the timers are those of Pit with one tick per 25 ms instead of    *)
(* 200, since every period of the driver is a multiple of 25 ms.           *)
(*                                                                         *)
(* The sensor is external and modelled by its interface: the configuration *)
(* register, and a count that reflects it one integration time after it    *)
(* was written.  A bus transfer may fail; the driver ignores that, and     *)
(* read_reg then returns whatever its uninitialised buffer holds.          *)
(***************************************************************************)
EXTENDS Pit

CONSTANTS
  MAX_NUM_DEV,
  BootDevs,     \* devices added right after veml7700_init (main.c: one)
  AddedLate,    \* TRUE if veml7700_add_dev may be called later as well
  PromptLoop,   \* TRUE if the superloop serves a device within the tick
  Lights,       \* light levels, in counts of the least sensitive setting
  SteadyLight,  \* TRUE if the light level never changes
  BusMayFail,   \* TRUE if an I2C transfer may fail
  Garbage       \* what an uninitialised buffer may hold

ASSUME VemlAssumption ==
  /\ MAX_NUM_DEV \in Nat \ {0}
  /\ BootDevs \in 0 .. MAX_NUM_DEV
  /\ Lights \subseteq Nat
  /\ {AddedLate, PromptLoop, SteadyLight, BusMayFail} \subseteq BOOLEAN

Devs == 0 .. MAX_NUM_DEV - 1
TickMs == 25
RD_PERIOD_MS == 1000
ALS_COUNT_LO == 100
ALS_COUNT_HI_TooLow == 150  \* faulty: less than a factor of 2 over LO
ALS_COUNT_HI == 45000
MaxCount == 65535

MsToTicks(ms) == pit_ms_to_ticks(ms \div TickMs)
Period == MsToTicks(RD_PERIOD_MS)

(* The data register is as wide as the buffer it is read into, and a period *)
(* of the driver is far from the longest of a timer.                        *)
ASSUME UintAssumption ==
  /\ Garbage \subseteq 0 .. MaxCount
  /\ (RD_PERIOD_MS \div TickMs) * PitMsTicks <= MaxUint32

(*-------------------------------- tables ---------------------------------*)

(* enum als_gain, enum als_it: the codes of the configuration register.     *)
ALS_GAIN_2   == 1
ALS_GAIN_1   == 0
ALS_GAIN_1_4 == 3
ALS_GAIN_1_8 == 2

ALS_IT_25MS  == 12
ALS_IT_50MS  == 8
ALS_IT_100MS == 0
ALS_IT_200MS == 1
ALS_IT_400MS == 2
ALS_IT_800MS == 3

(* Most sensitive first, indexed from 1 where the arrays start at 0.        *)
gain_values == <<ALS_GAIN_2, ALS_GAIN_1, ALS_GAIN_1_4, ALS_GAIN_1_8>>
it_values == <<ALS_IT_800MS, ALS_IT_400MS, ALS_IT_200MS,
               ALS_IT_100MS, ALS_IT_50MS, ALS_IT_25MS>>

gain_to_idx(g) == CHOOSE k \in 1 .. 4 : gain_values[k] = g
it_to_idx(t) == CHOOSE k \in 1 .. 6 : it_values[k] = t

it_to_ms(t) ==
  CASE t = ALS_IT_25MS -> 25
    [] t = ALS_IT_50MS -> 50
    [] t = ALS_IT_100MS -> 100
    [] t = ALS_IT_200MS -> 200
    [] t = ALS_IT_400MS -> 400
    [] OTHER -> 800

(* Rows by integration time, 800 ms first; columns by gain, 2 first.        *)
get_max_illumination(g, t) ==
  << <<275, 550, 2202, 4404>>,
     <<550, 1101, 4404, 8808>>,
     <<1101, 2202, 8808, 17616>>,
     <<2202, 4404, 17616, 35232>>,
     <<4404, 8808, 35232, 70463>>,
     <<8808, 17616, 70463, 140926>> >>[it_to_idx(t)][gain_to_idx(g)]

(* In 1/10000 lux per count.                                                *)
get_resolution(g, t) ==
  << <<42, 84, 336, 672>>,
     <<84, 168, 672, 1344>>,
     <<168, 336, 1344, 2688>>,
     <<336, 672, 2688, 5376>>,
     <<672, 1344, 5376, 10752>>,
     <<1344, 2688, 10752, 21504>> >>[it_to_idx(t)][gain_to_idx(g)]

(* One step towards the middle of the range: more gain, then more time when *)
(* it is dark; less time, then less gain when it is bright.                 *)
autorange(g, t, als_count) ==
  LET gain_idx == gain_to_idx(g)
      it_idx == it_to_idx(t)
  IN  IF als_count <= ALS_COUNT_LO
        THEN IF g # ALS_GAIN_2
               THEN [gain |-> gain_values[gain_idx - 1], it |-> t]
             ELSE IF t # ALS_IT_800MS
               THEN [gain |-> g, it |-> it_values[it_idx - 1]]
             ELSE [gain |-> g, it |-> t]
      ELSE IF als_count >= ALS_COUNT_HI
        THEN IF t # ALS_IT_25MS
               THEN [gain |-> g, it |-> it_values[it_idx + 1]]
             ELSE IF g # ALS_GAIN_1_8
               THEN [gain |-> gain_values[gain_idx + 1], it |-> t]
             ELSE [gain |-> g, it |-> t]
      ELSE [gain |-> g, it |-> t]

ConfigRegister_Misplaced(g, t) == g * 2^11 + t * 2^4  \* faulty
(* reg_data of set_and_send_config; persistence and interrupt are zero.     *)
ConfigRegister(g, t) == g * 2^11 + t * 2^6

(*-------------------------------- sensor ---------------------------------*)

(* Both fields of a register value, as the sensor decodes them.             *)
RegGain(reg) == (reg \div 2^11) % 4
RegIt(reg) == (reg \div 2^6) % 16

(* Counts per unit of light: 1 at gain 1/8 and 25 ms, 512 at 2 and 800 ms.  *)
Sensitivity(reg) ==
  LET gain8 == CASE RegGain(reg) = 1 -> 16 [] RegGain(reg) = 0 -> 8
                 [] RegGain(reg) = 3 -> 2 [] RegGain(reg) = 2 -> 1
      ms == CASE RegIt(reg) = 12 -> 25 [] RegIt(reg) = 8 -> 50
              [] RegIt(reg) = 0 -> 100 [] RegIt(reg) = 1 -> 200
              [] RegIt(reg) = 2 -> 400 [] RegIt(reg) = 3 -> 800
  IN  gain8 * (ms \div 25)

IntegrationTicks(reg) == MsToTicks(it_to_ms(RegIt(reg)))

(*--------------------------------- state ---------------------------------*)

VARIABLES
  ndevs,     \* veml7700.ndevs
  dev,       \* veml7700.devs: gain, it, res, max_lux, st, it_timer_id
  sensor,    \* per device: its register, the one before, ticks since written
  light,     \* the light level
  lx,        \* per device: the last lux computed, and what it came from
  sinceRead, \* per device: ticks since the last read in DEV_READY_ST, those
             \* not counted that found its timer up: there the loop is late
  visit      \* the device veml7700_main looks at next

vars == <<counter, limit, ntimers, ndevs, dev, sensor, light, lx, sinceRead, visit>>
vemlVars == <<ndevs, dev, sensor, light, lx, sinceRead, visit>>

Off == -1   \* the register of a sensor that was never written

NoLux == [count |-> 0, value |-> 0, light |-> 0, actual |-> 0, ranged |-> FALSE]

TypeOK ==
  /\ PitTypeOK
  /\ ndevs \in 0 .. MAX_NUM_DEV
  /\ \A d \in Devs : /\ dev[d].gain \in {gain_values[k] : k \in 1 .. 4}
                     /\ dev[d].it \in {it_values[k] : k \in 1 .. 6}
                     /\ dev[d].st \in {"READY", "WAIT_IT"}
                     /\ sensor[d].age \in 0 .. Period
                     /\ lx[d].count \in 0 .. MaxCount
  /\ light \in Lights
  /\ sinceRead \in [Devs -> 0 .. Period + 1]
  /\ visit \in Devs

(*----------------------- the sensor and the I2C bus ----------------------*)

Saturated(n) == IF n > MaxCount THEN MaxCount ELSE n

CountUnder(reg) == IF reg = Off THEN 0 ELSE Saturated(light * Sensitivity(reg))

(* The register whose integration the data register holds.                  *)
Effective(s) ==
  IF s.reg # Off /\ s.age >= IntegrationTicks(s.reg) THEN s.reg ELSE s.prev

read_reg(d) ==
  {CountUnder(Effective(sensor[d]))} \cup (IF BusMayFail THEN Garbage ELSE {})

Written(s, reg) == [reg |-> reg, prev |-> Effective(s), age |-> 0]
write_reg(s, reg) == {Written(s, reg)} \cup (IF BusMayFail THEN {s} ELSE {})

(*------------------------- the driver's operations -----------------------*)

WithConfig_StaleScale(dv, g, t) == [dv EXCEPT !.gain = g, !.it = t]  \* faulty
WithConfig(dv, g, t) ==
  [dv EXCEPT !.gain = g, !.it = t,
             !.res = get_resolution(g, t),
             !.max_lux = get_max_illumination(g, t)]

default_config ==
  LET g == ALS_GAIN_1_8
      t == ALS_IT_100MS
  IN  [gain |-> g, it |-> t, res |-> get_resolution(g, t),
       max_lux |-> get_max_illumination(g, t)]

(* veml7700_init: one timer per device, -1 once the pool is exhausted.      *)
veml7700_init ==
  /\ ntimers = IF MAX_NUM_DEV < TimersArraySize THEN MAX_NUM_DEV ELSE TimersArraySize
  /\ counter = [i \in Ids |-> 0]
  /\ limit = [i \in Ids |-> IF i < ntimers THEN Period ELSE 0]
  /\ dev = [d \in Devs |->
              [gain |-> default_config.gain, it |-> default_config.it,
               res |-> default_config.res, max_lux |-> default_config.max_lux,
               st |-> "READY",
               it_timer_id |-> IF d < TimersArraySize THEN d ELSE -1]]

Init ==
  /\ veml7700_init
  /\ ndevs = BootDevs
  /\ LET off == [reg |-> Off, prev |-> Off, age |-> Period]
         reg == ConfigRegister(default_config.gain, default_config.it)
     IN  sensor \in [Devs -> {off} \cup write_reg(off, reg)]
         /\ \A d \in Devs : sensor[d] \in IF d < BootDevs THEN write_reg(off, reg)
                                                          ELSE {off}
  /\ light \in Lights
  /\ lx = [d \in Devs |-> NoLux]
  /\ sinceRead = [d \in Devs |-> 0]
  /\ visit = 0

veml7700_add_dev ==
  /\ AddedLate
  /\ ndevs < MAX_NUM_DEV
  /\ ndevs' = ndevs + 1
  /\ LET reg == ConfigRegister(dev[ndevs].gain, dev[ndevs].it)
     IN  \E s \in write_reg(sensor[ndevs], reg) :
           sensor' = [sensor EXCEPT ![ndevs] = s]
  /\ UNCHANGED <<pitVars, dev, light, lx, sinceRead, visit>>

(* pit_set_limit, then pit_restart_timer, on a timer that has elapsed.      *)
Rearm(id, ticks) ==
  /\ limit' = [limit EXCEPT ![id] = ticks]
  /\ counter' = [counter EXCEPT ![id] = 0]
  /\ UNCHANGED ntimers

Lux(d, als_count, ranged) ==
  [count |-> als_count, value |-> als_count * dev[d].res, light |-> light,
   actual |-> CountUnder(Effective(sensor[d])), ranged |-> ranged]

(* case DEV_READY_ST                                                        *)
ReadReady(d) ==
  /\ dev[d].st = "READY"
  /\ \E als_count \in read_reg(d) :
       LET new == autorange(dev[d].gain, dev[d].it, als_count)
           cfg_changed == new.gain # dev[d].gain \/ new.it # dev[d].it
       IN  IF cfg_changed
             THEN /\ dev' = [dev EXCEPT ![d] =
                              [WithConfig(@, new.gain, new.it) EXCEPT !.st = "WAIT_IT"]]
                  /\ \E s \in write_reg(sensor[d], ConfigRegister(new.gain, new.it)) :
                       sensor' = [sensor EXCEPT ![d] = s]
                  /\ Rearm(dev[d].it_timer_id, MsToTicks(it_to_ms(new.it)))
                  /\ UNCHANGED lx
             ELSE /\ lx' = [lx EXCEPT ![d] = Lux(d, als_count, TRUE)]
                  /\ Rearm(dev[d].it_timer_id, Period)
                  /\ UNCHANGED <<dev, sensor>>
  /\ sinceRead' = [sinceRead EXCEPT ![d] = 0]

(* case DEV_WAIT_IT_ST                                                      *)
Remaining_Whole(it_ms) == RD_PERIOD_MS  \* faulty: the time waited is not taken off
Remaining(it_ms) == IF it_ms < RD_PERIOD_MS THEN RD_PERIOD_MS - it_ms ELSE 0

ReadWaited(d) ==
  /\ dev[d].st = "WAIT_IT"
  /\ \E als_count \in read_reg(d) :
       lx' = [lx EXCEPT ![d] = Lux(d, als_count, FALSE)]
  /\ Rearm(dev[d].it_timer_id, MsToTicks(Remaining(it_to_ms(dev[d].it))))
  /\ dev' = [dev EXCEPT ![d].st = "READY"]
  /\ UNCHANGED <<sensor, sinceRead>>

Due(d) == d < ndevs /\ pit_elapsed(dev[d].it_timer_id)
Serve(d) == Due(d) /\ (ReadReady(d) \/ ReadWaited(d))

(* One turn of the loop of veml7700_main: serve the device or go past it.   *)
veml7700_main ==
  /\ IF Due(visit) THEN Serve(visit)
                   ELSE UNCHANGED <<pitVars, dev, sensor, lx, sinceRead>>
  /\ visit' = IF visit + 1 < ndevs THEN visit + 1 ELSE 0
  /\ UNCHANGED <<ndevs, light>>

(*------------------------------ environment ------------------------------*)

Older(n) == IF n < Period THEN n + 1 ELSE n
Longer(n) == IF n <= Period THEN n + 1 ELSE n

Tick ==
  /\ PromptLoop => \A d \in Devs : ~Due(d)
  /\ pit_callback
  /\ sensor' = [d \in Devs |-> [sensor[d] EXCEPT !.age = Older(@)]]
  /\ sinceRead' = [d \in Devs |-> IF pit_elapsed(dev[d].it_timer_id)
                                   THEN sinceRead[d] ELSE Longer(sinceRead[d])]
  /\ UNCHANGED <<ndevs, dev, light, lx, visit>>

LightChange ==
  /\ ~SteadyLight
  /\ light' \in Lights
  /\ UNCHANGED <<pitVars, ndevs, dev, sensor, lx, sinceRead, visit>>

Next == Tick \/ LightChange \/ veml7700_add_dev \/ veml7700_main

Spec == Init /\ [][Next]_vars /\ WF_vars(Tick) /\ WF_vars(veml7700_main)

(*------------------------------ properties -------------------------------*)

LuxPerLight == 21504   \* 1/10000 lux per unit of light

(***************************************************************************)
(* A lux value that does not come from a saturated count is the light      *)
(* there was: the count was integrated under the very gain and time whose  *)
(* resolution scales it, however often autorange moved both, and the whole *)
(* table of resolutions agrees with the sensor.                            *)
(***************************************************************************)
LuxIsLight ==
  \A d \in Devs :
    lx[d].count < MaxCount => lx[d].value = lx[d].light * LuxPerLight

(***************************************************************************)
(* The driver's copy of the configuration, its resolution and its range    *)
(* all belong to what the sensor was told, in every state of every device  *)
(* in use (set_and_send_config after autorange).                           *)
(***************************************************************************)
ConfigInStep ==
  \A d \in Devs : d < ndevs =>
    /\ sensor[d].reg = ConfigRegister(dev[d].gain, dev[d].it)
    /\ dev[d].res * Sensitivity(sensor[d].reg) = LuxPerLight
    /\ LET exact == MaxCount * dev[d].res   \* in 1/10000 lux
           given == dev[d].max_lux * 10000
       IN  given - exact < 10000 /\ exact - given < 10000

RangesNow(d) ==
  veml7700_main /\ visit = d /\ Due(d) /\ dev[d].st = "READY"

(***************************************************************************)
(* Two readings that may range the device are RD_PERIOD_MS apart, no less  *)
(* and, the lateness of the superloop left out, no more, the wait for an   *)
(* integration time in between included: the remainder that DEV_WAIT_IT_ST *)
(* computes makes up for it, and the period does not drift.                *)
(***************************************************************************)
RangingKeepsPeriod ==
  [][\A d \in Devs : RangesNow(d) => sinceRead[d] = Period]_vars

(* The count the light gives is in the middle of the range, or no setting   *)
(* brings it there.                                                         *)
WellRanged(d) ==
  LET reg == ConfigRegister(dev[d].gain, dev[d].it)
      new == autorange(dev[d].gain, dev[d].it, CountUnder(reg))
  IN  /\ new.gain = dev[d].gain /\ new.it = dev[d].it
      /\ \/ CountUnder(reg) > ALS_COUNT_LO /\ CountUnder(reg) < ALS_COUNT_HI
         \/ CountUnder(reg) <= ALS_COUNT_LO /\ Sensitivity(reg) = 512
         \/ CountUnder(reg) >= ALS_COUNT_HI /\ Sensitivity(reg) = 1

(***************************************************************************)
(* Once the light is steady autorange settles: every device in use ends up *)
(* and stays in a setting that is right for the light.  It does not hunt   *)
(* between two settings.                                                   *)
(***************************************************************************)
AutorangeSettles ==
  \A d \in Devs :
    <>[][light' = light]_vars /\ <>(d < ndevs) => <>[]WellRanged(d)

(***************************************************************************)
(* veml7700_main says of the count that left the configuration alone:      *)
(* "the configuration has not changed: als_count is valid".  It is the     *)
(* count the sensor had.                                                   *)
(***************************************************************************)
RangedCountIsValid ==
  \A d \in Devs : lx[d].ranged => lx[d].count = lx[d].actual

==============================================================================
