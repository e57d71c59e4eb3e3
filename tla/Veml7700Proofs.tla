--------------------------- MODULE Veml7700Proofs ---------------------------
(***************************************************************************)
(* Proofs about Veml7700, for any number of devices, any tick and any      *)
(* light: the readings keep their period, and on a bus that does not fail  *)
(* a lux value is the light and the driver knows its sensor.               *)
(*                                                                         *)
(* Two invariants carry this.  TimeInv says how a device's timer and the   *)
(* time since its reading make up the period; it needs no bus that works.  *)
(* SensorInv says that the configuration of the driver, the register of    *)
(* the sensor and the scale of the lux values agree, and that by the time  *)
(* a count is taken the sensor has integrated with that configuration.     *)
(***************************************************************************)
EXTENDS Veml7700, TLAPS

(*------------------------- tables and registers ---------------------------*)

Gains == {ALS_GAIN_2, ALS_GAIN_1, ALS_GAIN_1_4, ALS_GAIN_1_8}
Times == {ALS_IT_25MS, ALS_IT_50MS, ALS_IT_100MS, ALS_IT_200MS, ALS_IT_400MS, ALS_IT_800MS}
Registers == {ConfigRegister(g, t) : g \in Gains, t \in Times} \cup {Off}

(* The codes of the tables, as numbers.                                    *)
LEMMA Codes == Gains = {0, 1, 2, 3} /\ Times = {0, 1, 2, 3, 8, 12}
BY DEF Gains, Times, ALS_GAIN_2, ALS_GAIN_1, ALS_GAIN_1_4, ALS_GAIN_1_8, ALS_IT_25MS,
       ALS_IT_50MS, ALS_IT_100MS, ALS_IT_200MS, ALS_IT_400MS, ALS_IT_800MS

(* Where each code is in its array.                                         *)
LEMMA Indices ==
  /\ gain_to_idx(1) = 1 /\ gain_to_idx(0) = 2 /\ gain_to_idx(3) = 3 /\ gain_to_idx(2) = 4
  /\ it_to_idx(3) = 1 /\ it_to_idx(2) = 2 /\ it_to_idx(1) = 3
  /\ it_to_idx(0) = 4 /\ it_to_idx(8) = 5 /\ it_to_idx(12) = 6
<1>1. gain_to_idx(1) = 1 /\ gain_to_idx(0) = 2 /\ gain_to_idx(3) = 3 /\ gain_to_idx(2) = 4
  BY DEF gain_to_idx, gain_values, ALS_GAIN_2, ALS_GAIN_1, ALS_GAIN_1_4, ALS_GAIN_1_8
<1>2. /\ it_to_idx(3) = 1 /\ it_to_idx(2) = 2 /\ it_to_idx(1) = 3
      /\ it_to_idx(0) = 4 /\ it_to_idx(8) = 5 /\ it_to_idx(12) = 6
  BY DEF it_to_idx, it_values, ALS_IT_25MS, ALS_IT_50MS, ALS_IT_100MS, ALS_IT_200MS,
         ALS_IT_400MS, ALS_IT_800MS
<1> QED
  BY <1>1, <1>2

(* The sensor finds in its register the two codes that were put there.      *)
LEMMA Decoded ==
  ASSUME NEW g \in Gains, NEW t \in Times
  PROVE  /\ ConfigRegister(g, t) \in Nat
         /\ RegGain(ConfigRegister(g, t)) = g /\ RegIt(ConfigRegister(g, t)) = t
<1> DEFINE n == g * 2048 + t * 64
<1>1. ConfigRegister(g, t) = n
  BY DEF ConfigRegister
<1>2. n \in Nat /\ g \in 0 .. 3 /\ t \in 0 .. 15
  BY Codes
<1>3. n \div 2048 = g
  BY <1>2
<1>4. n \div 64 = 32 * g + t
  BY <1>2
<1> HIDE DEF n
<1>5. RegGain(n) = (n \div 2048) % 4 /\ RegIt(n) = (n \div 64) % 16
  BY DEF RegGain, RegIt
<1>6. g % 4 = g
  BY <1>2
<1>7. (32 * g + t) % 16 = t
  BY <1>2
<1> QED
  BY <1>1, <1>2, <1>3, <1>4, <1>5, <1>6, <1>7

(* The two factors of Sensitivity.                                          *)
LEMMA SensitivityOf ==
  ASSUME NEW g \in Gains, NEW t \in Times
  PROVE  Sensitivity(ConfigRegister(g, t))
           = (CASE g = 1 -> 16 [] g = 0 -> 8 [] g = 3 -> 2 [] g = 2 -> 1)
             * (CASE t = 12 -> 1 [] t = 8 -> 2 [] t = 0 -> 4 [] t = 1 -> 8 [] t = 2 -> 16 [] t = 3 -> 32)
<1>1. RegGain(ConfigRegister(g, t)) = g /\ RegIt(ConfigRegister(g, t)) = t
  BY Decoded
<1>2. CASE g = 0
  BY <1>1, <1>2, Codes DEF Sensitivity
<1>3. CASE g = 1
  BY <1>1, <1>3, Codes DEF Sensitivity
<1>4. CASE g = 2
  BY <1>1, <1>4, Codes DEF Sensitivity
<1>5. CASE g = 3
  BY <1>1, <1>5, Codes DEF Sensitivity
<1> QED
  BY <1>2, <1>3, <1>4, <1>5, Codes

(* One lux value for one light, whatever the gain and the time; and the     *)
(* table of ranges is that of the resolutions, to less than a lux.          *)
LEMMA TablesAgree ==
  ASSUME NEW g \in Gains, NEW t \in Times
  PROVE  /\ get_resolution(g, t) \in Nat /\ get_max_illumination(g, t) \in Nat
         /\ Sensitivity(ConfigRegister(g, t)) \in Nat \ {0}
         /\ get_resolution(g, t) * Sensitivity(ConfigRegister(g, t)) = LuxPerLight
         /\ get_max_illumination(g, t) * 10000 - MaxCount * get_resolution(g, t) < 10000
         /\ MaxCount * get_resolution(g, t) - get_max_illumination(g, t) * 10000 < 10000
<1> USE Codes, Indices, SensitivityOf DEF get_resolution, get_max_illumination, LuxPerLight, MaxCount
<1>1. CASE g = 0
  BY <1>1
<1>2. CASE g = 1
  BY <1>2
<1>3. CASE g = 2
  BY <1>3
<1>4. CASE g = 3
  BY <1>4
<1> QED
  BY <1>1, <1>2, <1>3, <1>4

(* autorange answers with codes of the tables, and asks the least sensitive *)
(* gain for more when the count is too low.                                 *)
LEMMA AutorangeFacts ==
  ASSUME NEW g \in Gains, NEW t \in Times, NEW count \in Nat
  PROVE  /\ autorange(g, t, count).gain \in Gains /\ autorange(g, t, count).it \in Times
         /\ g = ALS_GAIN_1_8 /\ count = 0 => autorange(g, t, count).gain # g
<1> USE DEF ALS_GAIN_2, ALS_GAIN_1, ALS_GAIN_1_4, ALS_GAIN_1_8, ALS_IT_25MS, ALS_IT_50MS,
            ALS_IT_100MS, ALS_IT_200MS, ALS_IT_400MS, ALS_IT_800MS, ALS_COUNT_LO, ALS_COUNT_HI
<1>1. g # ALS_GAIN_2 => gain_values[gain_to_idx(g) - 1] \in Gains \ {g}
  BY Codes, Indices DEF gain_values
<1>2. g # ALS_GAIN_1_8 => gain_values[gain_to_idx(g) + 1] \in Gains
  BY Codes, Indices DEF gain_values
<1>3. t # ALS_IT_800MS => it_values[it_to_idx(t) - 1] \in Times
  BY Codes, Indices DEF it_values
<1>4. t # ALS_IT_25MS => it_values[it_to_idx(t) + 1] \in Times
  BY Codes, Indices DEF it_values
<1> DEFINE less == gain_values[gain_to_idx(g) + 1]
           more == gain_values[gain_to_idx(g) - 1]
           longer == it_values[it_to_idx(t) - 1]
           shorter == it_values[it_to_idx(t) + 1]
<1>5. autorange(g, t, count) =
        IF count <= ALS_COUNT_LO
          THEN IF g # ALS_GAIN_2 THEN [gain |-> more, it |-> t]
               ELSE IF t # ALS_IT_800MS THEN [gain |-> g, it |-> longer]
               ELSE [gain |-> g, it |-> t]
        ELSE IF count >= ALS_COUNT_HI
          THEN IF t # ALS_IT_25MS THEN [gain |-> g, it |-> shorter]
               ELSE IF g # ALS_GAIN_1_8 THEN [gain |-> less, it |-> t]
               ELSE [gain |-> g, it |-> t]
        ELSE [gain |-> g, it |-> t]
  BY DEF autorange
<1> HIDE DEF less, more, longer, shorter
<1> QED
  BY <1>1, <1>2, <1>3, <1>4, <1>5 DEF less, more, longer, shorter

(*--------------------------------- time -----------------------------------*)

It(t) == MsToTicks(it_to_ms(t))

(* Up to RD_PERIOD_MS the multiplication of pit_ms_to_ticks does not wrap.  *)
LEMMA NoWrap ==
  ASSUME NEW n \in 0 .. 40
  PROVE  pit_ms_to_ticks(n) = n * PitMsTicks /\ n * PitMsTicks \in Nat
<1> DEFINE a == n * PitMsTicks
           b == MaxUint32 + 1
<1>1. 40 * PitMsTicks <= MaxUint32
  BY UintAssumption DEF RD_PERIOD_MS, TickMs
<1>2. a \in Nat /\ a <= 40 * PitMsTicks /\ b \in Nat \ {0}
  BY PitAssumption
<1>3. a < b
  BY <1>1, <1>2, PitAssumption
<1> HIDE DEF a, b
<1>4. a % b = a
  BY <1>2, <1>3
<1> QED
  BY <1>2, <1>4 DEF a, b, pit_ms_to_ticks

(* An integration time and the remainder that is waited after it are the    *)
(* period together.                                                         *)
LEMMA Durations ==
  /\ Period \in Nat /\ Period \in Uint32
  /\ \A t \in Times :
       /\ It(t) \in Uint32 /\ It(t) \in Nat /\ It(t) <= Period
       /\ MsToTicks(Remaining(it_to_ms(t))) \in Uint32
       /\ MsToTicks(Remaining(it_to_ms(t))) = Period - It(t)
<1>1. Period = 40 * PitMsTicks
  <2>1. Period = pit_ms_to_ticks(40)
    BY DEF Period, MsToTicks, RD_PERIOD_MS, TickMs
  <2> QED
    BY <2>1, NoWrap
<1>2. Period \in Nat /\ Period \in Uint32
  BY <1>1, PitAssumption, UintAssumption DEF Uint32, RD_PERIOD_MS, TickMs
<1>3. ASSUME NEW t \in Times
      PROVE  /\ It(t) \in Nat /\ It(t) <= Period
             /\ MsToTicks(Remaining(it_to_ms(t))) = Period - It(t)
  <2>1. PICK n \in {1, 2, 4, 8, 16, 32} : it_to_ms(t) = 25 * n
    BY Codes DEF it_to_ms, ALS_IT_25MS, ALS_IT_50MS, ALS_IT_100MS, ALS_IT_200MS, ALS_IT_400MS
  <2>2. It(t) = pit_ms_to_ticks(n)
    BY <2>1 DEF It, MsToTicks, TickMs
  <2>3. MsToTicks(Remaining(it_to_ms(t))) = pit_ms_to_ticks(40 - n)
    <3>1. Remaining(25 * n) = 1000 - 25 * n
      BY DEF Remaining, RD_PERIOD_MS
    <3>2. (1000 - 25 * n) \div 25 = 40 - n
      OBVIOUS
    <3> QED
      BY <2>1, <3>1, <3>2 DEF MsToTicks, TickMs
  <2>4. /\ pit_ms_to_ticks(n) = n * PitMsTicks
        /\ pit_ms_to_ticks(40 - n) = (40 - n) * PitMsTicks
    BY NoWrap
  <2>5. /\ n * PitMsTicks \in Nat /\ (40 - n) * PitMsTicks = 40 * PitMsTicks - n * PitMsTicks
        /\ n * PitMsTicks <= 40 * PitMsTicks
    BY PitAssumption
  <2> QED
    BY <1>1, <2>2, <2>3, <2>4, <2>5
<1>4. \A t \in Times : It(t) \in 0 .. Period /\ Period - It(t) \in 0 .. Period
  BY <1>2, <1>3
<1>5. 0 .. Period \subseteq Uint32
  BY <1>2, PitAssumption DEF Uint32
<1> QED
  BY <1>2, <1>3, <1>4, <1>5

(*--------------------------------- types ----------------------------------*)

DevType == [gain : Gains, it : Times, res : Nat, max_lux : Nat,
            st : {"READY", "WAIT_IT"}, it_timer_id : Int]
SensorType == [reg : Registers, prev : Registers, age : 0 .. Period]
LuxType == [count : 0 .. MaxCount, value : Int, light : Nat, actual : Int, ranged : BOOLEAN]

(* The timers are handed out in the order of the devices and stay theirs.   *)
TimerOf(d) == IF d < TimersArraySize THEN d ELSE -1

StateTypeOK ==
  /\ PitTypeOK
  /\ ndevs \in 0 .. MAX_NUM_DEV
  /\ dev \in [Devs -> DevType]
  /\ sensor \in [Devs -> SensorType]
  /\ lx \in [Devs -> LuxType]
  /\ light \in Lights
  /\ sinceRead \in [Devs -> 0 .. Period + 1]
  /\ visit \in Devs
  /\ \A d \in Devs : dev[d].it_timer_id = TimerOf(d)

(* A count fits its register, whatever the light.                          *)
LEMMA Counts ==
  ASSUME NEW reg \in Registers, light \in Lights
  PROVE  CountUnder(reg) \in 0 .. MaxCount
<1>1. CASE reg = Off
  BY <1>1 DEF CountUnder, MaxCount
<1>2. CASE reg # Off
  <2>1. Sensitivity(reg) \in Nat /\ light \in Nat
    BY <1>2, TablesAgree, VemlAssumption DEF Registers
  <2> DEFINE n == light * Sensitivity(reg)
  <2>2. n \in Nat /\ CountUnder(reg) = Saturated(n)
    BY <1>2, <2>1 DEF CountUnder
  <2> HIDE DEF n
  <2> QED
    BY <2>2 DEF Saturated, MaxCount
<1> QED
  BY <1>1, <1>2

(* What a transfer can bring and leave, the failed one included.            *)
LEMMA Transfers ==
  ASSUME StateTypeOK, NEW d \in Devs
  PROVE  /\ Effective(sensor[d]) \in Registers
         /\ read_reg(d) \subseteq 0 .. MaxCount
         /\ \A reg \in Registers : write_reg(sensor[d], reg) \subseteq SensorType
<1>1. sensor[d] \in SensorType /\ light \in Lights /\ Period \in Nat
  BY Durations DEF StateTypeOK
<1>2. Effective(sensor[d]) \in Registers
  BY <1>1 DEF Effective, SensorType
<1>3. read_reg(d) \subseteq 0 .. MaxCount
  <2>1. CountUnder(Effective(sensor[d])) \in 0 .. MaxCount
    BY <1>1, <1>2, Counts
  <2>2. Garbage \subseteq 0 .. MaxCount
    BY UintAssumption
  <2> QED
    BY <2>1, <2>2 DEF read_reg
<1>4. ASSUME NEW reg \in Registers PROVE Written(sensor[d], reg) \in SensorType
  BY <1>1, <1>2 DEF Written, SensorType
<1> QED
  BY <1>1, <1>2, <1>3, <1>4 DEF write_reg

(*------------------------------ serving a device --------------------------*)

Configured(d, g, t) ==
  [gain |-> g, it |-> t, res |-> get_resolution(g, t), max_lux |-> get_max_illumination(g, t),
   st |-> "WAIT_IT", it_timer_id |-> TimerOf(d)]

(* The three outcomes of a visit to a device that is due: the configuration *)
(* moves, or it is kept and the count taken, or the count is taken that was *)
(* waited for.                                                              *)
Moves(d) ==
  \E count \in read_reg(d), g \in Gains, t \in Times :
    /\ autorange(dev[d].gain, dev[d].it, count) = [gain |-> g, it |-> t]
    /\ dev' = [dev EXCEPT ![d] = Configured(d, g, t)]
    /\ \E s \in write_reg(sensor[d], ConfigRegister(g, t)) : sensor' = [sensor EXCEPT ![d] = s]
    /\ Rearm(d, It(t))
    /\ sinceRead' = [sinceRead EXCEPT ![d] = 0]
    /\ UNCHANGED lx

Keeps(d) ==
  \E count \in read_reg(d) :
    /\ autorange(dev[d].gain, dev[d].it, count).gain = dev[d].gain
    /\ lx' = [lx EXCEPT ![d] = Lux(d, count, TRUE)]
    /\ Rearm(d, Period)
    /\ sinceRead' = [sinceRead EXCEPT ![d] = 0]
    /\ UNCHANGED <<dev, sensor>>

Takes(d) ==
  \E count \in read_reg(d) :
    /\ lx' = [lx EXCEPT ![d] = Lux(d, count, FALSE)]
    /\ Rearm(d, Period - It(dev[d].it))
    /\ dev' = [dev EXCEPT ![d].st = "READY"]
    /\ UNCHANGED <<sensor, sinceRead>>

(* What autorange answers has a gain and a time, and nothing else.         *)
LEMMA AutorangeIsRecord ==
  ASSUME NEW g, NEW t, NEW count
  PROVE  autorange(g, t, count)
           = [gain |-> autorange(g, t, count).gain, it |-> autorange(g, t, count).it]
BY DEF autorange

(* set_and_send_config changes exactly the configuration of its device.    *)
LEMMA ConfiguredIs ==
  ASSUME NEW d, dev[d] \in DevType, dev[d].it_timer_id = TimerOf(d), NEW g, NEW t
  PROVE  [WithConfig(dev[d], g, t) EXCEPT !.st = "WAIT_IT"] = Configured(d, g, t)
<1> DEFINE dv == dev[d]
           res == get_resolution(g, t)
           top == get_max_illumination(g, t)
<1>1. dv = [gain |-> dv.gain, it |-> dv.it, res |-> dv.res, max_lux |-> dv.max_lux,
            st |-> dv.st, it_timer_id |-> dv.it_timer_id]
  BY DEF DevType
<1>2. WithConfig(dv, g, t) = [dv EXCEPT !.gain = g, !.it = t, !.res = res, !.max_lux = top]
  BY DEF WithConfig
<1>3. Configured(d, g, t) = [gain |-> g, it |-> t, res |-> res, max_lux |-> top,
                            st |-> "WAIT_IT", it_timer_id |-> dv.it_timer_id]
  BY DEF Configured
<1> HIDE DEF dv, res, top
<1>4. WithConfig(dv, g, t) = [gain |-> g, it |-> t, res |-> res, max_lux |-> top,
                              st |-> dv.st, it_timer_id |-> dv.it_timer_id]
  BY <1>1, <1>2
<1>5. [WithConfig(dv, g, t) EXCEPT !.st = "WAIT_IT"] = Configured(d, g, t)
  BY <1>3, <1>4
<1> QED
  BY <1>5 DEF dv

(* Serve comes to one of the three outcomes.                               *)
LEMMA Visits ==
  ASSUME StateTypeOK, NEW d \in Devs, Serve(d)
  PROVE  /\ d < ndevs /\ d \in Ids /\ d < ntimers /\ counter[d] = limit[d]
         /\ \/ dev[d].st = "READY" /\ (Moves(d) \/ Keeps(d))
            \/ dev[d].st = "WAIT_IT" /\ Takes(d)
<1>1. dev[d] \in DevType /\ dev[d].it_timer_id = TimerOf(d)
  BY DEF StateTypeOK
<1>2. d \in Nat /\ d < ndevs /\ d \in Ids /\ d < ntimers /\ counter[d] = limit[d] /\ TimerOf(d) = d
  <2>1. d \in Nat /\ TimersArraySize \in Nat /\ ntimers \in 0 .. TimersArraySize
    BY VemlAssumption, PitAssumption DEF Devs, StateTypeOK, PitTypeOK
  <2>2. /\ d < ndevs /\ TimerOf(d) < ntimers /\ TimerOf(d) >= 0
        /\ counter[TimerOf(d)] = limit[TimerOf(d)]
    BY <1>1 DEF Serve, Due, pit_elapsed, id_valid
  <2>3. TimerOf(d) = d /\ d < TimersArraySize
    BY <2>1, <2>2 DEF TimerOf
  <2> QED
    BY <2>1, <2>2, <2>3 DEF Ids
<1>3. CASE ReadReady(d)
  <2>1. dev[d].st = "READY" /\ sinceRead' = [sinceRead EXCEPT ![d] = 0]
    BY <1>3 DEF ReadReady
  <2>2. PICK count \in read_reg(d) :
          LET new == autorange(dev[d].gain, dev[d].it, count)
              cfg_changed == new.gain # dev[d].gain \/ new.it # dev[d].it
          IN  IF cfg_changed
                THEN /\ dev' = [dev EXCEPT ![d] =
                                 [WithConfig(@, new.gain, new.it) EXCEPT !.st = "WAIT_IT"]]
                     /\ \E s \in write_reg(sensor[d], ConfigRegister(new.gain, new.it)) :
                          sensor' = [sensor EXCEPT ![d] = s]
                     /\ Rearm(dev[d].it_timer_id, MsToTicks(it_to_ms(new.it)))
                     /\ UNCHANGED lx
                ELSE /\ lx' = [lx EXCEPT ![d] = Lux(d, count, TRUE)]
                     /\ Rearm(dev[d].it_timer_id, Period)
                     /\ UNCHANGED <<dev, sensor>>
    BY <1>3 DEF ReadReady
  <2> DEFINE g == autorange(dev[d].gain, dev[d].it, count).gain
             t == autorange(dev[d].gain, dev[d].it, count).it
  <2>3. g \in Gains /\ t \in Times
    <3>1. count \in 0 .. MaxCount
      BY Transfers
    <3>2. count \in Nat
      BY <3>1 DEF MaxCount
    <3> QED
      BY <1>1, <3>2, AutorangeFacts DEF DevType
  <2>4. autorange(dev[d].gain, dev[d].it, count) = [gain |-> g, it |-> t]
    BY AutorangeIsRecord
  <2>5. CASE g # dev[d].gain \/ t # dev[d].it
    <3>1. /\ dev' = [dev EXCEPT ![d] = [WithConfig(dev[d], g, t) EXCEPT !.st = "WAIT_IT"]]
          /\ \E s \in write_reg(sensor[d], ConfigRegister(g, t)) : sensor' = [sensor EXCEPT ![d] = s]
          /\ Rearm(d, It(t))
          /\ UNCHANGED lx
      BY <1>1, <1>2, <2>2, <2>5 DEF It
    <3> HIDE DEF g, t
    <3>2. [WithConfig(dev[d], g, t) EXCEPT !.st = "WAIT_IT"] = Configured(d, g, t)
      BY <1>1, ConfiguredIs
    <3>3. Moves(d)
      BY <2>1, <2>3, <2>4, <3>1, <3>2 DEF Moves
    <3> QED
      BY <1>2, <2>1, <3>3
  <2>6. CASE g = dev[d].gain /\ t = dev[d].it
    <3>1. Keeps(d)
      BY <1>1, <1>2, <2>1, <2>2, <2>6 DEF Keeps
    <3> QED
      BY <1>2, <2>1, <3>1
  <2> QED
    BY <2>5, <2>6
<1>4. CASE ReadWaited(d)
  <2>1. /\ dev[d].st = "WAIT_IT" /\ dev' = [dev EXCEPT ![d].st = "READY"]
        /\ \E count \in read_reg(d) : lx' = [lx EXCEPT ![d] = Lux(d, count, FALSE)]
        /\ Rearm(d, MsToTicks(Remaining(it_to_ms(dev[d].it))))
        /\ UNCHANGED <<sensor, sinceRead>>
    BY <1>1, <1>2, <1>4 DEF ReadWaited
  <2>2. MsToTicks(Remaining(it_to_ms(dev[d].it))) = Period - It(dev[d].it)
    BY <1>1, Durations DEF DevType
  <2> QED
    BY <1>2, <2>1, <2>2 DEF Takes
<1> QED
  BY <1>3, <1>4 DEF Serve

(* After veml7700_init the tables are well-formed.                         *)
LEMMA InitTypes == Init => StateTypeOK
<1> SUFFICES ASSUME Init PROVE StateTypeOK
  OBVIOUS
<1> DEFINE g == ALS_GAIN_1_8
           t == ALS_IT_100MS
           res == get_resolution(g, t)
           top == get_max_illumination(g, t)
           off == [reg |-> Off, prev |-> Off, age |-> Period]
           reg == ConfigRegister(g, t)
<1>1. g \in Gains /\ t \in Times
  BY DEF Gains, Times
<1>2. res \in Nat /\ top \in Nat
  BY <1>1, TablesAgree
<1>3. Period \in Nat /\ Period \in Uint32 /\ 0 \in Uint32
  BY Durations, PitAssumption DEF Uint32
<1>4. off \in SensorType /\ reg \in Registers
  BY <1>1, <1>3 DEF SensorType, Registers
<1>5. dev = [d \in Devs |-> [gain |-> g, it |-> t, res |-> res, max_lux |-> top,
                            st |-> "READY", it_timer_id |-> TimerOf(d)]]
  BY DEF Init, veml7700_init, default_config, TimerOf
<1> HIDE DEF g, t, res, top, reg
<1>6. dev \in [Devs -> DevType] /\ \A d \in Devs : dev[d].it_timer_id = TimerOf(d)
  <2>1. \A d \in Devs : TimerOf(d) \in Int
    BY VemlAssumption DEF TimerOf, Devs
  <2> QED
    BY <1>1, <1>2, <1>5, <2>1 DEF DevType
<1>7. sensor \in [Devs -> SensorType]
  <2>1. Effective(off) \in Registers
    BY DEF Effective, Registers
  <2>2. write_reg(off, reg) \subseteq SensorType
    BY <1>3, <1>4, <2>1 DEF write_reg, Written, SensorType
  <2>3. sensor \in [Devs -> {off} \cup write_reg(off, reg)]
    BY DEF Init, default_config, reg, g, t
  <2> HIDE DEF off
  <2> QED
    BY <1>4, <2>2, <2>3
<1>8. PitTypeOK
  BY <1>3, PitAssumption, VemlAssumption DEF Init, veml7700_init, PitTypeOK, Ids
<1>9. lx \in [Devs -> LuxType]
  BY DEF Init, NoLux, LuxType, MaxCount
<1>10. /\ ndevs \in 0 .. MAX_NUM_DEV /\ light \in Lights /\ visit \in Devs
       /\ sinceRead \in [Devs -> 0 .. Period + 1]
  BY <1>3, VemlAssumption DEF Init, Devs
<1> QED
  BY <1>6, <1>7, <1>8, <1>9, <1>10 DEF StateTypeOK

(* A timer of a device gets a new period and starts again.                  *)
LEMMA RearmTypes ==
  ASSUME PitTypeOK, NEW id \in Ids, NEW ticks \in Uint32, Rearm(id, ticks)
  PROVE  PitTypeOK'
<1>1. 0 \in Uint32
  BY PitAssumption DEF Uint32
<1> QED
  BY <1>1 DEF Rearm, PitTypeOK

(* A tick keeps counters, ages and times since a reading within bounds.    *)
LEMMA TickTypes ==
  ASSUME StateTypeOK, Tick
  PROVE  StateTypeOK'
<1>1. PitTypeOK'
  BY PitAssumption DEF Tick, StateTypeOK, pit_callback, PitTypeOK, Ids, Uint32
<1>2. \A n \in 0 .. Period : Older(n) \in 0 .. Period
  BY Durations DEF Older
<1>3. sensor' \in [Devs -> SensorType]
  <2>1. \A d \in Devs : [sensor[d] EXCEPT !.age = Older(@)] \in SensorType
    BY <1>2 DEF StateTypeOK, SensorType
  <2> QED
    BY <2>1 DEF Tick
<1>4. sinceRead' \in [Devs -> 0 .. Period + 1]
  <2>1. \A n \in 0 .. Period + 1 : Longer(n) \in 0 .. Period + 1
    BY Durations DEF Longer
  <2> QED
    BY <2>1 DEF Tick, StateTypeOK
<1> QED
  BY <1>1, <1>3, <1>4 DEF Tick, StateTypeOK

(* Adding a device writes a register of the tables.                        *)
LEMMA AddTypes ==
  ASSUME StateTypeOK, veml7700_add_dev
  PROVE  StateTypeOK'
<1>1. ndevs \in Devs /\ ndevs' \in 0 .. MAX_NUM_DEV
  BY VemlAssumption DEF veml7700_add_dev, StateTypeOK, Devs
<1>2. ConfigRegister(dev[ndevs].gain, dev[ndevs].it) \in Registers
  BY <1>1 DEF Registers, StateTypeOK, DevType
<1>3. sensor' \in [Devs -> SensorType]
  BY <1>1, <1>2, Transfers DEF veml7700_add_dev, StateTypeOK
<1> QED
  BY <1>1, <1>3 DEF veml7700_add_dev, StateTypeOK, pitVars, PitTypeOK

(* A lux value is computed from a count that fits.                         *)
LEMMA LuxTypes ==
  ASSUME StateTypeOK, NEW d \in Devs, NEW count \in read_reg(d), NEW ranged \in BOOLEAN
  PROVE  [lx EXCEPT ![d] = Lux(d, count, ranged)] \in [Devs -> LuxType]
<1>1. count \in 0 .. MaxCount /\ count \in Int
  BY Transfers
<1>2. dev[d].res \in Nat /\ light \in Nat
  BY VemlAssumption DEF StateTypeOK, DevType
<1>3. count * dev[d].res \in Int
  BY <1>1, <1>2
<1>4. CountUnder(Effective(sensor[d])) \in Int
  <2>1. CountUnder(Effective(sensor[d])) \in 0 .. MaxCount
    BY Transfers, Counts DEF StateTypeOK
  <2> QED
    BY <2>1
<1>5. Lux(d, count, ranged) \in LuxType
  BY <1>1, <1>2, <1>3, <1>4 DEF Lux, LuxType
<1> QED
  BY <1>5 DEF StateTypeOK

(* A visit to a device, each of its outcomes in turn.                      *)
LEMMA ServeTypes ==
  ASSUME StateTypeOK, NEW d \in Devs, Serve(d), UNCHANGED <<ndevs, light>>, visit' \in Devs
  PROVE  StateTypeOK'
<1>1. d \in Ids
  BY Visits
<1>2. CASE Moves(d)
  <2>1. PICK g \in Gains, t \in Times :
          /\ dev' = [dev EXCEPT ![d] = Configured(d, g, t)]
          /\ \E s \in write_reg(sensor[d], ConfigRegister(g, t)) : sensor' = [sensor EXCEPT ![d] = s]
          /\ Rearm(d, It(t))
    BY <1>2 DEF Moves
  <2>2. PitTypeOK'
    BY <1>1, <2>1, Durations, RearmTypes DEF StateTypeOK
  <2>3. Configured(d, g, t) \in DevType /\ Configured(d, g, t).it_timer_id = TimerOf(d)
    <3>1. TimerOf(d) \in Int
      BY VemlAssumption DEF TimerOf, Devs
    <3> QED
      BY <3>1, TablesAgree DEF Configured, DevType
  <2>4. dev' \in [Devs -> DevType] /\ \A k \in Devs : dev'[k].it_timer_id = TimerOf(k)
    BY <2>1, <2>3 DEF StateTypeOK
  <2>5. sensor' \in [Devs -> SensorType]
    BY <2>1, Transfers DEF StateTypeOK, Registers
  <2>6. sinceRead' \in [Devs -> 0 .. Period + 1] /\ UNCHANGED lx
    BY <1>2, Durations DEF Moves, StateTypeOK
  <2> QED
    BY <2>2, <2>4, <2>5, <2>6 DEF StateTypeOK
<1>3. CASE Keeps(d)
  <2>1. PitTypeOK'
    BY <1>1, <1>3, Durations, RearmTypes DEF Keeps, StateTypeOK
  <2>2. lx' \in [Devs -> LuxType]
    <3>1. PICK count \in read_reg(d) : lx' = [lx EXCEPT ![d] = Lux(d, count, TRUE)]
      BY <1>3 DEF Keeps
    <3> QED
      BY <3>1, LuxTypes
  <2>3. sinceRead' \in [Devs -> 0 .. Period + 1] /\ UNCHANGED <<dev, sensor>>
    BY <1>3, Durations DEF Keeps, StateTypeOK
  <2> QED
    BY <2>1, <2>2, <2>3 DEF StateTypeOK
<1>4. CASE Takes(d)
  <2>1. Period - It(dev[d].it) \in Uint32
    BY Durations DEF StateTypeOK, DevType
  <2>2. PitTypeOK'
    BY <1>1, <1>4, <2>1, RearmTypes DEF Takes, StateTypeOK
  <2>3. lx' \in [Devs -> LuxType]
    <3>1. PICK count \in read_reg(d) : lx' = [lx EXCEPT ![d] = Lux(d, count, FALSE)]
      BY <1>4 DEF Takes
    <3> QED
      BY <3>1, LuxTypes
  <2>4. dev' \in [Devs -> DevType] /\ \A k \in Devs : dev'[k].it_timer_id = TimerOf(k)
    <3>1. dev' = [dev EXCEPT ![d].st = "READY"]
      BY <1>4 DEF Takes
    <3>2. [dev[d] EXCEPT !.st = "READY"] \in DevType
      BY DEF StateTypeOK, DevType
    <3>3. [dev[d] EXCEPT !.st = "READY"].it_timer_id = dev[d].it_timer_id
      BY DEF StateTypeOK, DevType
    <3> QED
      BY <3>1, <3>2, <3>3 DEF StateTypeOK
  <2> QED
    BY <1>4, <2>2, <2>3, <2>4 DEF Takes, StateTypeOK
<1> QED
  BY <1>2, <1>3, <1>4, Visits

(* One turn of the loop serves the device it looks at, or touches nothing.  *)
LEMMA Turn ==
  ASSUME StateTypeOK, veml7700_main
  PROVE  /\ visit' \in Devs /\ UNCHANGED <<ndevs, light>>
         /\ \/ Serve(visit)
            \/ ~Due(visit) /\ UNCHANGED <<pitVars, dev, sensor, lx, sinceRead>>
BY VemlAssumption DEF veml7700_main, StateTypeOK, Devs

(* StateTypeOK is inductive, with a bus that fails too.                    *)
LEMMA StepTypes == StateTypeOK /\ [Next]_vars => StateTypeOK'
<1> SUFFICES ASSUME StateTypeOK, [Next]_vars PROVE StateTypeOK'
  OBVIOUS
<1>1. CASE veml7700_main
  <2>1. CASE Serve(visit)
    BY <1>1, <2>1, Turn, ServeTypes DEF StateTypeOK
  <2>2. CASE UNCHANGED <<pitVars, dev, sensor, lx, sinceRead>>
    BY <1>1, <2>2, Turn DEF StateTypeOK, pitVars, PitTypeOK
  <2> QED
    BY <1>1, <2>1, <2>2, Turn
<1>2. CASE LightChange
  BY <1>2 DEF LightChange, StateTypeOK, pitVars, PitTypeOK
<1>3. CASE UNCHANGED vars
  BY <1>3 DEF vars, StateTypeOK, PitTypeOK
<1> QED
  BY <1>1, <1>2, <1>3, TickTypes, AddTypes DEF Next

(* So it holds in every state.                                             *)
LEMMA Typed == Spec => []StateTypeOK
BY InitTypes, StepTypes, PTL DEF Spec

(* The types that the run checks, with a bus that fails as well.            *)
THEOREM Typing == Spec => []TypeOK
<1>1. StateTypeOK => TypeOK
  <2>1. /\ Gains \subseteq {gain_values[k] : k \in 1 .. 4}
        /\ Times \subseteq {it_values[k] : k \in 1 .. 6}
    BY DEF Gains, Times, gain_values, it_values
  <2> QED
    BY <2>1 DEF StateTypeOK, TypeOK, DevType, SensorType, LuxType
<1> QED
  BY <1>1, Typed, PTL

(*------------------------- the period of the readings ---------------------*)

(* While a device waits for an integration time its timer has counted the   *)
(* ticks since the reading before; afterwards, what is left on the timer    *)
(* makes up the rest of the period.                                         *)
Timed(d) ==
  /\ d < ntimers => counter[d] <= limit[d]
  /\ dev[d].st = "READY" /\ d < ntimers => sinceRead[d] + limit[d] = Period + counter[d]
  /\ dev[d].st = "WAIT_IT" =>
       d < ntimers /\ limit[d] = It(dev[d].it) /\ counter[d] = sinceRead[d]

TimeInv == StateTypeOK /\ \A d \in Devs : Timed(d)

(* What a visit to another device leaves alone.                             *)
LEMMA OthersStay ==
  ASSUME StateTypeOK, NEW d \in Devs, Serve(d), NEW k \in Devs, k # d
  PROVE  /\ UNCHANGED <<dev[k], sensor[k], lx[k], sinceRead[k], ntimers>>
         /\ k \in Ids => UNCHANGED <<counter[k], limit[k]>>
<1>1. CASE Moves(d)
  BY <1>1 DEF Moves, Rearm, StateTypeOK, PitTypeOK
<1>2. CASE Keeps(d)
  BY <1>2 DEF Keeps, Rearm, StateTypeOK, PitTypeOK
<1>3. CASE Takes(d)
  BY <1>3 DEF Takes, Rearm, StateTypeOK, PitTypeOK
<1> QED
  BY <1>1, <1>2, <1>3, Visits

(* The timer of the device that was served starts again.                    *)
LEMMA Restarted ==
  ASSUME PitTypeOK, NEW d \in Ids, NEW ticks, Rearm(d, ticks)
  PROVE  counter'[d] = 0 /\ limit'[d] = ticks /\ ntimers' = ntimers
BY DEF Rearm, PitTypeOK

(* One tick, seen by one device and its timer.                             *)
LEMMA TickTimes ==
  ASSUME StateTypeOK, Tick, NEW d \in Devs
  PROVE  /\ UNCHANGED <<dev, ntimers, limit, ndevs, lx, light>>
         /\ sensor'[d].age = IF sensor[d].age < Period THEN sensor[d].age + 1 ELSE sensor[d].age
         /\ sensor'[d].reg = sensor[d].reg /\ sensor'[d].prev = sensor[d].prev
         /\ d < ntimers => /\ d \in Ids
                           /\ counter[d] \in Nat /\ limit[d] \in Nat
                           /\ counter'[d] = IF counter[d] < limit[d] THEN counter[d] + 1
                                            ELSE counter[d]
                           /\ sinceRead'[d] = IF counter[d] = limit[d] THEN sinceRead[d]
                                              ELSE Longer(sinceRead[d])
<1>1. sensor'[d] = [sensor[d] EXCEPT !.age = Older(@)]
  BY DEF Tick
<1>0. d < ntimers => sinceRead'[d] = IF counter[d] = limit[d] THEN sinceRead[d]
                                     ELSE Longer(sinceRead[d])
  <2> SUFFICES ASSUME d < ntimers
               PROVE  sinceRead'[d] = IF counter[d] = limit[d] THEN sinceRead[d]
                                      ELSE Longer(sinceRead[d])
    OBVIOUS
  <2>1. dev[d].it_timer_id = d
    BY PitAssumption, VemlAssumption DEF StateTypeOK, TimerOf, PitTypeOK, Devs
  <2>2. pit_elapsed(d) <=> counter[d] = limit[d]
    BY VemlAssumption DEF pit_elapsed, id_valid, Devs
  <2> QED
    BY <2>1, <2>2 DEF Tick
<1>2. sensor[d] \in SensorType
  BY DEF StateTypeOK
<1>3. d < ntimers => d \in Ids
  BY PitAssumption, VemlAssumption DEF StateTypeOK, PitTypeOK, Ids, Devs
<1>4. d \in Ids => counter[d] \in Nat /\ limit[d] \in Nat
  BY PitAssumption DEF StateTypeOK, PitTypeOK, Uint32
<1>5. UNCHANGED <<dev, ntimers, limit, ndevs, lx, light>>
  BY DEF Tick, pit_callback
<1>6. d \in Ids /\ d < ntimers => counter'[d] = IF counter[d] < limit[d] THEN counter[d] + 1 ELSE counter[d]
  BY DEF Tick, pit_callback
<1> QED
  BY <1>0, <1>1, <1>2, <1>3, <1>4, <1>5, <1>6 DEF Older, SensorType

(* TimeInv is inductive: a visit sets the timer of its own device only.    *)
LEMMA StepTimes == TimeInv /\ [Next]_vars => TimeInv'
<1> SUFFICES ASSUME TimeInv, [Next]_vars PROVE TimeInv'
  OBVIOUS
<1>0. StateTypeOK /\ StateTypeOK'
  BY StepTypes DEF TimeInv
<1> SUFFICES ASSUME NEW d \in Devs PROVE Timed(d)'
  BY <1>0 DEF TimeInv
<1>1. Timed(d) /\ Period \in Nat /\ dev[d] \in DevType /\ sinceRead[d] \in 0 .. Period + 1
  BY <1>0, Durations DEF TimeInv, StateTypeOK
<1>2. It(dev[d].it) \in Nat /\ It(dev[d].it) <= Period
  BY <1>1, Durations DEF DevType
<1>3. ASSUME UNCHANGED <<dev[d], sinceRead[d], ntimers>>, d \in Ids => UNCHANGED <<counter[d], limit[d]>>
      PROVE  Timed(d)'
  <2>1. d < ntimers => d \in Ids
    BY <1>0, PitAssumption, VemlAssumption DEF StateTypeOK, PitTypeOK, Ids, Devs
  <2> QED
    BY <1>1, <1>3, <2>1 DEF Timed
<1>4. CASE Tick
  <2>1. CASE dev[d].st = "READY" /\ d < ntimers
    BY <1>0, <1>1, <1>4, <2>1, TickTimes DEF Timed, Longer
  <2>2. CASE dev[d].st = "WAIT_IT"
    BY <1>0, <1>1, <1>2, <1>4, <2>2, TickTimes DEF Timed, Longer
  <2>3. CASE dev[d].st = "READY" /\ ~(d < ntimers)
    BY <1>0, <1>4, <2>3, TickTimes DEF Timed
  <2> QED
    BY <1>1, <2>1, <2>2, <2>3 DEF DevType
<1>5. CASE veml7700_main
  <2>1. CASE Serve(visit) /\ visit # d
    BY <1>0, <1>3, <2>1, OthersStay DEF StateTypeOK
  <2>2. CASE Serve(visit) /\ visit = d
    <3>1. d \in Ids /\ d < ntimers /\ counter[d] = limit[d] /\ counter[d] \in Nat
      BY <1>0, <2>2, Visits, PitAssumption DEF StateTypeOK, PitTypeOK, Uint32
    <3>2. CASE Moves(d)
      <4>1. PICK t \in Times, g \in Gains : dev' = [dev EXCEPT ![d] = Configured(d, g, t)] /\ Rearm(d, It(t))
        BY <3>2 DEF Moves
      <4>2. counter'[d] = 0 /\ limit'[d] = It(t) /\ ntimers' = ntimers /\ sinceRead'[d] = 0
        BY <1>0, <3>1, <3>2, <4>1, Restarted DEF Moves, StateTypeOK
      <4>3. dev'[d].st = "WAIT_IT" /\ dev'[d].it = t
        BY <1>0, <4>1 DEF Configured, StateTypeOK
      <4>4. It(t) \in Nat
        BY Durations
      <4> QED
        BY <3>1, <4>2, <4>3, <4>4 DEF Timed
    <3>3. CASE dev[d].st = "READY" /\ Keeps(d)
      <4>1. counter'[d] = 0 /\ limit'[d] = Period /\ ntimers' = ntimers /\ sinceRead'[d] = 0 /\ dev' = dev
        BY <1>0, <3>1, <3>3, Restarted DEF Keeps, StateTypeOK
      <4> QED
        BY <1>1, <3>3, <4>1 DEF Timed
    <3>4. CASE dev[d].st = "WAIT_IT" /\ Takes(d)
      <4>1. counter'[d] = 0 /\ limit'[d] = Period - It(dev[d].it) /\ ntimers' = ntimers
        BY <1>0, <3>1, <3>4, Restarted DEF Takes, StateTypeOK
      <4>2. dev'[d].st = "READY" /\ sinceRead' = sinceRead
        BY <1>0, <3>4 DEF Takes, StateTypeOK, DevType
      <4>3. sinceRead[d] = It(dev[d].it)
        BY <1>1, <3>1, <3>4 DEF Timed
      <4> QED
        BY <1>1, <1>2, <4>1, <4>2, <4>3 DEF Timed
    <3> QED
      BY <1>0, <2>2, <3>2, <3>3, <3>4, Visits
  <2>3. CASE UNCHANGED <<pitVars, dev, sensor, lx, sinceRead>>
    BY <1>3, <2>3 DEF pitVars
  <2> QED
    BY <1>0, <1>5, <2>1, <2>2, <2>3, Turn
<1>6. CASE LightChange \/ veml7700_add_dev
  BY <1>3, <1>6 DEF LightChange, veml7700_add_dev, pitVars
<1>7. CASE UNCHANGED vars
  BY <1>3, <1>7 DEF vars
<1> QED
  BY <1>4, <1>5, <1>6, <1>7 DEF Next

(* The first period starts with the timer, in veml7700_init.               *)
LEMMA InitTimes == Init => TimeInv
<1> SUFFICES ASSUME Init, NEW d \in Devs PROVE Timed(d)
  BY InitTypes DEF TimeInv
<1>1. dev[d].st = "READY" /\ sinceRead[d] = 0 /\ Period \in Nat
  BY Durations DEF Init, veml7700_init
<1>2. d < ntimers => counter[d] = 0 /\ limit[d] = Period
  BY VemlAssumption, PitAssumption DEF Init, veml7700_init, Devs, Ids
<1> QED
  BY <1>1, <1>2 DEF Timed

(* So it holds in every state.                                             *)
LEMMA TimesHold == Spec => []TimeInv
BY InitTimes, StepTimes, PTL DEF Spec

(* Readings that may range a device are a period apart, no less and but for *)
(* the lateness of the superloop no more, whatever the waits in between,    *)
(* and with a bus that fails.                                               *)
THEOREM PeriodIsKept == Spec => RangingKeepsPeriod
<1>1. TimeInv /\ [Next]_vars => [\A d \in Devs : RangesNow(d) => sinceRead[d] = Period]_vars
  <2> SUFFICES ASSUME TimeInv, NEW d \in Devs, RangesNow(d) PROVE sinceRead[d] = Period
    OBVIOUS
  <2>1. StateTypeOK /\ Timed(d) /\ dev[d].st = "READY" /\ Serve(d)
    BY Turn DEF TimeInv, RangesNow
  <2>2. d \in Ids /\ d < ntimers /\ counter[d] = limit[d]
    BY <2>1, Visits
  <2>3. counter[d] \in Nat /\ Period \in Nat /\ sinceRead[d] \in 0 .. Period + 1
    BY <2>1, <2>2, Durations, PitAssumption DEF StateTypeOK, PitTypeOK, Uint32
  <2> QED
    BY <2>1, <2>2, <2>3 DEF Timed
<1> QED
  BY <1>1, TimesHold, PTL DEF Spec, RangingKeepsPeriod

(*--------------------- what a lux value is computed from ------------------*)

(* The resolution and the range are those of the configuration.             *)
Scaled(d) ==
  /\ dev[d].res = get_resolution(dev[d].gain, dev[d].it)
  /\ dev[d].max_lux = get_max_illumination(dev[d].gain, dev[d].it)

(* A sensor has been told its configuration when its device was added, and  *)
(* nothing before that.                                                     *)
Told(d) ==
  IF d < ndevs
    THEN sensor[d].reg = ConfigRegister(dev[d].gain, dev[d].it)
    ELSE /\ sensor[d].reg = Off /\ sensor[d].prev = Off
         /\ dev[d].st = "READY" /\ dev[d].gain = ALS_GAIN_1_8

(* The register has been integrated by the time the count is taken; a count *)
(* that is read before, of a device just added, is 0.                       *)
Integrated(d) ==
  /\ dev[d].st = "WAIT_IT" => counter[d] <= sensor[d].age
  /\ dev[d].st = "READY" /\ d < ndevs =>
       \/ sensor[d].age >= It(dev[d].it)
       \/ sensor[d].prev = Off /\ dev[d].gain = ALS_GAIN_1_8

LuxRight(d) == lx[d].count < MaxCount => lx[d].value = lx[d].light * LuxPerLight

SensorInv == TimeInv /\ \A d \in Devs : Scaled(d) /\ Told(d) /\ Integrated(d) /\ LuxRight(d)

(* An unsaturated count of an integrated register, scaled, is the light.   *)
LEMMA CountsInLux ==
  ASSUME NEW g \in Gains, NEW t \in Times, light \in Lights,
         CountUnder(ConfigRegister(g, t)) < MaxCount
  PROVE  CountUnder(ConfigRegister(g, t)) * get_resolution(g, t) = light * LuxPerLight
<1> DEFINE sens == Sensitivity(ConfigRegister(g, t))
           res == get_resolution(g, t)
           n == light * sens
<1>1. /\ light \in Nat /\ sens \in Nat /\ res \in Nat /\ res * sens = LuxPerLight
      /\ ConfigRegister(g, t) \in Nat
  BY TablesAgree, Decoded, VemlAssumption
<1>2. CountUnder(ConfigRegister(g, t)) = Saturated(n)
  BY <1>1 DEF CountUnder, Off
<1>3. n \in Nat
  BY <1>1
<1> HIDE DEF sens, res
<1>4. n * res = light * (res * sens)
  BY <1>1
<1> HIDE DEF n
<1>5. Saturated(n) = n
  BY <1>2, <1>3 DEF Saturated, MaxCount
<1> QED
  BY <1>1, <1>2, <1>4, <1>5 DEF res

(* Which configuration a count reflects, in the driver's terms.            *)
LEMMA EffectiveIs ==
  ASSUME NEW d \in Devs, StateTypeOK, sensor[d].reg = ConfigRegister(dev[d].gain, dev[d].it)
  PROVE  Effective(sensor[d]) = IF sensor[d].age >= It(dev[d].it) THEN sensor[d].reg ELSE sensor[d].prev
<1>1. dev[d].gain \in Gains /\ dev[d].it \in Times
  BY DEF StateTypeOK, DevType
<1>2. RegIt(sensor[d].reg) = dev[d].it /\ sensor[d].reg # Off
  BY <1>1, Decoded DEF Off
<1> QED
  BY <1>2 DEF Effective, IntegrationTicks, It

(* A lux value is right if the register has been integrated.                *)
LEMMA LuxOf ==
  ASSUME NEW d \in Devs, StateTypeOK, Scaled(d), BusMayFail = FALSE,
         sensor[d].reg = ConfigRegister(dev[d].gain, dev[d].it),
         sensor[d].age >= It(dev[d].it),
         NEW count \in read_reg(d), NEW ranged,
         lx' = [lx EXCEPT ![d] = Lux(d, count, ranged)]
  PROVE  LuxRight(d)'
<1>1. dev[d].gain \in Gains /\ dev[d].it \in Times /\ light \in Lights
  BY DEF StateTypeOK, DevType
<1>2. count = CountUnder(ConfigRegister(dev[d].gain, dev[d].it))
  BY EffectiveIs DEF read_reg
<1>3. lx'[d].count = count /\ lx'[d].value = count * dev[d].res /\ lx'[d].light = light
  BY DEF StateTypeOK, Lux
<1> QED
  BY <1>1, <1>2, <1>3, CountsInLux DEF LuxRight, Scaled

(* SensorInv is inductive on a bus that does not fail: a write reaches both *)
(* copies of the configuration, and the wait after it is an integration time. *)
LEMMA StepSensors == BusMayFail = FALSE /\ SensorInv /\ [Next]_vars => SensorInv'
<1> SUFFICES ASSUME BusMayFail = FALSE, SensorInv, [Next]_vars PROVE SensorInv'
  OBVIOUS
<1>0. StateTypeOK /\ StateTypeOK' /\ TimeInv /\ TimeInv'
  BY StepTimes DEF TimeInv, SensorInv
<1> SUFFICES ASSUME NEW d \in Devs PROVE (Scaled(d) /\ Told(d) /\ Integrated(d) /\ LuxRight(d))'
  BY <1>0 DEF SensorInv
<1>1. /\ Scaled(d) /\ Told(d) /\ Integrated(d) /\ LuxRight(d) /\ Timed(d)
      /\ dev[d] \in DevType /\ sensor[d] \in SensorType
  BY <1>0 DEF SensorInv, TimeInv, StateTypeOK
<1>2. It(dev[d].it) \in Nat /\ It(dev[d].it) <= Period /\ Period \in Nat
  BY <1>1, Durations DEF DevType
<1>3. ASSUME UNCHANGED <<dev[d], sensor[d], lx[d], ntimers>>, d < ndevs <=> d < ndevs',
             d \in Ids => UNCHANGED counter[d]
      PROVE  (Scaled(d) /\ Told(d) /\ Integrated(d) /\ LuxRight(d))'
  <2>1. d < ntimers => d \in Ids
    BY <1>0, PitAssumption, VemlAssumption DEF StateTypeOK, PitTypeOK, Ids, Devs
  <2>2. Scaled(d)' /\ Told(d)' /\ LuxRight(d)'
    BY <1>1, <1>3 DEF Scaled, Told, LuxRight
  <2>3. Integrated(d)'
    BY <1>1, <1>3, <2>1 DEF Integrated, Timed
  <2> QED
    BY <2>2, <2>3
<1>4. CASE Tick
  <2>1. Scaled(d)' /\ Told(d)' /\ LuxRight(d)'
    BY <1>0, <1>1, <1>4, TickTimes DEF Scaled, Told, LuxRight
  <2>2. CASE dev[d].st = "WAIT_IT"
    <3>1. counter'[d] <= sensor'[d].age
      BY <1>0, <1>1, <1>2, <1>4, <2>2, TickTimes DEF Integrated, Timed, SensorType
    <3> QED
      BY <1>0, <1>4, <2>1, <2>2, <3>1, TickTimes DEF Integrated
  <2>3. CASE dev[d].st = "READY"
    <3>1. sensor[d].age >= It(dev[d].it) => sensor'[d].age >= It(dev[d].it)
      BY <1>0, <1>1, <1>2, <1>4, TickTimes DEF SensorType
    <3> QED
      BY <1>0, <1>1, <1>4, <2>1, <2>3, <3>1, TickTimes DEF Integrated
  <2> QED
    BY <1>1, <2>2, <2>3 DEF DevType
<1>5. CASE veml7700_main
  <2>1. CASE Serve(visit) /\ visit # d
    BY <1>0, <1>3, <1>5, <2>1, OthersStay, Turn DEF StateTypeOK
  <2>2. CASE Serve(visit) /\ visit = d
    <3>0. ndevs' = ndevs /\ d < ndevs /\ d \in Ids /\ counter[d] = limit[d]
      BY <1>0, <1>5, <2>2, Turn, Visits
    <3>1. sensor[d].reg = ConfigRegister(dev[d].gain, dev[d].it)
      BY <1>1, <3>0 DEF Told
    <3>2. CASE Moves(d)
      <4>1. PICK t \in Times, g \in Gains :
              /\ dev' = [dev EXCEPT ![d] = Configured(d, g, t)] /\ Rearm(d, It(t))
              /\ sensor' = [sensor EXCEPT ![d] = Written(sensor[d], ConfigRegister(g, t))]
        BY <3>2 DEF Moves, write_reg
      <4>2. counter'[d] = 0
        BY <1>0, <3>0, <4>1, Restarted DEF StateTypeOK
      <4>3. dev'[d] = Configured(d, g, t) /\ sensor'[d] = Written(sensor[d], ConfigRegister(g, t))
        BY <1>0, <4>1 DEF StateTypeOK
      <4>4. lx' = lx
        BY <3>2 DEF Moves
      <4> QED
        BY <1>1, <3>0, <4>2, <4>3, <4>4 DEF Configured, Written, Scaled, Told, Integrated, LuxRight
    <3>3. CASE dev[d].st = "READY" /\ Keeps(d)
      <4>1. PICK count \in read_reg(d) :
              /\ autorange(dev[d].gain, dev[d].it, count).gain = dev[d].gain
              /\ lx' = [lx EXCEPT ![d] = Lux(d, count, TRUE)]
        BY <3>3 DEF Keeps
      <4>2. sensor[d].age >= It(dev[d].it)
        <5> SUFFICES ASSUME ~(sensor[d].age >= It(dev[d].it)) PROVE FALSE
          OBVIOUS
        <5>1. sensor[d].prev = Off /\ dev[d].gain = ALS_GAIN_1_8
          BY <1>1, <3>0, <3>3 DEF Integrated
        <5>2. Effective(sensor[d]) = Off
          BY <1>0, <3>1, <5>1, EffectiveIs
        <5>3. count = 0
          BY <4>1, <5>2 DEF read_reg, CountUnder
        <5> QED
          BY <1>1, <4>1, <5>1, <5>3, AutorangeFacts DEF DevType
      <4>3. LuxRight(d)'
        BY <1>0, <1>1, <3>1, <4>1, <4>2, LuxOf
      <4>4. UNCHANGED <<dev, sensor>>
        BY <3>3 DEF Keeps
      <4> QED
        BY <1>1, <3>0, <3>3, <4>2, <4>3, <4>4 DEF Scaled, Told, Integrated
    <3>4. CASE dev[d].st = "WAIT_IT" /\ Takes(d)
      <4>1. PICK count \in read_reg(d) : lx' = [lx EXCEPT ![d] = Lux(d, count, FALSE)]
        BY <3>4 DEF Takes
      <4>2. sensor[d].age >= It(dev[d].it)
        BY <1>1, <3>0, <3>4 DEF Integrated, Timed
      <4>3. LuxRight(d)'
        BY <1>0, <1>1, <3>1, <4>1, <4>2, LuxOf
      <4>4. sensor' = sensor /\ dev' = [dev EXCEPT ![d].st = "READY"]
        BY <3>4 DEF Takes
      <4>5. /\ dev'[d].st = "READY" /\ dev'[d].gain = dev[d].gain /\ dev'[d].it = dev[d].it
            /\ dev'[d].res = dev[d].res /\ dev'[d].max_lux = dev[d].max_lux
        BY <1>0, <1>1, <4>4 DEF StateTypeOK, DevType
      <4> QED
        BY <1>1, <3>0, <3>1, <4>2, <4>3, <4>4, <4>5 DEF Scaled, Told, Integrated
    <3> QED
      BY <1>0, <2>2, <3>2, <3>3, <3>4, Visits
  <2>3. CASE UNCHANGED <<pitVars, dev, sensor, lx, sinceRead>>
    BY <1>0, <1>3, <1>5, <2>3, Turn DEF pitVars
  <2> QED
    BY <1>0, <1>5, <2>1, <2>2, <2>3, Turn
<1>6. CASE veml7700_add_dev
  <2>1. ndevs \in Devs /\ ndevs' = ndevs + 1 /\ UNCHANGED <<pitVars, dev, lx>>
    BY <1>0, <1>6, VemlAssumption DEF veml7700_add_dev, StateTypeOK, Devs
  <2>2. sensor' = [sensor EXCEPT ![ndevs] =
                     Written(sensor[ndevs], ConfigRegister(dev[ndevs].gain, dev[ndevs].it))]
    BY <1>6 DEF veml7700_add_dev, write_reg
  <2>3. CASE d # ndevs
    <3>1. d < ndevs <=> d < ndevs'
      BY <1>0, <2>1, <2>3, VemlAssumption DEF StateTypeOK, Devs
    <3>2. sensor'[d] = sensor[d]
      BY <1>0, <2>2, <2>3 DEF StateTypeOK
    <3> QED
      BY <1>3, <2>1, <3>1, <3>2 DEF pitVars
  <2>4. CASE d = ndevs
    <3>1. ~(d < ndevs) /\ d < ndevs'
      BY <1>0, <2>1, <2>4, VemlAssumption DEF StateTypeOK
    <3>2. /\ sensor[d].reg = Off /\ sensor[d].prev = Off
          /\ dev[d].st = "READY" /\ dev[d].gain = ALS_GAIN_1_8
      BY <1>1, <3>1 DEF Told
    <3>3. sensor'[d] = Written(sensor[d], ConfigRegister(dev[d].gain, dev[d].it))
      BY <1>0, <2>2, <2>4 DEF StateTypeOK
    <3>4. sensor'[d].reg = ConfigRegister(dev[d].gain, dev[d].it) /\ sensor'[d].prev = Off
      BY <3>2, <3>3 DEF Written, Effective
    <3> QED
      BY <1>1, <2>1, <3>1, <3>2, <3>4 DEF Scaled, Told, Integrated, LuxRight
  <2> QED
    BY <2>3, <2>4
<1>7. CASE LightChange
  BY <1>3, <1>7 DEF LightChange, pitVars
<1>8. CASE UNCHANGED vars
  BY <1>3, <1>8 DEF vars
<1> QED
  BY <1>4, <1>5, <1>6, <1>7, <1>8 DEF Next

(* No sensor has been told anything yet, and no device been added late.    *)
LEMMA InitSensors == BusMayFail = FALSE /\ Init => SensorInv
<1> SUFFICES ASSUME BusMayFail = FALSE, Init, NEW d \in Devs
             PROVE  Scaled(d) /\ Told(d) /\ Integrated(d) /\ LuxRight(d)
  BY InitTimes DEF SensorInv
<1>1. /\ dev[d].gain = ALS_GAIN_1_8 /\ dev[d].it = ALS_IT_100MS /\ dev[d].st = "READY"
      /\ dev[d].res = get_resolution(ALS_GAIN_1_8, ALS_IT_100MS)
      /\ dev[d].max_lux = get_max_illumination(ALS_GAIN_1_8, ALS_IT_100MS)
  BY DEF Init, veml7700_init, default_config
<1> DEFINE off == [reg |-> Off, prev |-> Off, age |-> Period]
           reg == ConfigRegister(ALS_GAIN_1_8, ALS_IT_100MS)
<1>2. sensor[d] = IF d < ndevs THEN Written(off, reg) ELSE off
  BY DEF Init, default_config, write_reg
<1>3. Effective(off) = Off
  BY DEF Effective
<1>4. /\ d < ndevs => sensor[d].reg = reg /\ sensor[d].prev = Off
      /\ ~(d < ndevs) => sensor[d].reg = Off /\ sensor[d].prev = Off
  BY <1>2, <1>3 DEF Written
<1>5. lx[d].value = 0 /\ lx[d].light = 0
  BY DEF Init, NoLux
<1>6. 0 = 0 * LuxPerLight
  BY DEF LuxPerLight
<1> QED
  BY <1>1, <1>4, <1>5, <1>6 DEF Scaled, Told, Integrated, LuxRight

(* On a bus that does not fail: the two copies of the configuration agree,  *)
(* and so do a count and the resolution it is scaled by.                    *)
THEOREM SensorSafety == ASSUME BusMayFail = FALSE PROVE Spec => []SensorInv
<1>1. Init => SensorInv
  BY InitSensors
<1>2. SensorInv /\ [Next]_vars => SensorInv'
  BY StepSensors
<1> QED
  BY <1>1, <1>2, PTL DEF Spec

(* A lux value that is not of a saturated count is the light, for any       *)
(* light, any number of devices and any hurry of the superloop.             *)
THEOREM LuxFollowsLight == ASSUME BusMayFail = FALSE PROVE Spec => []LuxIsLight
<1>1. SensorInv => LuxIsLight
  BY DEF SensorInv, LuxRight, LuxIsLight
<1>2. Spec => []SensorInv
  BY SensorSafety
<1> QED
  BY <1>1, <1>2, PTL

(* What the driver keeps of the configuration is what the sensor was told   *)
(* (set_and_send_config).                                                   *)
THEOREM ConfigStays == ASSUME BusMayFail = FALSE PROVE Spec => []ConfigInStep
<1>1. SensorInv => ConfigInStep
  <2> SUFFICES ASSUME SensorInv, NEW d \in Devs, d < ndevs
               PROVE  /\ sensor[d].reg = ConfigRegister(dev[d].gain, dev[d].it)
                      /\ dev[d].res * Sensitivity(sensor[d].reg) = LuxPerLight
                      /\ dev[d].max_lux * 10000 - MaxCount * dev[d].res < 10000
                      /\ MaxCount * dev[d].res - dev[d].max_lux * 10000 < 10000
    BY DEF ConfigInStep
  <2>1. dev[d].gain \in Gains /\ dev[d].it \in Times /\ Scaled(d) /\ Told(d)
    BY DEF SensorInv, TimeInv, StateTypeOK, DevType
  <2> QED
    BY <2>1, TablesAgree DEF Scaled, Told
<1>2. Spec => []SensorInv
  BY SensorSafety
<1> QED
  BY <1>1, <1>2, PTL
=============================================================================
