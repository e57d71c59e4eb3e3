----------------------------- MODULE SysWaitProofs -----------------------------
(***************************************************************************)
(* Proofs about PitTimers, the table under any caller, and about SysWait,  *)
(* for every size of the table, width of the counters and set of periods.  *)
(***************************************************************************)
EXTENDS SysWait, TLAPS

(*----------------------- the table under any caller -----------------------*)

(* pit_ms_to_ticks returns a uint32, whatever the product.                  *)
LEMMA MsToTicksIsUint32 ==
  ASSUME NEW ms \in Nat
  PROVE  pit_ms_to_ticks(ms) \in Uint32
<1> DEFINE product == ms * PitMsTicks
           width == MaxUint32 + 1
<1>1. product \in Nat /\ width \in Nat \ {0}
  BY PitAssumption
<1>2. pit_ms_to_ticks(ms) = product % width /\ Uint32 = 0 .. width - 1
  BY PitAssumption DEF pit_ms_to_ticks, Uint32
<1> HIDE DEF product, width
<1> QED
  BY <1>1, <1>2

(* pit_add_timer hands out the next slot, or nothing when there is none.    *)
LEMMA AddTimerType ==
  ASSUME PitTypeOK, NEW period \in Uint32, NEW id, pit_add_timer(period, id)
  PROVE  /\ PitTypeOK'
         /\ \/ id = ntimers /\ id \in Ids /\ ntimers' = ntimers + 1
            \/ id = -1 /\ ntimers = TimersArraySize /\ UNCHANGED pitVars
<1> USE PitAssumption DEF Ids, Uint32, PitTypeOK
<1>1. CASE ntimers < TimersArraySize
  <2>1. /\ id = ntimers
        /\ counter' = [counter EXCEPT ![ntimers] = 0]
        /\ limit' = [limit EXCEPT ![ntimers] = period]
        /\ ntimers' = ntimers + 1
    BY <1>1 DEF pit_add_timer
  <2>2. ntimers \in Ids /\ ntimers' \in 0 .. TimersArraySize /\ 0 \in Uint32
    BY <1>1, <2>1
  <2>3. counter' \in [Ids -> Uint32] /\ limit' \in [Ids -> Uint32]
    BY <2>1, <2>2
  <2> QED
    BY <2>1, <2>2, <2>3
<1>2. CASE ntimers >= TimersArraySize
  BY <1>2 DEF pit_add_timer, pitVars
<1>3. ntimers < TimersArraySize \/ ntimers >= TimersArraySize
  OBVIOUS
<1> QED
  BY <1>1, <1>2, <1>3

(* Every period asked for is a uint32 number of ticks.                     *)
LEMMA TicksAreUint32 == Ticks \subseteq Uint32
<1> SUFFICES ASSUME NEW ms \in Periods PROVE pit_ms_to_ticks(ms) \in Uint32
  BY DEF Ticks
<1> QED
  BY PeriodsAssumption, MsToTicksIsUint32

(* No call and no tick makes the table ill-formed. *)
LEMMA StepType == PitTypeOK /\ [Next]_pitVars => PitTypeOK'
<1> SUFFICES ASSUME PitTypeOK, [Next]_pitVars PROVE PitTypeOK'
  OBVIOUS
<1>1. CASE pit_callback
  BY <1>1, PitAssumption DEF pit_callback, PitTypeOK, Ids, Uint32
<1>2. CASE AddTimer
  BY <1>2, TicksAreUint32, AddTimerType DEF AddTimer
<1>3. ASSUME NEW id \in CallIds, Restart(id) PROVE PitTypeOK'
  <2>1. 0 \in Uint32
    BY PitAssumption DEF Uint32
  <2> QED
    BY <1>3, <2>1 DEF Restart, pit_restart_timer, PitTypeOK
<1>4. ASSUME NEW id \in CallIds, SetCount(id) PROVE PitTypeOK'
  BY <1>4 DEF SetCount, pit_set_count, PitTypeOK
<1>5. ASSUME NEW id \in CallIds, SetLimit(id) PROVE PitTypeOK'
  <2> PICK t \in Ticks : pit_set_limit(id, t)
    BY <1>5 DEF SetLimit
  <2>1. t \in Uint32
    BY TicksAreUint32
  <2> QED
    BY <2>1 DEF pit_set_limit, PitTypeOK
<1>6. CASE UNCHANGED pitVars
  BY <1>6 DEF pitVars, PitTypeOK
<1> QED
  BY <1>1, <1>2, <1>3, <1>4, <1>5, <1>6 DEF Next

(* The table is well-formed under any caller: in particular no counter     *)
(* leaves the uint32 range, since the interrupt stops at the limit.        *)
THEOREM Typing == Spec => []PitTypeOK
<1>1. Init => PitTypeOK
  BY PitAssumption DEF Init, pit_init, PitTypeOK, Ids, Uint32
<1> QED
  BY <1>1, StepType, PTL DEF Spec

(* An expiry that is gone after a step was taken by a call on its timer.    *)
LEMMA StepLatched ==
  ASSUME PitTypeOK, [Next]_pitVars, NEW id \in Ids,
         pit_elapsed(id), ~pit_elapsed(id)'
  PROVE  Restart(id) \/ SetCount(id) \/ SetLimit(id)
<1> USE PitAssumption DEF Ids, Uint32, PitTypeOK, pit_elapsed, id_valid
<1>1. CASE pit_callback
  BY <1>1 DEF pit_callback
<1>2. CASE AddTimer
  BY <1>2 DEF AddTimer, pit_add_timer, pitVars
<1>3. ASSUME NEW other \in CallIds,
             Restart(other) \/ SetCount(other) \/ SetLimit(other)
      PROVE  other = id
  <2>1. CASE Restart(other)
    BY <2>1 DEF Restart, pit_restart_timer
  <2>2. CASE SetCount(other)
    BY <2>2 DEF SetCount, pit_set_count
  <2>3. CASE SetLimit(other)
    BY <2>3 DEF SetLimit, pit_set_limit
  <2> QED
    BY <1>3, <2>1, <2>2, <2>3
<1>4. CASE UNCHANGED pitVars
  BY <1>4 DEF pitVars
<1> QED
  BY <1>1, <1>2, <1>3, <1>4 DEF Next

(* An expired timer stays expired until a call on that very timer, whoever  *)
(* calls pit.h and in whatever order.                                       *)
THEOREM Latched == Spec => ExpiryIsLatched
<1>1. PitTypeOK /\ [Next]_pitVars
        => [\A id \in Ids : pit_elapsed(id) /\ ~pit_elapsed(id)'
              => Restart(id) \/ SetCount(id) \/ SetLimit(id)]_pitVars
  BY StepLatched
<1> QED
  BY <1>1, Typing, PTL DEF Spec, ExpiryIsLatched

(*-------------------------------- the waits -------------------------------*)

(* While a wait is on, its timer has the limit that was asked for, and     *)
(* once restarted it has counted no more ticks than have gone by.          *)
WaitInService ==
  /\ pc # "idle" /\ id_valid(blocking_wait_timer_id) => limit[blocking_wait_timer_id] = ticks
  /\ pc = "poll" /\ id_valid(blocking_wait_timer_id) => counter[blocking_wait_timer_id] <= waited

(* The timer that sys_init was given is the one the waits use.             *)
GrantIsUsed == granted # None => blocking_wait_timer_id = granted

WaitInv == WaitTypeOK /\ WaitInService /\ GrantIsUsed

(* Every step but sys_init is a step of some caller of pit.h.              *)
LEMMA StepIsCall ==
  ASSUME WaitTypeOK, [WaitNext]_sysVars, ~sys_init
  PROVE  [Next]_pitVars
<1> blocking_wait_timer_id \in CallIds
  BY PitAssumption DEF WaitTypeOK, Ids, CallIds
<1>1. CASE Interrupt
  BY <1>1 DEF Interrupt, Next
<1>2. CASE OtherCall
  BY <1>2 DEF OtherCall, Next
<1>3. ASSUME NEW t \in Ticks, sys_blocking_wait(t) PROVE Next
  BY <1>3 DEF sys_blocking_wait, Next, SetLimit
<1>4. CASE WaitRestart
  BY <1>4 DEF WaitRestart, Next, Restart
<1>5. CASE WaitPoll
  BY <1>5 DEF WaitPoll
<1>6. CASE UNCHANGED sysVars
  BY <1>6 DEF sysVars, pitVars
<1> QED
  BY <1>1, <1>2, <1>3, <1>4, <1>5, <1>6 DEF WaitNext, Wait

(* What sys_init does to the table: a new slot at its end, or nothing.     *)
LEMMA InitCall ==
  ASSUME WaitTypeOK, sys_init
  PROVE  /\ PitTypeOK'
         /\ blocking_wait_timer_id' \in Ids
         /\ granted' \in {None} \cup Ids
         /\ granted' # None => granted' = blocking_wait_timer_id' \/ UNCHANGED <<granted, blocking_wait_timer_id>>
<1> PICK id \in CallIds :
      /\ pit_add_timer(PIT_MAX_PERIOD, id)
      /\ blocking_wait_timer_id' = IF id >= 0 THEN id ELSE blocking_wait_timer_id
      /\ granted' = IF id >= 0 THEN id ELSE granted
  BY DEF sys_init
<1>1. PIT_MAX_PERIOD \in Uint32
  BY PitAssumption DEF PIT_MAX_PERIOD, Uint32
<1>2. PitTypeOK' /\ (id \in Ids \/ id = -1)
  BY <1>1, AddTimerType DEF WaitTypeOK
<1> QED
  BY <1>2, PitAssumption DEF WaitTypeOK, Ids

(* WaitTypeOK is inductive: only sys_init is no call of some caller.        *)
LEMMA StepWaitType == WaitTypeOK /\ [WaitNext]_sysVars => WaitTypeOK'
<1> SUFFICES ASSUME WaitTypeOK, [WaitNext]_sysVars PROVE WaitTypeOK'
  OBVIOUS
<1>1. CASE sys_init
  BY <1>1, InitCall DEF sys_init, WaitTypeOK
<1>2. CASE ~sys_init
  <2>1. PitTypeOK'
    BY <1>2, StepIsCall, StepType DEF WaitTypeOK
  <2>2. CASE Interrupt
    BY <2>1, <2>2, PitAssumption DEF Interrupt, WaitTypeOK, Uint32
  <2>3. CASE OtherCall
    BY <2>1, <2>3 DEF OtherCall, waitVars, WaitTypeOK
  <2>4. ASSUME NEW t \in Ticks, sys_blocking_wait(t) PROVE WaitTypeOK'
    BY <2>1, <2>4, TicksAreUint32, PitAssumption DEF sys_blocking_wait, WaitTypeOK, Uint32
  <2>5. CASE Wait
    BY <2>1, <2>5 DEF Wait, WaitRestart, WaitPoll, WaitTypeOK
  <2>6. CASE UNCHANGED sysVars
    BY <2>1, <2>6 DEF sysVars, WaitTypeOK
  <2> QED
    BY <1>2, <2>2, <2>3, <2>4, <2>5, <2>6 DEF WaitNext
<1> QED
  BY <1>1, <1>2

(* A wait's timer counts no faster than the ticks, and nobody else resets it. *)
LEMMA StepInService == WaitTypeOK /\ WaitInService /\ [WaitNext]_sysVars => WaitInService'
<1> SUFFICES ASSUME WaitTypeOK, WaitInService, [WaitNext]_sysVars PROVE WaitInService'
  OBVIOUS
<1> USE PitAssumption DEF WaitTypeOK, PitTypeOK, Ids, Uint32, WaitInService, id_valid
<1>1. CASE Interrupt
  BY <1>1 DEF Interrupt, pit_callback
<1>2. CASE OtherCall
  BY <1>2 DEF OtherCall, waitVars
<1>3. CASE sys_init
  BY <1>3 DEF sys_init
<1>4. ASSUME NEW t \in Ticks, sys_blocking_wait(t) PROVE WaitInService'
  BY <1>4 DEF sys_blocking_wait, pit_set_limit
<1>5. CASE WaitRestart
  BY <1>5 DEF WaitRestart, pit_restart_timer
<1>6. CASE WaitPoll
  BY <1>6 DEF WaitPoll
<1>7. CASE UNCHANGED sysVars
  BY <1>7 DEF sysVars
<1> QED
  BY <1>1, <1>2, <1>3, <1>4, <1>5, <1>6, <1>7 DEF WaitNext, Wait

(* GrantIsUsed is inductive: sys_init stores the id it got.                 *)
LEMMA StepGrant == WaitTypeOK /\ GrantIsUsed /\ [WaitNext]_sysVars => GrantIsUsed'
<1> SUFFICES ASSUME WaitTypeOK, GrantIsUsed, [WaitNext]_sysVars PROVE GrantIsUsed'
  OBVIOUS
<1>1. CASE sys_init
  BY <1>1, InitCall DEF GrantIsUsed
<1>2. CASE UNCHANGED <<granted, blocking_wait_timer_id>>
  BY <1>2 DEF GrantIsUsed
<1> QED
  BY <1>1, <1>2 DEF WaitNext, Interrupt, OtherCall, waitVars, sys_blocking_wait, Wait,
                    WaitRestart, WaitPoll, sysVars

(* The invariant of the waits: the table and the wait are well-formed, the *)
(* timer of a wait counts towards what was asked, and sys_init's timer is  *)
(* the one in use.                                                         *)
THEOREM WaitSafety == WaitSpec => []WaitInv
<1>1. WaitInit => WaitInv
  BY PitAssumption DEF WaitInit, Init, pit_init, WaitInv, WaitTypeOK, PitTypeOK, WaitInService,
                       GrantIsUsed, id_valid, Ids, Uint32, None
<1>2. WaitInv /\ [WaitNext]_sysVars => WaitInv'
  BY StepWaitType, StepInService, StepGrant DEF WaitInv
<1> QED
  BY <1>1, <1>2, PTL DEF WaitSpec

(* Types alone, as the run checks them (sys.c, pit.c).                     *)
THEOREM WaitTyping == WaitSpec => []WaitTypeOK
  BY WaitSafety, PTL DEF WaitInv

(* No wait of sys_blocking_wait returns before the ticks it was asked for  *)
(* have gone by, whatever the timer did before the call.                   *)
THEOREM WaitsLast == WaitSpec => NoWaitIsShort
<1>1. WaitInv /\ [WaitNext]_sysVars => [pc = "poll" /\ pc' = "idle" => waited >= ticks]_sysVars
  <2> SUFFICES ASSUME WaitInv, WaitNext, pc = "poll", pc' = "idle" PROVE waited >= ticks
    OBVIOUS
  <2>1. WaitPoll
    BY DEF WaitNext, Interrupt, OtherCall, waitVars, sys_init, sys_blocking_wait, Wait, WaitRestart
  <2>2. /\ id_valid(blocking_wait_timer_id)
        /\ counter[blocking_wait_timer_id] = limit[blocking_wait_timer_id]
    BY <2>1 DEF WaitPoll, pit_elapsed
  <2> QED
    BY <2>2, PitAssumption DEF WaitInv, WaitInService, WaitTypeOK, PitTypeOK, Ids, Uint32
<1> QED
  BY <1>1, WaitSafety, PTL DEF WaitSpec, NoWaitIsShort

(* Once sys_init has a timer, a wait changes no other timer's period and   *)
(* takes no expiry away.                                                   *)
THEOREM WaitsSpare == WaitSpec => WaitSparesOthers
<1> DEFINE Spares ==
      granted # None /\ (pc # "idle" \/ pc' # "idle")
        => \A i \in Ids \ {granted} :
             limit[i]' = limit[i] /\ (pit_elapsed(i) => pit_elapsed(i)')
<1>1. WaitInv /\ [WaitNext]_sysVars => [Spares]_sysVars
  <2> SUFFICES ASSUME WaitInv, WaitNext, granted # None, pc # "idle" \/ pc' # "idle",
                      NEW i \in Ids \ {granted}
               PROVE  limit[i]' = limit[i] /\ (pit_elapsed(i) => pit_elapsed(i)')
    OBVIOUS
  <2> i # blocking_wait_timer_id
    BY DEF WaitInv, GrantIsUsed
  <2> USE PitAssumption DEF WaitInv, WaitTypeOK, PitTypeOK, Ids, Uint32, pit_elapsed, id_valid
  <2>1. CASE Interrupt
    BY <2>1 DEF Interrupt, pit_callback
  <2>2. ASSUME NEW t \in Ticks, sys_blocking_wait(t)
        PROVE  limit[i]' = limit[i] /\ (pit_elapsed(i) => pit_elapsed(i)')
    BY <2>2 DEF sys_blocking_wait, pit_set_limit
  <2>3. CASE WaitRestart
    BY <2>3 DEF WaitRestart, pit_restart_timer
  <2>4. CASE WaitPoll
    BY <2>4 DEF WaitPoll, pitVars
  <2>5. ~OtherCall /\ ~sys_init
    BY DEF OtherCall, waitVars, sys_init
  <2> QED
    BY <2>1, <2>2, <2>3, <2>4, <2>5 DEF WaitNext, Wait
<1> QED
  BY <1>1, WaitSafety, PTL DEF WaitSpec, WaitSparesOthers

(* An expiry is only lost to a call on its own timer, the waits' and       *)
(* sys_init's calls included.                                              *)
THEOREM WaitLatched == WaitSpec => ExpiryIsLatched
<1>1. WaitInv /\ [WaitNext]_sysVars
        => [\A id \in Ids : pit_elapsed(id) /\ ~pit_elapsed(id)'
              => Restart(id) \/ SetCount(id) \/ SetLimit(id)]_pitVars
  <2> SUFFICES ASSUME WaitInv, [WaitNext]_sysVars, NEW id \in Ids,
                      pit_elapsed(id), ~pit_elapsed(id)'
               PROVE  Restart(id) \/ SetCount(id) \/ SetLimit(id)
    OBVIOUS
  <2> WaitTypeOK /\ PitTypeOK
    BY DEF WaitInv, WaitTypeOK
  <2>1. ~sys_init
    BY PitAssumption DEF sys_init, pit_add_timer, pitVars, pit_elapsed, id_valid, PitTypeOK, Ids
  <2> QED
    BY <2>1, StepIsCall, StepLatched
<1> QED
  BY <1>1, WaitSafety, PTL DEF WaitSpec, ExpiryIsLatched

==============================================================================
