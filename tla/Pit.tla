--------------------------------- MODULE Pit ---------------------------------
(***************************************************************************)
(* The software timers of src/src/pit.c: a table of TIMERS_ARRAY_SIZE      *)
(* counters that the interrupt of PIT0 channel 0 advances and that every   *)
(* driver of the firmware polls.                                           *)
(*                                                                         *)
(* struct pit_cfg is flattened into one function per field.  Each function *)
(* of pit.c is an operator of its own name: a state predicate when it only *)
(* reads, an action over the three variables when it writes.  Here a call  *)
(* is one step; PitPreempted splits the calls at their memory accesses.    *)
(***************************************************************************)
EXTENDS Integers

CONSTANTS
  TimersArraySize,  \* TIMERS_ARRAY_SIZE
  MaxUint32,        \* greatest value of a uint32
  PitMsTicks        \* PIT_MS_TICKS, interrupts of the PIT per millisecond

ASSUME PitAssumption ==
  /\ TimersArraySize \in Nat \ {0}
  /\ MaxUint32 \in Nat \ {0}
  /\ PitMsTicks \in Nat \ {0}

VARIABLES
  counter,  \* pit.timers[i].counter, volatile
  limit,    \* pit.timers[i].limit
  ntimers   \* pit.ntimers

pitVars == <<counter, limit, ntimers>>

Ids == 0 .. TimersArraySize - 1
Uint32 == 0 .. MaxUint32

PitTypeOK ==
  /\ counter \in [Ids -> Uint32]
  /\ limit \in [Ids -> Uint32]
  /\ ntimers \in 0 .. TimersArraySize

(***************************************************************************)
(* pit_init: the table is emptied.  The interrupt is already enabled then, *)
(* but .bss is zero, so a tick before the clearing loop finds ntimers = 0. *)
(***************************************************************************)
pit_init ==
  /\ ntimers = 0
  /\ counter = [i \in Ids |-> 0]
  /\ limit = [i \in Ids |-> 0]

id_valid(id) == id < ntimers /\ id >= 0

(* Faulty variants of the interrupt: no limit at all, and one tick past it. *)
pit_callback_Unlimited ==
  /\ counter' = [i \in Ids |-> IF i < ntimers THEN counter[i] + 1 ELSE counter[i]]
  /\ UNCHANGED <<limit, ntimers>>

pit_callback_Overshoots ==
  /\ counter' = [i \in Ids |->
                   IF i < ntimers /\ counter[i] <= limit[i]
                     THEN counter[i] + 1
                     ELSE counter[i]]
  /\ UNCHANGED <<limit, ntimers>>

(***************************************************************************)
(* pit_callback, the interrupt.  The increment cannot wrap: it is guarded  *)
(* by counter < limit and limit is a uint32 too.                           *)
(***************************************************************************)
pit_callback ==
  /\ counter' = [i \in Ids |->
                   IF i < ntimers /\ counter[i] < limit[i]
                     THEN counter[i] + 1
                     ELSE counter[i]]
  /\ UNCHANGED <<limit, ntimers>>

(* Faulty: the number of timers in use is not advanced.                    *)
pit_add_timer_NotCounted(period, id) ==
  \/ /\ ntimers < TimersArraySize
     /\ id = ntimers
     /\ counter' = [counter EXCEPT ![ntimers] = 0]
     /\ limit' = [limit EXCEPT ![ntimers] = period]
     /\ ntimers' = ntimers
  \/ /\ ntimers >= TimersArraySize
     /\ id = -1
     /\ UNCHANGED pitVars

(* pit_add_timer returns id. *)
pit_add_timer(period, id) ==
  \/ /\ ntimers < TimersArraySize
     /\ id = ntimers
     /\ counter' = [counter EXCEPT ![ntimers] = 0]
     /\ limit' = [limit EXCEPT ![ntimers] = period]
     /\ ntimers' = ntimers + 1
  \/ /\ ntimers >= TimersArraySize
     /\ id = -1
     /\ UNCHANGED pitVars

pit_elapsed(id) == id_valid(id) /\ counter[id] = limit[id]

pit_set_count(id, count) ==
  /\ counter' = IF id_valid(id) THEN [counter EXCEPT ![id] = count] ELSE counter
  /\ UNCHANGED <<limit, ntimers>>

pit_restart_timer(id) ==
  /\ counter' = IF id_valid(id) THEN [counter EXCEPT ![id] = 0] ELSE counter
  /\ UNCHANGED <<limit, ntimers>>

pit_set_limit(id, newLimit) ==
  /\ limit' = IF id_valid(id) THEN [limit EXCEPT ![id] = newLimit] ELSE limit
  /\ UNCHANGED <<counter, ntimers>>

(* pit_ms_to_ticks multiplies in uint32 arithmetic. *)
pit_ms_to_ticks(ms) == (ms * PitMsTicks) % (MaxUint32 + 1)

==============================================================================
