------------------------------ MODULE PitTimers ------------------------------
(***************************************************************************)
(* The timer table under ANY caller: the interface of pit.h, every call    *)
(* with every argument (ids never handed out included) in every order,     *)
(* between two ticks of the interrupt.  PitPreempted narrows the callers   *)
(* down to what the drivers of this firmware do.                           *)
(***************************************************************************)
EXTENDS Pit

CONSTANT Periods  \* milliseconds the callers ask for

ASSUME PeriodsAssumption == Periods \subseteq Nat

CallIds == -1 .. TimersArraySize
Ticks == {pit_ms_to_ticks(ms) : ms \in Periods}

Init == pit_init

AddTimer == \E period \in Ticks, id \in CallIds : pit_add_timer(period, id)
Restart(id) == pit_restart_timer(id)
SetCount(id) == \E count \in Uint32 : pit_set_count(id, count)
SetLimit(id) == \E ticks \in Ticks : pit_set_limit(id, ticks)

Next ==
  \/ pit_callback
  \/ AddTimer
  \/ \E id \in CallIds : Restart(id) \/ SetCount(id) \/ SetLimit(id)

Spec == Init /\ [][Next]_pitVars

(***************************************************************************)
(* An expired timer keeps answering that it elapsed until its owner makes  *)
(* a call on that very timer: no tick, no allocation and no call on        *)
(* another timer loses an expiry that has not been consumed yet            *)
(* (pit_callback, pit_elapsed, pit_add_timer).                             *)
(***************************************************************************)
ExpiryIsLatched ==
  [][\A id \in Ids :
       pit_elapsed(id) /\ ~pit_elapsed(id)'
         => Restart(id) \/ SetCount(id) \/ SetLimit(id)]_pitVars

==============================================================================
