------------------------------- MODULE SysWait -------------------------------
(***************************************************************************)
(* sys_init and sys_blocking_wait of src/src/sys.c, among any other        *)
(* callers of pit.h: a wait is three calls on one timer, pit_set_limit,    *)
(* pit_restart_timer and pit_elapsed until it answers yes, and the tick    *)
(* may come before each of them.  The caller's thread does nothing else    *)
(* meanwhile.                                                              *)
(*                                                                         *)
(* sys_init may come late, twice, when the pool is exhausted, or not at    *)
(* all (main.c never calls it); blocking_wait_timer_id is a static 0 until *)
(* it succeeds, and 0 is the timer of whoever asked first.                 *)
(***************************************************************************)
EXTENDS PitTimers

None == -1
PIT_MAX_PERIOD == MaxUint32

VARIABLES
  blocking_wait_timer_id,
  granted,  \* the timer that sys_init was last given, or None
  pc,       \* what sys_blocking_wait does next: "restart", "poll", or "idle"
  ticks,    \* its argument
  waited    \* ticks since it restarted the timer, up to MaxUint32

waitVars == <<blocking_wait_timer_id, granted, pc, ticks, waited>>
sysVars == <<counter, limit, ntimers, blocking_wait_timer_id, granted, pc, ticks, waited>>

WaitTypeOK ==
  /\ PitTypeOK
  /\ blocking_wait_timer_id \in Ids
  /\ granted \in {None} \cup Ids
  /\ pc \in {"idle", "restart", "poll"}
  /\ ticks \in Uint32 /\ waited \in Uint32

WaitInit ==
  /\ Init
  /\ blocking_wait_timer_id = 0 /\ granted = None
  /\ pc = "idle" /\ ticks = 0 /\ waited = 0

(* Faulty: the id is kept when it is not one.                              *)
sys_init_Inverted ==
  /\ pc = "idle"
  /\ \E id \in CallIds :
       /\ pit_add_timer(PIT_MAX_PERIOD, id)
       /\ blocking_wait_timer_id' = IF id < 0 THEN 0 ELSE blocking_wait_timer_id
       /\ granted' = IF id >= 0 THEN id ELSE granted
  /\ UNCHANGED <<pc, ticks, waited>>

sys_init ==
  /\ pc = "idle"
  /\ \E id \in CallIds :
       /\ pit_add_timer(PIT_MAX_PERIOD, id)
       /\ blocking_wait_timer_id' = IF id >= 0 THEN id ELSE blocking_wait_timer_id
       /\ granted' = IF id >= 0 THEN id ELSE granted
  /\ UNCHANGED <<pc, ticks, waited>>

sys_blocking_wait(t) ==
  /\ pc = "idle"
  /\ pit_set_limit(blocking_wait_timer_id, t)
  /\ pc' = "restart"
  /\ ticks' = t
  /\ waited' = 0
  /\ UNCHANGED <<blocking_wait_timer_id, granted>>

(* Faulty: the wait goes on from the count the timer has reached.          *)
WaitRestart_Forgotten ==
  /\ pc = "restart"
  /\ pc' = "poll"
  /\ UNCHANGED <<pitVars, blocking_wait_timer_id, granted, ticks, waited>>

WaitRestart ==
  /\ pc = "restart"
  /\ pit_restart_timer(blocking_wait_timer_id)
  /\ pc' = "poll"
  /\ UNCHANGED <<blocking_wait_timer_id, granted, ticks, waited>>

(* The poll that answers yes; the others change nothing.                   *)
WaitPoll ==
  /\ pc = "poll"
  /\ pit_elapsed(blocking_wait_timer_id)
  /\ pc' = "idle"
  /\ UNCHANGED <<pitVars, blocking_wait_timer_id, granted, ticks, waited>>

Wait == WaitRestart \/ WaitPoll

Interrupt ==
  /\ pit_callback
  /\ waited' = IF pc = "poll" /\ waited < MaxUint32 THEN waited + 1 ELSE waited
  /\ UNCHANGED <<blocking_wait_timer_id, granted, pc, ticks>>

OtherCall ==
  /\ pc = "idle"
  /\ AddTimer \/ \E id \in CallIds : Restart(id) \/ SetCount(id) \/ SetLimit(id)
  /\ UNCHANGED waitVars

WaitNext ==
  \/ Interrupt
  \/ OtherCall
  \/ sys_init
  \/ \E t \in Ticks : sys_blocking_wait(t)
  \/ Wait

(* The hardware keeps ticking and the waiting thread keeps running.        *)
WaitSpec ==
  WaitInit /\ [][WaitNext]_sysVars /\ WF_sysVars(Interrupt) /\ WF_sysVars(Wait)

------------------------------------------------------------------------------

(***************************************************************************)
(* A wait that returns has lasted the ticks it was asked for, whatever the *)
(* timer did before, wherever the ticks fell among its three calls         *)
(* (sys_blocking_wait).                                                    *)
(***************************************************************************)
NoWaitIsShort == [][pc = "poll" /\ pc' = "idle" => waited >= ticks]_sysVars

(***************************************************************************)
(* A wait on a timer in service returns.  One made before any timer was    *)
(* created does not: pit_elapsed answers 0 of an invalid id for ever.      *)
(***************************************************************************)
EveryWaitReturns == pc # "idle" /\ id_valid(blocking_wait_timer_id) ~> pc = "idle"

(***************************************************************************)
(* Once sys_init has been given a timer, no wait takes an expiry or a      *)
(* period away from another module: the timer it uses is its own.          *)
(***************************************************************************)
WaitSparesOthers ==
  [][granted # None /\ (pc # "idle" \/ pc' # "idle")
       => \A i \in Ids \ {granted} :
            limit[i]' = limit[i] /\ (pit_elapsed(i) => pit_elapsed(i)')]_sysVars

==============================================================================
