----------------------------- MODULE PitPreempted -----------------------------
(***************************************************************************)
(* src/src/pit.c with the interrupt falling anywhere.  The drivers run in  *)
(* one thread, the superloop of main.c, so at most one call is in          *)
(* progress; it is split at its accesses to the table, and pit_callback,   *)
(* which nothing preempts, may run between any two of them:                *)
(*                                                                         *)
(*   - pit_elapsed reads the counter, then compares it with the limit;     *)
(*   - pit_add_timer does three stores.  Only the one to counter is        *)
(*     volatile, so the build may emit them in any order: the model takes  *)
(*     every order;                                                        *)
(*   - a driver changes a period by pit_set_limit and then                 *)
(*     pit_restart_timer (veml7700.c:190, 203, 229; sys.c:26), and between *)
(*     the two the count may exceed the limit.                             *)
(*                                                                         *)
(* pit_set_count has no caller in the firmware and is left to PitTimers.   *)
(***************************************************************************)
EXTENDS Pit

CONSTANT Periods  \* the periods the drivers ask for, in ticks

ASSUME PeriodsAssumption == Periods \subseteq Uint32

VARIABLES
  op,      \* the call in progress, or "idle"
  id,      \* its timer
  arg,     \* pit_add_timer: the period asked for
  stores,  \* pit_add_timer: the fields still to be stored
  reg,     \* pit_elapsed: the counter as it was read
  handle,  \* the id returned by the last pit_add_timer
  answer   \* what the last pit_elapsed returned

callVars == <<op, id, arg, stores, reg, handle, answer>>
vars == <<counter, limit, ntimers, op, id, arg, stores, reg, handle, answer>>

Fields == {"counter", "limit", "ntimers"}
CallIds == -1 .. TimersArraySize  \* the ids a driver may hold, and two bad ones

TypeOK ==
  /\ PitTypeOK
  /\ op \in {"idle", "add", "poll", "reconfigure"}
  /\ id \in Ids
  /\ arg \in Uint32
  /\ stores \subseteq Fields
  /\ reg \in Uint32
  /\ handle \in -1 .. TimersArraySize - 1
  /\ answer \in BOOLEAN

Init ==
  /\ pit_init
  /\ op = "idle" /\ id = 0 /\ arg = 0 /\ stores = {} /\ reg = 0
  /\ handle = -1
  /\ answer = FALSE

Tick == pit_callback /\ UNCHANGED callVars

(*------------------------------ pit_add_timer ----------------------------*)

AddRefused ==
  /\ op = "idle"
  /\ \E period \in Periods : pit_add_timer(period, -1)
  /\ handle' = -1
  /\ UNCHANGED <<op, id, arg, stores, reg, answer>>

AddCall(period) ==
  /\ op = "idle"
  /\ ntimers < TimersArraySize
  /\ op' = "add"
  /\ id' = ntimers
  /\ arg' = period
  /\ stores' = Fields
  /\ UNCHANGED <<counter, limit, ntimers, reg, handle, answer>>

(* Faulty: the id returned is ++pit.ntimers.                               *)
AddStore_PreIncrement(field) ==
  /\ op = "add"
  /\ field \in stores
  /\ counter' = IF field = "counter" THEN [counter EXCEPT ![id] = 0] ELSE counter
  /\ limit' = IF field = "limit" THEN [limit EXCEPT ![id] = arg] ELSE limit
  /\ ntimers' = IF field = "ntimers" THEN id + 1 ELSE ntimers
  /\ stores' = stores \ {field}
  /\ op' = IF stores' = {} THEN "idle" ELSE "add"
  /\ handle' = IF stores' = {} THEN id + 1 ELSE handle
  /\ UNCHANGED <<id, arg, reg, answer>>

(* One of the stores, whichever the build has next; the call returns after *)
(* the last one.                                                           *)
AddStore(field) ==
  /\ op = "add"
  /\ field \in stores
  /\ counter' = IF field = "counter" THEN [counter EXCEPT ![id] = 0] ELSE counter
  /\ limit' = IF field = "limit" THEN [limit EXCEPT ![id] = arg] ELSE limit
  /\ ntimers' = IF field = "ntimers" THEN id + 1 ELSE ntimers
  /\ stores' = stores \ {field}
  /\ op' = IF stores' = {} THEN "idle" ELSE "add"
  /\ handle' = IF stores' = {} THEN id ELSE handle
  /\ UNCHANGED <<id, arg, reg, answer>>

(*------------------------------- pit_elapsed -----------------------------*)

PollInvalid(i) ==
  /\ op = "idle"
  /\ ~id_valid(i)
  /\ answer' = FALSE
  /\ UNCHANGED <<counter, limit, ntimers, op, id, arg, stores, reg, handle>>

PollRead(i) ==
  /\ op = "idle"
  /\ id_valid(i)
  /\ op' = "poll"
  /\ id' = i
  /\ reg' = counter[i]
  /\ UNCHANGED <<counter, limit, ntimers, arg, stores, handle, answer>>

PollCompare ==
  /\ op = "poll"
  /\ op' = "idle"
  /\ answer' = (reg = limit[id])
  /\ UNCHANGED <<counter, limit, ntimers, id, arg, stores, reg, handle>>

(*------------------- pit_restart_timer, pit_set_limit --------------------*)

Restart(i) ==
  /\ op = "idle"
  /\ pit_restart_timer(i)
  /\ UNCHANGED callVars

SetLimit(i, ticks) ==
  /\ op = "idle"
  /\ id_valid(i)
  /\ pit_set_limit(i, ticks)
  /\ op' = "reconfigure"
  /\ id' = i
  /\ UNCHANGED <<arg, stores, reg, handle, answer>>

(* Faulty: the count goes on from where it was.                             *)
SetLimitRestart_Forgotten ==
  /\ op = "reconfigure"
  /\ op' = "idle"
  /\ UNCHANGED <<pitVars, id, arg, stores, reg, handle, answer>>

SetLimitRestart ==
  /\ op = "reconfigure"
  /\ pit_restart_timer(id)
  /\ op' = "idle"
  /\ UNCHANGED <<id, arg, stores, reg, handle, answer>>

------------------------------------------------------------------------------

Return == (\E field \in Fields : AddStore(field)) \/ PollCompare \/ SetLimitRestart

Next ==
  \/ Tick
  \/ Return
  \/ AddRefused
  \/ \E period \in Periods : AddCall(period)
  \/ \E i \in CallIds :
       \/ PollInvalid(i)
       \/ PollRead(i)
       \/ Restart(i)
       \/ \E ticks \in Periods : SetLimit(i, ticks)

Spec == Init /\ [][Next]_vars

(***************************************************************************)
(* No timer in service ever counts past its limit, except the one between  *)
(* the two calls that give it a new period; a slot that is not in service  *)
(* is zero, and one being added counts nothing before it has its limit.    *)
(* pit_elapsed compares with == and answers nothing useful of a timer that *)
(* breaks this.                                                            *)
(***************************************************************************)
NeverPastLimit ==
  \A i \in Ids : ~(op = "reconfigure" /\ i = id) => counter[i] <= limit[i]

SpareSlotsZero ==
  \A i \in Ids :
    i >= ntimers /\ ~(op = "add" /\ i = id) => counter[i] = 0 /\ limit[i] = 0

AddInProgress ==
  op = "add" =>
    /\ arg \in Periods
    /\ stores # {}
    /\ ntimers = IF "ntimers" \in stores THEN id ELSE id + 1
    /\ limit[id] = IF "limit" \in stores THEN 0 ELSE arg
    /\ "ntimers" \in stores => counter[id] = 0

CallInProgress ==
  /\ op # "add" => stores = {}
  /\ op \in {"poll", "reconfigure"} => id_valid(id)
  /\ op = "poll" => reg <= counter[id]

Inv ==
  /\ TypeOK
  /\ NeverPastLimit
  /\ SpareSlotsZero
  /\ AddInProgress
  /\ CallInProgress

(***************************************************************************)
(* The table implements Countdown.  A creation takes effect at the last    *)
(* store, whatever the order; a poll takes effect when the counter is      *)
(* read; a timer between pit_set_limit and pit_restart_timer is suspended. *)
(***************************************************************************)
inService == IF op = "add" THEN id ELSE ntimers

ticksLeft ==
  [i \in Ids |->
     IF i >= inService THEN 0
     ELSE IF op = "reconfigure" /\ i = id THEN -1
     ELSE limit[i] - counter[i]]

periodOf == [i \in Ids |-> IF i >= inService THEN 0 ELSE limit[i]]

CD == INSTANCE Countdown WITH
        Pool <- TimersArraySize,
        n <- inService,
        period <- periodOf,
        left <- ticksLeft,
        answer <- IF op = "poll" THEN reg = limit[id] ELSE answer

(***************************************************************************)
(* Every answer of pit_elapsed and every id of pit_add_timer is one the    *)
(* countdown pool could give: no tick is lost or counted twice because of  *)
(* where it fell, no timer is early or late.                               *)
(***************************************************************************)
ImplementsCountdown == CD!Spec

(***************************************************************************)
(* The hardware keeps ticking, and a call that has begun returns; nothing  *)
(* is asked of the drivers, which may call or not.                         *)
(***************************************************************************)
FairSpec == Spec /\ WF_vars(Tick) /\ WF_vars(Return)

(* A period that has not elapsed is restarted or replaced.                 *)
Interrupted(i) ==
  ~pit_elapsed(i) /\ (Restart(i) \/ \E ticks \in Periods : SetLimit(i, ticks))

(***************************************************************************)
(* Every timer in service elapses again and again, whatever periods it is  *)
(* given and however the ticks preempt the calls that give them, unless    *)
(* its own driver keeps interrupting its periods for ever.  The drivers of *)
(* the superloop never do (every pit_restart_timer of theirs is under "if  *)
(* (pit_elapsed(...))"), so none of them waits on a dead timer.            *)
(***************************************************************************)
EveryTimerElapses ==
  \A i \in Ids :
    \/ []<>(id_valid(i) => pit_elapsed(i))
    \/ []<><<Interrupted(i)>>_vars

==============================================================================
