-------------------------- MODULE PitPreemptedProofs --------------------------
(***************************************************************************)
(* Proofs about PitPreempted for every size of the table, every width of   *)
(* the counters and every set of periods: the inductive invariant, and     *)
(* that the table, preempted anywhere, implements Countdown.               *)
(***************************************************************************)
EXTENDS PitPreempted, TLAPS

(* The table is empty and no call has been made when the firmware starts. *)
LEMMA InitInv == Init => Inv
<1> SUFFICES ASSUME Init PROVE Inv
  OBVIOUS
<1> USE PitAssumption DEF Init, pit_init, Ids, Uint32
<1>1. PitTypeOK
  BY DEF PitTypeOK
<1>2. answer \in BOOLEAN
  OBVIOUS
<1>3. TypeOK
  BY <1>1, <1>2 DEF TypeOK, Fields
<1>4. NeverPastLimit /\ SpareSlotsZero
  BY DEF NeverPastLimit, SpareSlotsZero
<1>5. AddInProgress /\ CallInProgress
  BY DEF AddInProgress, CallInProgress
<1> QED
  BY <1>3, <1>4, <1>5 DEF Inv

(* pit_callback keeps the invariant whatever call it preempts. *)
LEMMA TickInv == Inv /\ Tick => Inv'
<1> SUFFICES ASSUME Inv, Tick PROVE Inv'
  OBVIOUS
<1> USE PitAssumption DEF Ids, Uint32
<1>1. /\ UNCHANGED <<limit, ntimers, op, id, arg, stores, reg, handle, answer>>
      /\ counter' = [i \in Ids |->
                       IF i < ntimers /\ counter[i] < limit[i]
                         THEN counter[i] + 1 ELSE counter[i]]
  BY DEF Tick, pit_callback, callVars
<1>2. TypeOK'
  BY <1>1 DEF Inv, TypeOK, PitTypeOK
<1>3. NeverPastLimit'
  BY <1>1 DEF Inv, TypeOK, PitTypeOK, NeverPastLimit
<1>4. SpareSlotsZero'
  BY <1>1 DEF Inv, TypeOK, PitTypeOK, SpareSlotsZero
<1>5. AddInProgress'
  BY <1>1 DEF Inv, TypeOK, PitTypeOK, AddInProgress
<1>6. CallInProgress'
  BY <1>1 DEF Inv, TypeOK, PitTypeOK, CallInProgress, id_valid
<1> QED
  BY <1>2, <1>3, <1>4, <1>5, <1>6 DEF Inv

(* The calls of pit_add_timer keep it, in every order of the stores. *)
LEMMA AddInv ==
  ASSUME Inv,
         \/ AddRefused
         \/ \E period \in Periods : AddCall(period)
         \/ \E field \in Fields : AddStore(field)
  PROVE  Inv'
<1> USE PitAssumption DEF Ids, Uint32
<1>1. CASE AddRefused
  <2>1. UNCHANGED <<counter, limit, ntimers, op, id, arg, stores, reg, answer>>
        /\ handle' = -1
    BY <1>1 DEF AddRefused, pit_add_timer, pitVars, Inv, TypeOK, PitTypeOK
  <2> QED
    BY <2>1 DEF Inv, TypeOK, PitTypeOK, NeverPastLimit, SpareSlotsZero,
         AddInProgress, CallInProgress, id_valid
<1>2. ASSUME NEW period \in Periods, AddCall(period) PROVE Inv'
  BY <1>2, PeriodsAssumption DEF AddCall, Inv, TypeOK, PitTypeOK,
       NeverPastLimit, SpareSlotsZero, AddInProgress, CallInProgress, Fields
<1>3. ASSUME NEW field \in Fields, AddStore(field) PROVE Inv'
  <2> USE <1>3
  <2>1. id \in Ids /\ op = "add" /\ arg \in Uint32 /\ stores # {}
    BY DEF AddStore, Inv, TypeOK, AddInProgress
  <2>2. TypeOK'
    BY <2>1 DEF Inv, TypeOK, PitTypeOK, AddStore, AddInProgress, Fields
  <2>3. NeverPastLimit'
    BY <2>1 DEF Inv, TypeOK, PitTypeOK, AddStore, AddInProgress, Fields,
         NeverPastLimit
  <2>4. SpareSlotsZero'
    BY <2>1 DEF Inv, TypeOK, PitTypeOK, AddStore, AddInProgress, Fields,
         SpareSlotsZero
  <2>5. AddInProgress'
    BY <2>1 DEF Inv, TypeOK, PitTypeOK, AddStore, AddInProgress, Fields
  <2>6. CallInProgress'
    BY <2>1 DEF Inv, TypeOK, AddStore, CallInProgress
  <2> QED
    BY <2>2, <2>3, <2>4, <2>5, <2>6 DEF Inv
<1> QED
  BY <1>1, <1>2, <1>3

(* So do the polls, which write nothing in the table. *)
LEMMA PollInv ==
  ASSUME Inv,
         \/ \E i \in CallIds : PollInvalid(i) \/ PollRead(i)
         \/ PollCompare
  PROVE  Inv'
<1> USE PitAssumption DEF Inv, TypeOK, PitTypeOK, NeverPastLimit,
      SpareSlotsZero, AddInProgress, CallInProgress, Ids, Uint32, CallIds
<1>1. ASSUME NEW i \in CallIds, PollInvalid(i) PROVE Inv'
  BY <1>1 DEF PollInvalid, id_valid
<1>2. ASSUME NEW i \in CallIds, PollRead(i) PROVE Inv'
  BY <1>2 DEF PollRead, id_valid
<1>3. CASE PollCompare
  BY <1>3 DEF PollCompare, id_valid
<1> QED
  BY <1>1, <1>2, <1>3

(* And the restarts and the changes of period. *)
LEMMA RestartInv ==
  ASSUME Inv,
         \/ \E i \in CallIds :
              Restart(i) \/ \E ticks \in Periods : SetLimit(i, ticks)
         \/ SetLimitRestart
  PROVE  Inv'
<1> USE PitAssumption, PeriodsAssumption DEF Inv, TypeOK, PitTypeOK,
      NeverPastLimit, SpareSlotsZero, AddInProgress, CallInProgress, Ids,
      Uint32, CallIds, id_valid
<1>1. ASSUME NEW i \in CallIds, Restart(i) PROVE Inv'
  BY <1>1 DEF Restart, pit_restart_timer, callVars
<1>2. ASSUME NEW i \in CallIds, NEW ticks \in Periods, SetLimit(i, ticks)
      PROVE  Inv'
  BY <1>2 DEF SetLimit, pit_set_limit
<1>3. CASE SetLimitRestart
  BY <1>3 DEF SetLimitRestart, pit_restart_timer
<1> QED
  BY <1>1, <1>2, <1>3

(* Inv is inductive.                                                        *)
LEMMA NextInv == Inv /\ [Next]_vars => Inv'
<1> SUFFICES ASSUME Inv, [Next]_vars PROVE Inv'
  OBVIOUS
<1>1. CASE Next
  BY <1>1, TickInv, AddInv, PollInv, RestartInv DEF Next, Return
<1>2. CASE UNCHANGED vars
  BY <1>2 DEF vars, Inv, TypeOK, PitTypeOK, NeverPastLimit, SpareSlotsZero,
       AddInProgress, CallInProgress, id_valid
<1> QED
  BY <1>1, <1>2

(***************************************************************************)
(* However the interrupt preempts the calls, no timer counts past its      *)
(* limit outside a change of period, and no slot of the table is counted   *)
(* before it is in service.                                                *)
(***************************************************************************)
THEOREM Safety == Spec => []Inv
<1> QED
  BY InitInv, NextInv, PTL DEF Spec

------------------------------------------------------------------------------
(* From here on: the table implements Countdown, one lemma per call.        *)

(* No timer is in service in either of them.                                *)
LEMMA InitRefines == Init => CD!Init
BY PitAssumption DEF Init, pit_init, CD!Init, CD!Timers, CD!None, Ids,
     inService, ticksLeft, periodOf

(* A tick of the table is a tick of the pool: the timers in service are    *)
(* decremented until they reach zero, whichever call is in progress.       *)
LEMMA TickRefines == Inv /\ Tick => CD!Tick
<1> SUFFICES ASSUME Inv, Tick PROVE CD!Tick
  OBVIOUS
<1> USE PitAssumption DEF Ids, Uint32
<1>1. /\ UNCHANGED <<limit, ntimers, op, id, arg, stores, reg, handle, answer>>
      /\ counter' = [i \in Ids |->
                       IF i < ntimers /\ counter[i] < limit[i]
                         THEN counter[i] + 1 ELSE counter[i]]
  BY DEF Tick, pit_callback, callVars
<1>2. inService' = inService /\ inService <= ntimers /\ inService \in Nat
  BY <1>1 DEF inService, Inv, TypeOK, PitTypeOK, AddInProgress
<1>3. periodOf' = periodOf
  BY <1>1, <1>2 DEF periodOf
<1>4. ticksLeft' = [i \in Ids |-> IF ticksLeft[i] > 0 THEN ticksLeft[i] - 1
                                                     ELSE ticksLeft[i]]
  <2> SUFFICES ASSUME NEW i \in Ids
               PROVE  ticksLeft'[i] = IF ticksLeft[i] > 0 THEN ticksLeft[i] - 1
                                                          ELSE ticksLeft[i]
    BY DEF ticksLeft
  <2> QED
    BY <1>1, <1>2 DEF ticksLeft, Inv, TypeOK, PitTypeOK, NeverPastLimit
<1> QED
  BY <1>1, <1>2, <1>3, <1>4 DEF CD!Tick, CD!Timers

(* The last of the stores creates the timer, the others change nothing.    *)
LEMMA AddStoreRefines ==
  ASSUME Inv, NEW field \in Fields, AddStore(field)
  PROVE  (\E p \in Periods : CD!Create(p)) \/ UNCHANGED CD!vars
<1> USE PitAssumption DEF Ids, Uint32
<1>1. /\ op = "add" /\ id \in Ids /\ id \in Nat /\ arg \in Periods
      /\ inService = id
  BY DEF AddStore, Inv, TypeOK, AddInProgress, inService
<1>2. /\ counter \in [Ids -> Uint32] /\ limit \in [Ids -> Uint32]
      /\ UNCHANGED <<id, arg, reg, answer>>
  BY DEF AddStore, Inv, TypeOK, PitTypeOK
<1>3. \A i \in Ids : i # id => counter'[i] = counter[i] /\ limit'[i] = limit[i]
  BY <1>1, <1>2 DEF AddStore
<1>4. CASE stores' # {}
  <2>1. op' = "add" /\ handle' = handle /\ inService' = inService
    BY <1>1, <1>2, <1>4 DEF AddStore, inService
  <2>2. ticksLeft' = ticksLeft /\ periodOf' = periodOf
    BY <1>1, <1>2, <1>3, <2>1 DEF ticksLeft, periodOf
  <2> QED
    BY <1>1, <1>2, <2>1, <2>2 DEF CD!vars
<1>5. CASE stores' = {}
  <2>1. op' = "idle" /\ handle' = id
    BY <1>5 DEF AddStore
  <2>2. stores = {field}
    BY <1>5 DEF AddStore
  <2>3. counter'[id] = 0 /\ limit'[id] = arg /\ ntimers' = id + 1
    BY <1>1, <1>2, <2>2 DEF AddStore, Inv, AddInProgress, Fields, TypeOK,
         PitTypeOK, NeverPastLimit
  <2>4. inService' = id + 1
    BY <2>1, <2>3 DEF inService
  <2>5. arg \in Int
    BY <1>1, PeriodsAssumption
  <2>6. ticksLeft' = [ticksLeft EXCEPT ![id] = arg]
    <3> SUFFICES ASSUME NEW i \in Ids
                 PROVE  ticksLeft'[i] = IF i = id THEN arg ELSE ticksLeft[i]
      BY <1>1 DEF ticksLeft
    <3> QED
      BY <1>1, <1>2, <1>3, <2>1, <2>3, <2>4, <2>5 DEF ticksLeft
  <2>7. periodOf' = [periodOf EXCEPT ![id] = arg]
    <3> SUFFICES ASSUME NEW i \in Ids
                 PROVE  periodOf'[i] = IF i = id THEN arg ELSE periodOf[i]
      BY <1>1 DEF periodOf
    <3> QED
      BY <1>1, <1>2, <1>3, <2>1, <2>3, <2>4 DEF periodOf
  <2>8. inService < TimersArraySize /\ inService' = inService + 1
    BY <1>1, <2>4
  <2>9. (IF op' = "poll" THEN reg' = limit'[id'] ELSE answer')
          = (IF op = "poll" THEN reg = limit[id] ELSE answer)
    BY <1>1, <1>2, <2>1
  <2>10. CD!Create(arg)
    BY <1>1, <2>1, <2>6, <2>7, <2>8, <2>9 DEF CD!Create
  <2> QED
    BY <1>1, <2>10
<1> QED
  BY <1>4, <1>5

(* A creation that has not stored anything yet cannot be seen.              *)
LEMMA AddCallRefines ==
  ASSUME Inv, \/ AddRefused
              \/ \E period \in Periods : AddCall(period)
  PROVE  CD!Refuse \/ UNCHANGED CD!vars
<1> USE PitAssumption DEF Inv, TypeOK, PitTypeOK, Ids, Uint32
<1>1. CASE AddRefused
  <2>1. /\ UNCHANGED <<counter, limit, ntimers, op, id, reg, answer>>
        /\ handle' = -1 /\ op = "idle" /\ ntimers = TimersArraySize
    BY <1>1 DEF AddRefused, pit_add_timer, pitVars
  <2> QED
    BY <2>1 DEF CD!Refuse, CD!None, inService, ticksLeft, periodOf
<1>2. ASSUME NEW period \in Periods, AddCall(period)
      PROVE  UNCHANGED CD!vars
  <2>1. /\ op = "idle" /\ op' = "add" /\ id' = ntimers
        /\ UNCHANGED <<counter, limit, ntimers, reg, handle, answer>>
    BY <1>2 DEF AddCall
  <2>2. inService' = inService
    BY <2>1 DEF inService
  <2>3. ticksLeft' = ticksLeft /\ periodOf' = periodOf
    BY <2>1, <2>2 DEF ticksLeft, periodOf
  <2> QED
    BY <2>1, <2>2, <2>3 DEF CD!vars
<1> QED
  BY <1>1, <1>2

(* A poll takes effect where the counter is read.                           *)
LEMMA PollRefines ==
  ASSUME Inv,
         \/ \E i \in CallIds : PollInvalid(i) \/ PollRead(i)
         \/ PollCompare
  PROVE  (\E i \in -1 .. TimersArraySize : CD!Poll(i)) \/ UNCHANGED CD!vars
<1> USE PitAssumption DEF Ids, Uint32, CallIds
<1>1. counter \in [Ids -> Uint32] /\ limit \in [Ids -> Uint32] /\ ntimers \in Nat
      /\ ntimers <= TimersArraySize
  BY DEF Inv, TypeOK, PitTypeOK
<1>2. ASSUME NEW i \in CallIds, PollInvalid(i) PROVE CD!Poll(i)
  <2>1. /\ op = "idle" /\ answer' = FALSE
        /\ UNCHANGED <<counter, limit, ntimers, op, id, reg, handle>>
    BY <1>2 DEF PollInvalid
  <2>2. UNCHANGED <<inService, ticksLeft, periodOf>>
    BY <2>1 DEF inService, ticksLeft, periodOf
  <2>3. ~CD!InService(i)
    BY <1>2, <2>1 DEF PollInvalid, id_valid, CD!InService, inService
  <2> QED
    BY <2>1, <2>2, <2>3 DEF CD!Poll
<1>3. ASSUME NEW i \in CallIds, PollRead(i) PROVE CD!Poll(i)
  <2>1. /\ op = "idle" /\ op' = "poll" /\ id' = i /\ reg' = counter[i]
        /\ UNCHANGED <<counter, limit, ntimers, handle, answer>>
        /\ i \in Ids /\ i < ntimers /\ i >= 0
    BY <1>1, <1>3 DEF PollRead, id_valid
  <2>2. UNCHANGED <<inService, periodOf>> /\ inService = ntimers
    BY <2>1 DEF inService, periodOf
  <2>3. UNCHANGED ticksLeft
    BY <2>1, <2>2 DEF ticksLeft
  <2>4. (counter[i] = limit[i]) <=> (CD!InService(i) /\ ticksLeft[i] = 0)
    BY <1>1, <2>1, <2>2 DEF ticksLeft, CD!InService
  <2> QED
    BY <2>1, <2>2, <2>3, <2>4 DEF CD!Poll
<1>4. CASE PollCompare
  <2>1. /\ op = "poll" /\ op' = "idle" /\ answer' = (reg = limit[id])
        /\ UNCHANGED <<counter, limit, ntimers, id, reg, handle>>
    BY <1>4 DEF PollCompare
  <2>2. UNCHANGED <<inService, ticksLeft, periodOf>>
    BY <2>1 DEF inService, ticksLeft, periodOf
  <2> QED
    BY <2>1, <2>2 DEF CD!vars
<1> QED
  BY <1>2, <1>3, <1>4

(* A change of period suspends the timer until it is restarted.             *)
LEMMA RestartRefines ==
  ASSUME Inv,
         \/ \E i \in CallIds :
              Restart(i) \/ \E ticks \in Periods : SetLimit(i, ticks)
         \/ SetLimitRestart
  PROVE  \/ \E i \in Ids : CD!Restart(i)
         \/ \E i \in Ids, p \in Periods : CD!Suspend(i, p)
         \/ UNCHANGED CD!vars
<1> USE PitAssumption DEF Ids, Uint32, CallIds
<1>1. counter \in [Ids -> Uint32] /\ limit \in [Ids -> Uint32] /\ ntimers \in Nat
      /\ ntimers <= TimersArraySize /\ id \in Ids
  BY DEF Inv, TypeOK, PitTypeOK
<1>2. ASSUME NEW i \in CallIds, Restart(i)
      PROVE  (i \in Ids /\ CD!Restart(i)) \/ UNCHANGED CD!vars
  <2>1. /\ op = "idle" /\ UNCHANGED <<limit, ntimers, op, id, reg, handle, answer>>
        /\ inService = ntimers /\ UNCHANGED inService
    BY <1>2 DEF Restart, pit_restart_timer, callVars, inService
  <2>2. periodOf' = periodOf
    BY <2>1 DEF periodOf
  <2>3. CASE ~id_valid(i)
    <3>1. ticksLeft' = ticksLeft
      BY <1>2, <2>1, <2>3 DEF Restart, pit_restart_timer, ticksLeft
    <3> QED
      BY <2>1, <2>2, <3>1 DEF CD!vars
  <2>4. CASE id_valid(i)
    <3>1. i \in Ids /\ i < ntimers /\ counter' = [counter EXCEPT ![i] = 0]
      BY <1>1, <1>2, <2>4 DEF Restart, pit_restart_timer, id_valid
    <3>2. ticksLeft' = [ticksLeft EXCEPT ![i] = periodOf[i]]
      <4> SUFFICES ASSUME NEW j \in Ids
                   PROVE  ticksLeft'[j] = IF j = i THEN periodOf[i] ELSE ticksLeft[j]
        BY DEF ticksLeft
      <4> QED
        BY <1>1, <2>1, <3>1 DEF ticksLeft, periodOf
    <3> QED
      BY <2>1, <2>2, <3>1, <3>2 DEF CD!Restart, CD!InService
  <2> QED
    BY <2>3, <2>4
<1>3. ASSUME NEW i \in CallIds, NEW ticks \in Periods, SetLimit(i, ticks)
      PROVE  i \in Ids /\ CD!Suspend(i, ticks)
  <2>1. /\ op = "idle" /\ op' = "reconfigure" /\ id' = i
        /\ UNCHANGED <<counter, ntimers, reg, handle, answer>>
        /\ i \in Ids /\ i < ntimers /\ limit' = [limit EXCEPT ![i] = ticks]
    BY <1>1, <1>3 DEF SetLimit, pit_set_limit, id_valid
  <2>2. UNCHANGED inService /\ inService = ntimers
    BY <2>1 DEF inService
  <2>3. periodOf' = [periodOf EXCEPT ![i] = ticks]
    <3> SUFFICES ASSUME NEW j \in Ids
                 PROVE  periodOf'[j] = IF j = i THEN ticks ELSE periodOf[j]
      BY DEF periodOf
    <3> QED
      BY <1>1, <2>1, <2>2 DEF periodOf
  <2>4. ticksLeft' = [ticksLeft EXCEPT ![i] = -1]
    <3> SUFFICES ASSUME NEW j \in Ids
                 PROVE  ticksLeft'[j] = IF j = i THEN -1 ELSE ticksLeft[j]
      BY DEF ticksLeft
    <3> QED
      BY <1>1, <2>1, <2>2 DEF ticksLeft
  <2> QED
    BY <2>1, <2>2, <2>3, <2>4 DEF CD!Suspend, CD!InService, CD!Suspended
<1>4. CASE SetLimitRestart
  <2>1. /\ op = "reconfigure" /\ op' = "idle" /\ id < ntimers
        /\ UNCHANGED <<limit, ntimers, id, reg, handle, answer>>
        /\ counter' = [counter EXCEPT ![id] = 0]
    BY <1>4 DEF SetLimitRestart, pit_restart_timer, Inv, CallInProgress, id_valid
  <2>2. UNCHANGED inService /\ inService = ntimers
    BY <2>1 DEF inService
  <2>3. periodOf' = periodOf
    BY <2>1, <2>2 DEF periodOf
  <2>4. ticksLeft' = [ticksLeft EXCEPT ![id] = periodOf[id]]
    <3> SUFFICES ASSUME NEW j \in Ids
                 PROVE  ticksLeft'[j] = IF j = id THEN periodOf[id] ELSE ticksLeft[j]
      BY DEF ticksLeft
    <3> QED
      BY <1>1, <2>1, <2>2 DEF ticksLeft, periodOf
  <2>5. CD!Restart(id)
    BY <1>1, <2>1, <2>2, <2>3, <2>4 DEF CD!Restart, CD!InService
  <2> QED
    BY <1>1, <2>5
<1> QED
  BY <1>2, <1>3, <1>4

(* Each step of the table is a step of the pool or none.                    *)
LEMMA StepRefines == Inv /\ [Next]_vars => [CD!Next]_(CD!vars)
<1> SUFFICES ASSUME Inv, [Next]_vars PROVE CD!Next \/ UNCHANGED CD!vars
  OBVIOUS
<1>1. CASE Tick
  BY <1>1, TickRefines DEF CD!Next
<1>2. CASE AddRefused \/ \E period \in Periods : AddCall(period)
  BY <1>2, AddCallRefines DEF CD!Next
<1>3. CASE \E field \in Fields : AddStore(field)
  BY <1>3, AddStoreRefines DEF CD!Next
<1>4. CASE (\E i \in CallIds : PollInvalid(i) \/ PollRead(i)) \/ PollCompare
  BY <1>4, PollRefines DEF CD!Next
<1>5. CASE \/ \E i \in CallIds :
                Restart(i) \/ \E ticks \in Periods : SetLimit(i, ticks)
           \/ SetLimitRestart
  BY <1>5, RestartRefines DEF CD!Next, CD!Timers, Ids
<1>6. CASE UNCHANGED vars
  BY <1>6 DEF vars, CD!vars, inService, ticksLeft, periodOf
<1> QED
  BY <1>1, <1>2, <1>3, <1>4, <1>5, <1>6 DEF Next, Return

(***************************************************************************)
(* The preempted timer table implements the pool of countdowns: whatever   *)
(* the size of the pool and the periods, and wherever the ticks fall among *)
(* the accesses of a call, every answer of pit_elapsed and every id of     *)
(* pit_add_timer is one that Countdown allows.                             *)
(***************************************************************************)
THEOREM Implementation == Spec => ImplementsCountdown
<1>1. Spec => CD!Init /\ [][CD!Next]_(CD!vars)
  BY InitRefines, StepRefines, Safety, PTL DEF Spec
<1> QED
  BY <1>1 DEF ImplementsCountdown, CD!Spec

==============================================================================
