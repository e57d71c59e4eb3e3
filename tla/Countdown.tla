------------------------------ MODULE Countdown ------------------------------
(***************************************************************************)
(* What src/src/pit.c promises the drivers of the firmware: a bounded pool *)
(* of countdown timers with dense, never reused ids.  A timer created or   *)
(* restarted with a period of p answers "elapsed" exactly when p ticks     *)
(* have gone by since, however the ticks fall among the calls; from then   *)
(* on it keeps the answer until it is restarted.                           *)
(***************************************************************************)
EXTENDS Integers

CONSTANTS
  Pool,   \* how many timers the pool holds
  Periods \* the periods, in ticks, that can be asked for

Suspended == -1   \* a timer between two periods
None == -1        \* the id returned when the pool is exhausted

Timers == 0 .. Pool - 1

VARIABLES
  n,       \* timers in service: 0 .. n - 1
  period,  \* the period each was given
  left,    \* the ticks each has still to count
  handle,  \* what the last creation returned
  answer   \* what the last poll returned

vars == <<n, period, left, handle, answer>>

Init ==
  /\ n = 0
  /\ period = [i \in Timers |-> 0]
  /\ left = [i \in Timers |-> 0]
  /\ handle = None
  /\ answer = FALSE

InService(i) == i >= 0 /\ i < n

Create(p) ==
  /\ n < Pool
  /\ n' = n + 1
  /\ period' = [period EXCEPT ![n] = p]
  /\ left' = [left EXCEPT ![n] = p]
  /\ handle' = n
  /\ UNCHANGED answer

Refuse ==
  /\ n = Pool
  /\ handle' = None
  /\ UNCHANGED <<n, period, left, answer>>

Tick ==
  /\ left' = [i \in Timers |-> IF left[i] > 0 THEN left[i] - 1 ELSE left[i]]
  /\ UNCHANGED <<n, period, handle, answer>>

(* A poll answers for the instant it takes effect; a bad id never elapses. *)
Poll(i) ==
  /\ answer' = (InService(i) /\ left[i] = 0)
  /\ UNCHANGED <<n, period, left, handle>>

Restart(i) ==
  /\ InService(i)
  /\ left' = [left EXCEPT ![i] = period[i]]
  /\ UNCHANGED <<n, period, handle, answer>>

(* A new period is given in two steps: the count stops, then starts anew.  *)
Suspend(i, p) ==
  /\ InService(i)
  /\ period' = [period EXCEPT ![i] = p]
  /\ left' = [left EXCEPT ![i] = Suspended]
  /\ UNCHANGED <<n, handle, answer>>

(* The callers hand in any id, the two nearest bad ones included.           *)
Next ==
  \/ Tick
  \/ Refuse
  \/ \E p \in Periods : Create(p)
  \/ \E i \in Timers : Restart(i)
  \/ \E i \in Timers, p \in Periods : Suspend(i, p)
  \/ \E i \in -1 .. Pool : Poll(i)

Spec == Init /\ [][Next]_vars

==============================================================================
