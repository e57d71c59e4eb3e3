--------------------------------- MODULE Fifo ---------------------------------
(***************************************************************************)
(* What each message ring of src/src/can.c promises: a bounded queue that  *)
(* hands messages out once each, in the order they came in, and refuses    *)
(* the newest message when, and only when, it is full.  A refusal leaves a *)
(* mark until the queue next changes, so that one at a queue with room is  *)
(* no step of this specification, and not a step that nobody sees.         *)
(***************************************************************************)
EXTENDS Sequences, Naturals

CONSTANTS
  Size,      \* messages the queue can hold
  Messages,  \* messages it may be offered
  None       \* what it has handed out before the first message

VARIABLES
  queue,   \* accepted and not handed out yet
  out,     \* the message handed out last
  refused  \* a message has been refused since the queue last changed

vars == <<queue, out, refused>>

Init == queue = <<>> /\ out = None /\ refused = FALSE

Accept(m) ==
  /\ Len(queue) < Size
  /\ queue' = Append(queue, m)
  /\ refused' = FALSE
  /\ UNCHANGED out

Refuse ==
  /\ Len(queue) = Size
  /\ refused' = TRUE
  /\ UNCHANGED <<queue, out>>

HandOut ==
  /\ queue # <<>>
  /\ out' = Head(queue)
  /\ queue' = Tail(queue)
  /\ refused' = FALSE

Next == (\E m \in Messages : Accept(m)) \/ Refuse \/ HandOut

Spec == Init /\ [][Next]_vars

==============================================================================
