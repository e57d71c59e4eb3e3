---------------------------------- MODULE Can ----------------------------------
(***************************************************************************)
(* src/src/can.c: a ring of received messages, filled by the interrupt and *)
(* emptied by can_main, and a ring of messages to send, filled by          *)
(* can_send_msg and emptied by can_main through mailbox 0 of the FlexCAN   *)
(* driver.                                                                 *)
(*                                                                         *)
(* The superloop's steps are split where the interrupt can tell: at the    *)
(* accesses to a slot's "processed" flag and at the calls of the driver.   *)
(* Can0_Rx_Callback runs in the interrupt and is one step.  A message is   *)
(* its id and an opaque payload, len included.  can.timer_ms is never      *)
(* assigned, so the timer has limit 0 and every can_main finds it elapsed. *)
(*                                                                         *)
(* The FlexCAN driver is not in the repository: of a mailbox the model     *)
(* keeps what can.c sees, whether a transfer is in progress and which ids  *)
(* it was configured to receive.                                           *)
(***************************************************************************)
EXTENDS Naturals, Sequences

CONSTANTS
  BufferSize,          \* CAN_BUFFER_SIZE
  RxIds,               \* ids on the bus
  TxIds,               \* ids passed to can_send_msg
  Payloads,            \* what a message carries
  Blank,               \* the payload of an empty slot
  UnconfiguredAccepts  \* the ids a mailbox never given to ConfigRxMb receives

CAN_MAX_ID == 2047
MSG_111 == 273
MSG_222 == 546

ASSUME CanAssumption ==
  /\ BufferSize \in Nat \ {0}
  /\ RxIds \subseteq 0 .. CAN_MAX_ID
  /\ TxIds \subseteq Nat
  /\ UnconfiguredAccepts \subseteq RxIds

Slots == 0 .. BufferSize - 1
Message == [id : 0 .. CAN_MAX_ID, data : Payloads \cup {Blank}]
RxFrames == [id : RxIds, data : Payloads]
TxRequests == [id : TxIds, data : Payloads]
NoMessage == [id |-> CAN_MAX_ID, data |-> Blank]
Mailboxes == {0, 1}

VARIABLES
  rxMsg, rxProcessed, rxRd, rxWr,  \* can.rx
  txMsg, txProcessed, txRd, txWr,  \* can.tx
  filter,   \* the ids each mailbox receives
  mailbox,  \* the transfer each mailbox has in progress
  pc,       \* where the superloop is inside can_main
  current,  \* the message process_rx_msg looks at, while it does
  got,      \* the last one it dealt with
  wire,     \* the last one the driver took to send
  rxRefused, txRefused  \* a message has found no place in the ring since
                        \* one last came in or went out

rxVars == <<rxMsg, rxProcessed, rxRd, rxWr, current, got, rxRefused>>
txVars == <<txMsg, txProcessed, txRd, txWr, wire, txRefused>>
vars == <<rxMsg, rxProcessed, rxRd, rxWr, txMsg, txProcessed, txRd, txWr,
          filter, mailbox, pc, current, got, wire, rxRefused, txRefused>>

TypeOK ==
  /\ rxMsg \in [Slots -> Message] /\ txMsg \in [Slots -> Message]
  /\ rxProcessed \in [Slots -> BOOLEAN] /\ txProcessed \in [Slots -> BOOLEAN]
  /\ {rxRd, rxWr, txRd, txWr} \subseteq Slots
  /\ filter \in [Mailboxes -> SUBSET (RxIds \cup {MSG_111, MSG_222})]
  /\ mailbox \in [Mailboxes -> {"idle", "rx", "tx"}]
  /\ pc \in {"idle", "send", "poll", "take", "mark", "advance"}
  /\ {current, got, wire} \subseteq Message
  /\ {rxRefused, txRefused} \subseteq BOOLEAN

NextSlot_TooFar(i) == IF i + 1 > BufferSize THEN 0 ELSE i + 1  \* faulty
NextSlot(i) == IF i + 1 >= BufferSize THEN 0 ELSE i + 1

(*------------------------------ FlexCAN driver ---------------------------*)

(* A mailbox has one filter: configuring it again replaces the first.       *)
FlexCAN_Ip_ConfigRxMb(f, mb, id) == [f EXCEPT ![mb] = {id}]

(* Receive and Send do nothing on a mailbox that is busy.                   *)
FlexCAN_Ip_Receive(m, mb) == IF m[mb] = "idle" THEN [m EXCEPT ![mb] = "rx"] ELSE m
FlexCAN_Ip_Send(mb, msg) ==
  IF mailbox[mb] = "idle"
    THEN mailbox' = [mailbox EXCEPT ![mb] = "tx"] /\ wire' = msg
    ELSE UNCHANGED <<mailbox, wire>>

TxComplete ==
  /\ mailbox[0] = "tx"
  /\ mailbox' = [mailbox EXCEPT ![0] = "idle"]
  /\ UNCHANGED <<rxVars, txVars, filter, pc>>

(*-------------------------------- can.c ----------------------------------*)

(* can_init leaves can.tx.idx_wr to .bss: it assigns idx_rd twice.          *)
can_init ==
  /\ rxMsg = [i \in Slots |-> NoMessage] /\ rxProcessed = [i \in Slots |-> TRUE]
  /\ txMsg = [i \in Slots |-> NoMessage] /\ txProcessed = [i \in Slots |-> TRUE]
  /\ rxRd = 0 /\ rxWr = 0 /\ txRd = 0 /\ txWr = 0
  /\ filter = LET reset == [mb \in Mailboxes |-> UnconfiguredAccepts]
                  first == FlexCAN_Ip_ConfigRxMb(reset, 1, MSG_111)
              IN  FlexCAN_Ip_ConfigRxMb(first, 1, MSG_222)
  /\ mailbox = FlexCAN_Ip_Receive([mb \in Mailboxes |-> "idle"], 0)
  /\ pc = "idle"
  /\ current = NoMessage /\ got = NoMessage /\ wire = NoMessage
  /\ rxRefused = FALSE /\ txRefused = FALSE

(* The interrupt: the message received goes into the ring, if its slot is   *)
(* free, and mailbox 1 is armed again, whichever mailbox it came from.       *)
insert_into_rx_buf_OneFree(msg) ==  \* faulty: asks the indices, as if no slot said so
  IF NextSlot(rxWr) # rxRd
    THEN /\ rxMsg' = [rxMsg EXCEPT ![rxWr] = msg]
         /\ rxProcessed' = [rxProcessed EXCEPT ![rxWr] = FALSE]
         /\ rxWr' = NextSlot(rxWr)
    ELSE UNCHANGED <<rxMsg, rxProcessed, rxWr>>

insert_into_rx_buf(msg) ==
  IF rxProcessed[rxWr]
    THEN /\ rxMsg' = [rxMsg EXCEPT ![rxWr] = msg]
         /\ rxProcessed' = [rxProcessed EXCEPT ![rxWr] = FALSE]
         /\ rxWr' = NextSlot(rxWr)
    ELSE UNCHANGED <<rxMsg, rxProcessed, rxWr>>

Can0_Rx_Callback(mb, msg) ==
  /\ mailbox[mb] = "rx" /\ msg.id \in filter[mb]
  /\ insert_into_rx_buf(msg)
  /\ rxRefused' = (rxProcessed' = rxProcessed)
  /\ mailbox' = FlexCAN_Ip_Receive([mailbox EXCEPT ![mb] = "idle"], 1)
  /\ UNCHANGED <<rxRd, txVars, filter, pc, current, got>>

(* Called by the superloop between two passes of can_main.                  *)
can_send_msg(msg) ==
  /\ pc = "idle"
  /\ msg.id <= CAN_MAX_ID
  /\ IF txProcessed[txWr]
       THEN /\ txMsg' = [txMsg EXCEPT ![txWr] = msg]
            /\ txProcessed' = [txProcessed EXCEPT ![txWr] = FALSE]
            /\ txWr' = NextSlot(txWr)
       ELSE UNCHANGED <<txMsg, txProcessed, txWr>>
  /\ txRefused' = (txProcessed' = txProcessed)
  /\ UNCHANGED <<rxVars, txRd, filter, mailbox, pc, wire>>

tx_done_Always == TRUE  \* faulty
tx_done == mailbox[0] = "idle"

(* can_main: process_tx_buffer first, ...                                   *)
process_tx_buffer ==
  /\ pc = "idle"
  /\ pc' = IF txRd # txWr /\ tx_done THEN "send" ELSE "poll"
  /\ UNCHANGED <<rxVars, txVars, filter, mailbox>>

process_tx_msg_Stays ==  \* faulty: idx_rd is not advanced
  /\ pc = "send"
  /\ IF txProcessed[txRd]
       THEN UNCHANGED <<mailbox, wire, txProcessed, txRefused>>
       ELSE /\ FlexCAN_Ip_Send(0, txMsg[txRd])
            /\ txProcessed' = [txProcessed EXCEPT ![txRd] = TRUE]
            /\ txRefused' = FALSE
  /\ pc' = "poll"
  /\ UNCHANGED <<rxVars, txMsg, txRd, txWr, filter>>

process_tx_msg ==
  /\ pc = "send"
  /\ IF txProcessed[txRd]
       THEN UNCHANGED <<mailbox, wire, txProcessed, txRefused>>
       ELSE /\ FlexCAN_Ip_Send(0, txMsg[txRd])
            /\ txProcessed' = [txProcessed EXCEPT ![txRd] = TRUE]
            /\ txRefused' = FALSE
  /\ txRd' = NextSlot(txRd)
  /\ pc' = "poll"
  /\ UNCHANGED <<rxVars, txMsg, txWr, filter>>

(* ... then process_rx_buffer, which takes at most one message.             *)
process_rx_buffer_IndicesOnly ==  \* faulty: a full ring looks empty
  /\ pc = "poll"
  /\ pc' = IF rxRd # rxWr THEN "take" ELSE "idle"
  /\ UNCHANGED <<rxVars, txVars, filter, mailbox>>

process_rx_buffer ==
  /\ pc = "poll"
  /\ pc' = IF rxRd # rxWr \/ ~rxProcessed[rxRd] THEN "take" ELSE "idle"
  /\ UNCHANGED <<rxVars, txVars, filter, mailbox>>

RxTake ==
  /\ pc = "take"
  /\ IF rxProcessed[rxRd]
       THEN pc' = "advance" /\ UNCHANGED current
       ELSE pc' = "mark" /\ current' = rxMsg[rxRd]
  /\ UNCHANGED <<rxMsg, rxProcessed, rxRd, rxWr, got, rxRefused, txVars, filter, mailbox>>

process_rx_msg ==
  /\ pc = "mark"
  /\ got' = current
  /\ current' = NoMessage
  /\ rxProcessed' = [rxProcessed EXCEPT ![rxRd] = TRUE]
  /\ rxRefused' = FALSE
  /\ pc' = "advance"
  /\ UNCHANGED <<rxMsg, rxRd, rxWr, txVars, filter, mailbox>>

RxAdvance ==
  /\ pc = "advance"
  /\ rxRd' = NextSlot(rxRd)
  /\ pc' = "idle"
  /\ UNCHANGED <<rxMsg, rxProcessed, rxWr, current, got, rxRefused, txVars, filter, mailbox>>

can_main ==
  \/ process_tx_buffer
  \/ process_tx_msg
  \/ process_rx_buffer
  \/ RxTake
  \/ process_rx_msg
  \/ RxAdvance

Init == can_init

Next ==
  \/ can_main
  \/ TxComplete
  \/ \E msg \in TxRequests : can_send_msg(msg)
  \/ \E mb \in Mailboxes, msg \in RxFrames : Can0_Rx_Callback(mb, msg)

(* The superloop keeps calling can_main; a frame started gets sent.         *)
Fairness == WF_vars(can_main) /\ WF_vars(TxComplete)

Spec == Init /\ [][Next]_vars /\ Fairness

(*------------------------------ properties -------------------------------*)

(***************************************************************************)
(* The messages of a ring not handed out yet, oldest first: the slots from *)
(* "from" on, cyclically, as long as they are not processed.               *)
(***************************************************************************)
Pending(buf, processed, from) ==
  LET slot(k) == (from + k - 1) % BufferSize
      count == IF \A i \in Slots : ~processed[i] THEN BufferSize
               ELSE CHOOSE k \in Slots :
                      /\ processed[slot(k + 1)]
                      /\ \A j \in 1 .. k : ~processed[slot(j)]
  IN  [k \in 1 .. count |-> buf[slot(k)]]

(* Between the flag and the index of process_rx_buffer the oldest message   *)
(* is already out.                                                          *)
RxHead == IF pc = "advance" THEN NextSlot(rxRd) ELSE rxRd
RxFull == \A i \in Slots : ~rxProcessed[i]
TxFull == \A i \in Slots : ~txProcessed[i]

RxQueue == INSTANCE Fifo WITH
  Size <- BufferSize, Messages <- RxFrames, None <- NoMessage,
  queue <- Pending(rxMsg, rxProcessed, RxHead), out <- got, refused <- rxRefused

TxQueue == INSTANCE Fifo WITH
  Size <- BufferSize, Messages <- TxRequests \cap Message, None <- NoMessage,
  queue <- Pending(txMsg, txProcessed, txRd), out <- wire, refused <- txRefused

(***************************************************************************)
(* The receive ring is a queue that refuses only when full, although the   *)
(* interrupt inserts between any two accesses of process_rx_buffer: no     *)
(* message is overtaken, processed twice, overwritten unread or turned     *)
(* away while a slot is free (insert_into_rx_buf).                         *)
(***************************************************************************)
RxIsFifo == RxQueue!Spec

(***************************************************************************)
(* So is the transmit ring, which can_send_msg finds full only when it is, *)
(* and a message leaves it by being handed to a driver whose mailbox is    *)
(* free: none is marked processed and dropped.                             *)
(***************************************************************************)
TxIsFifo == TxQueue!Spec

(***************************************************************************)
(* Every message in the receive ring is processed in the end, also when    *)
(* the ring is full and its two indices are equal (process_rx_buffer).     *)
(***************************************************************************)
EveryRxProcessed ==
  \A i \in Slots : ~rxProcessed[i] ~> rxProcessed[i]

EveryTxSent == \A i \in Slots : ~txProcessed[i] ~> txProcessed[i]

(***************************************************************************)
(* Every message in the transmit ring is sent in the end, provided the     *)
(* ring never fills up and mailbox 0 does not stay armed for reception     *)
(* (process_tx_buffer, tx_done).                                           *)
(***************************************************************************)
EveryTxSentUnlessFull ==
  []~TxFull /\ <>[](mailbox[0] # "rx") => EveryTxSent

(***************************************************************************)
(* What can_send_msg says of itself: "Store a CAN msg into the TX buffer   *)
(* to send it".  A stored message is sent in the end, a full ring or not.  *)
(***************************************************************************)
EveryStoredTxSent == <>[](mailbox[0] # "rx") => EveryTxSent

(***************************************************************************)
(* What can_init says of its calls of FlexCAN_Ip_ConfigRxMb: "configures   *)
(* all the messages to their corresponding mailboxes".  Each of the two    *)
(* messages can_main knows has a mailbox that receives it.                 *)
(***************************************************************************)
EveryMessageHasMailbox ==
  \A id \in {MSG_111, MSG_222} : \E mb \in Mailboxes : id \in filter[mb]

==============================================================================
