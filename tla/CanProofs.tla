------------------------------ MODULE CanProofs ------------------------------
(***************************************************************************)
(* Proofs about Can, for every size of the two rings, every set of ids and *)
(* payloads and every interleaving of the interrupt: both rings are bounded *)
(* queues.  The unprocessed slots of a ring are consecutive from its head; *)
(* everything else follows from how many there are.                        *)
(***************************************************************************)
EXTENDS Can, Integers, SequenceTheorems, TLAPS

(*--------------------------- arithmetic of a ring -------------------------*)

(* The k-th slot from "from" on, k from 1 to BufferSize + 1.               *)
At(from, k) == IF from + k <= BufferSize THEN from + k - 1 ELSE from + k - 1 - BufferSize

(* n slots are unprocessed: the first n from the read end, up to the write  *)
(* end, where the next message goes.                                       *)
Ring(processed, from, wr, n) ==
  /\ processed \in [Slots -> BOOLEAN]
  /\ from \in Slots
  /\ n \in 0 .. BufferSize
  /\ wr = At(from, n + 1)
  /\ \A k \in 1 .. BufferSize : processed[At(from, k)] <=> k > n

(* Division with remainder, and the one quotient of a number below twice    *)
(* the divisor.                                                            *)
LEMMA DivMod ==
  ASSUME NEW a \in Nat, NEW b \in Nat \ {0}
  PROVE  a = b * (a \div b) + (a % b) /\ a \div b \in Int /\ a % b \in 0 .. b - 1
OBVIOUS

(* The quotient of a number between the divisor and twice the divisor.      *)
LEMMA QuotientIsOne ==
  ASSUME NEW b \in Nat \ {0}, NEW q \in Int, NEW r \in 0 .. b - 1,
         b <= b * q + r, b * q + r < 2 * b
  PROVE  q = 1
<1>1. q > 0
  <2> SUFFICES ASSUME q <= 0 PROVE FALSE
    OBVIOUS
  <2>1. b * q <= 0
    OBVIOUS
  <2> QED
    BY <2>1
<1>2. q < 2
  <2> SUFFICES ASSUME q >= 2 PROVE FALSE
    OBVIOUS
  <2>1. b * q >= b * 2
    OBVIOUS
  <2> QED
    BY <2>1
<1> QED
  BY <1>1, <1>2

(* What % is for an index that goes round at most once.                    *)
LEMMA Wraps ==
  ASSUME NEW a \in Nat, NEW b \in Nat \ {0}, a < 2 * b
  PROVE  a % b = IF a < b THEN a ELSE a - b
<1>1. CASE a < b
  BY <1>1
<1>2. CASE a >= b
  <2>1. a \div b = 1
    BY <1>2, DivMod, QuotientIsOne
  <2> QED
    BY <1>2, <2>1, DivMod
<1> QED
  BY <1>1, <1>2

(* The index that can.c computes with % is the slot that comes next.        *)
LEMMA SlotAt ==
  ASSUME NEW from \in Slots, NEW k \in 1 .. BufferSize
  PROVE  (from + k - 1) % BufferSize = At(from, k)
<1> DEFINE a == from + k - 1
<1>1. a \in Nat /\ BufferSize \in Nat \ {0} /\ a < 2 * BufferSize
  BY CanAssumption DEF Slots
<1>2. At(from, k) = IF a < BufferSize THEN a ELSE a - BufferSize
  BY CanAssumption DEF At, Slots
<1> HIDE DEF a
<1>3. a % BufferSize = IF a < BufferSize THEN a ELSE a - BufferSize
  BY <1>1, Wraps
<1> QED
  BY <1>2, <1>3 DEF a

(* Going on from a slot, and round the whole ring.                         *)
LEMMA AtFacts ==
  ASSUME NEW from \in Slots
  PROVE  /\ At(from, 1) = from /\ At(from, BufferSize + 1) = from
         /\ NextSlot(from) \in Slots
         /\ \A k \in 1 .. BufferSize :
              /\ At(from, k) \in Slots
              /\ NextSlot(At(from, k)) = At(from, k + 1)
              /\ At(NextSlot(from), k) = At(from, k + 1)
         /\ \A k, j \in 1 .. BufferSize : At(from, k) = At(from, j) => k = j
         /\ \A i \in Slots : \E k \in 1 .. BufferSize : i = At(from, k)
<1> USE CanAssumption DEF At, Slots, NextSlot
<1>1. ASSUME NEW i \in Slots PROVE \E k \in 1 .. BufferSize : i = At(from, k)
  <2>1. CASE i >= from
    <3>1. i - from + 1 \in 1 .. BufferSize /\ i = At(from, i - from + 1)
      BY <2>1
    <3> QED
      BY <3>1
  <2>2. CASE i < from
    <3>1. i - from + 1 + BufferSize \in 1 .. BufferSize
      BY <2>2
    <3>2. i = At(from, i - from + 1 + BufferSize)
      BY <2>2
    <3> QED
      BY <3>1, <3>2
  <2> QED
    BY <2>1, <2>2
<1> QED
  BY <1>1

(*------------------------------ a ring's steps ----------------------------*)

(* The messages that a ring holds are those of its n unprocessed slots.    *)
LEMMA PendingIs ==
  ASSUME NEW buf, NEW processed, NEW from, NEW wr, NEW n,
         Ring(processed, from, wr, n)
  PROVE  Pending(buf, processed, from) = [k \in 1 .. n |-> buf[At(from, k)]]
<1> DEFINE slot(k) == (from + k - 1) % BufferSize
           count == IF \A i \in Slots : ~processed[i] THEN BufferSize
                    ELSE CHOOSE k \in Slots :
                           /\ processed[slot(k + 1)]
                           /\ \A j \in 1 .. k : ~processed[slot(j)]
<1> USE CanAssumption
<1>1. from \in Slots /\ n \in 0 .. BufferSize
  BY DEF Ring
<1>2. \A k \in 1 .. BufferSize : slot(k) = At(from, k) /\ (processed[slot(k)] <=> k > n)
  BY <1>1, SlotAt DEF Ring
<1>3. Pending(buf, processed, from) = [k \in 1 .. count |-> buf[slot(k)]]
  BY DEF Pending
<1> HIDE DEF slot
<1>4. count = n
  <2>1. CASE n = BufferSize
    <3>1. \A i \in Slots : ~processed[i]
      BY <1>1, <1>2, <2>1, AtFacts
    <3> QED
      BY <2>1, <3>1
  <2>2. CASE n < BufferSize
    <3>1. n \in Slots /\ processed[slot(n + 1)] /\ \A j \in 1 .. n : ~processed[slot(j)]
      BY <1>1, <1>2, <2>2 DEF Slots
    <3>2. slot(n + 1) \in Slots
      BY <1>1, <1>2, <2>2, AtFacts
    <3>3. ASSUME NEW k \in Slots, processed[slot(k + 1)], \A j \in 1 .. k : ~processed[slot(j)]
          PROVE  k = n
      <4>1. k + 1 \in 1 .. BufferSize /\ n + 1 \in 1 .. BufferSize
        BY <1>1, <2>2 DEF Slots
      <4>5. processed[slot(k + 1)] <=> k + 1 > n
        BY <1>2, <4>1
      <4>2. k + 1 > n
        BY <3>3, <4>5
      <4>3. ~(n + 1 \in 1 .. k)
        BY <3>1, <3>3
      <4> QED
        BY <1>1, <4>1, <4>2, <4>3 DEF Slots
    <3> QED
      BY <3>1, <3>2, <3>3
  <2> QED
    BY <1>1, <2>1, <2>2
<1>5. \A k \in 1 .. n : slot(k) = At(from, k)
  BY <1>1, <1>2
<1> HIDE DEF count
<1> QED
  BY <1>3, <1>4, <1>5

(* A ring that is free at its write end takes a message there; one that is *)
(* not is full.                                                            *)
LEMMA RingAccepts ==
  ASSUME NEW processed, NEW from, NEW wr, NEW n,
         Ring(processed, from, wr, n)
  PROVE  /\ wr \in Slots
         /\ processed[wr] <=> n < BufferSize
         /\ processed[wr] => Ring([processed EXCEPT ![wr] = FALSE], from, NextSlot(wr), n + 1)
<1> USE CanAssumption
<1>1. from \in Slots /\ n \in 0 .. BufferSize /\ wr = At(from, n + 1)
  BY DEF Ring
<1>2. wr \in Slots
  BY <1>1, AtFacts
<1>3. CASE n = BufferSize
  <2>1. wr = At(from, 1)
    BY <1>1, <1>3, AtFacts
  <2>2. ~processed[wr]
    BY <1>3, <2>1 DEF Ring
  <2> QED
    BY <1>2, <1>3, <2>2
<1>4. CASE n < BufferSize
  <2>1. n + 1 \in 1 .. BufferSize
    BY <1>1, <1>4
  <2>2. processed[wr]
    BY <1>1, <2>1 DEF Ring
  <2>3. NextSlot(wr) = At(from, (n + 1) + 1)
    BY <1>1, <2>1, AtFacts
  <2>4. \A k \in 1 .. BufferSize : At(from, k) \in Slots /\ (At(from, k) = wr <=> k = n + 1)
    BY <1>1, <2>1, AtFacts
  <2>5. \A k \in 1 .. BufferSize : [processed EXCEPT ![wr] = FALSE][At(from, k)] <=> k > n + 1
    BY <1>1, <2>4 DEF Ring
  <2>6. Ring([processed EXCEPT ![wr] = FALSE], from, NextSlot(wr), n + 1)
    BY <1>1, <2>1, <2>3, <2>5 DEF Ring
  <2> QED
    BY <1>2, <1>4, <2>2, <2>6
<1> QED
  BY <1>1, <1>3, <1>4

(* A ring whose head is unprocessed gives it away and moves on.            *)
LEMMA RingHandsOut ==
  ASSUME NEW processed, NEW from, NEW wr, NEW n,
         Ring(processed, from, wr, n), ~processed[from]
  PROVE  /\ n \in 1 .. BufferSize
         /\ Ring([processed EXCEPT ![from] = TRUE], NextSlot(from), wr, n - 1)
<1> USE CanAssumption
<1>1. from \in Slots /\ n \in 0 .. BufferSize /\ wr = At(from, n + 1)
  BY DEF Ring
<1>2. n \in 1 .. BufferSize
  <2>1. 1 \in 1 .. BufferSize /\ At(from, 1) = from
    BY <1>1, AtFacts
  <2> QED
    BY <1>1, <2>1 DEF Ring
<1>3. NextSlot(from) \in Slots /\ At(NextSlot(from), n) = wr
  BY <1>1, <1>2, AtFacts
<1>4. ASSUME NEW k \in 1 .. BufferSize
      PROVE  [processed EXCEPT ![from] = TRUE][At(NextSlot(from), k)] <=> k > n - 1
  <2>1. At(NextSlot(from), k) = At(from, k + 1) /\ At(from, 1) = from
    BY <1>1, AtFacts
  <2>2. CASE k = BufferSize
    <3>1. At(from, k + 1) = from
      BY <1>1, <2>2, AtFacts
    <3> QED
      BY <1>1, <1>2, <2>1, <2>2, <3>1 DEF Ring
  <2>3. CASE k < BufferSize
    <3>1. k + 1 \in 1 .. BufferSize /\ 1 \in 1 .. BufferSize
      BY <2>3
    <3>2. At(from, k + 1) \in Slots /\ At(from, k + 1) # from
      BY <1>1, <2>1, <3>1, AtFacts
    <3>3. processed[At(from, k + 1)] <=> k + 1 > n
      BY <3>1 DEF Ring
    <3> QED
      BY <1>1, <1>2, <2>1, <3>2, <3>3 DEF Ring
  <2> QED
    BY <2>2, <2>3
<1>5. [processed EXCEPT ![from] = TRUE] \in [Slots -> BOOLEAN]
  BY DEF Ring
<1> QED
  BY <1>1, <1>2, <1>3, <1>4, <1>5 DEF Ring

(* A ring whose two indices differ has a message at its head.              *)
LEMMA RingNotEmpty ==
  ASSUME NEW processed, NEW from, NEW wr, NEW n,
         Ring(processed, from, wr, n), from # wr
  PROVE  ~processed[from]
<1>1. from \in Slots /\ n \in 0 .. BufferSize /\ wr = At(from, n + 1) /\ At(from, 1) = from
  BY AtFacts DEF Ring
<1>2. n >= 1 /\ 1 \in 1 .. BufferSize
  BY <1>1, CanAssumption
<1> QED
  BY <1>1, <1>2 DEF Ring

(*------------------------- the queue that a ring holds --------------------*)

(* A function over 1 .. n is a sequence of length n; how to recognise the   *)
(* one with a message more at its end, and the one without its first.      *)
LEMMA FunctionIsSeq ==
  ASSUME NEW S, NEW n \in Nat, NEW q \in [1 .. n -> S]
  PROVE  q \in Seq(S) /\ Len(q) = n /\ (q = <<>> <=> n = 0)
<1>1. q \in Seq(S)
  OBVIOUS
<1>2. Len(q) = n
  BY <1>1, LenProperties
<1> QED
  BY <1>1, <1>2, EmptySeq

(* A sequence with one more element at its end.                             *)
LEMMA IsAppend ==
  ASSUME NEW S, NEW n \in Nat, NEW q \in [1 .. n -> S], NEW r \in [1 .. n + 1 -> S],
         \A k \in 1 .. n : r[k] = q[k]
  PROVE  r = Append(q, r[n + 1])
<1>1. /\ Append(q, r[n + 1]) \in Seq(S) /\ Len(Append(q, r[n + 1])) = n + 1
      /\ \A k \in 1 .. n : Append(q, r[n + 1])[k] = q[k]
      /\ Append(q, r[n + 1])[n + 1] = r[n + 1]
  BY FunctionIsSeq, AppendProperties
<1>2. r \in Seq(S) /\ Len(r) = n + 1
  BY FunctionIsSeq
<1>3. \A i \in 1 .. Len(r) : r[i] = Append(q, r[n + 1])[i]
  BY <1>1, <1>2
<1> QED
  BY <1>1, <1>2, <1>3, SeqEqual

(* A sequence with one element less at its front.                           *)
LEMMA IsTail ==
  ASSUME NEW S, NEW n \in Nat \ {0}, NEW q \in [1 .. n -> S], NEW r \in [1 .. n - 1 -> S],
         \A k \in 1 .. n - 1 : r[k] = q[k + 1]
  PROVE  q # <<>> /\ Head(q) = q[1] /\ r = Tail(q)
<1>1. q \in Seq(S) /\ q # <<>> /\ Len(q) = n
  BY FunctionIsSeq
<1>2. /\ Tail(q) \in Seq(S) /\ Len(Tail(q)) = n - 1
      /\ \A k \in 1 .. n - 1 : Tail(q)[k] = q[k + 1]
  BY <1>1, HeadTailProperties
<1>3. r \in Seq(S) /\ Len(r) = n - 1
  BY FunctionIsSeq
<1>4. Head(q) = q[1]
  BY <1>1
<1> QED
  BY <1>1, <1>2, <1>3, <1>4, SeqEqual

(* The queue that a ring stands for: its unprocessed slots in order.        *)
LEMMA PendingIsSeq ==
  ASSUME NEW buf \in [Slots -> Message], NEW processed, NEW from, NEW wr, NEW n,
         Ring(processed, from, wr, n)
  PROVE  /\ n \in Nat
         /\ Pending(buf, processed, from) \in [1 .. n -> Message]
         /\ Len(Pending(buf, processed, from)) = n
         /\ \A k \in 1 .. n : Pending(buf, processed, from)[k] = buf[At(from, k)]
<1>1. from \in Slots /\ n \in Nat /\ n <= BufferSize
  BY CanAssumption DEF Ring
<1>2. \A k \in 1 .. n : At(from, k) \in Slots
  BY <1>1, CanAssumption, AtFacts
<1>3. Pending(buf, processed, from) = [k \in 1 .. n |-> buf[At(from, k)]]
  BY PendingIs
<1>4. Pending(buf, processed, from) \in [1 .. n -> Message]
  BY <1>2, <1>3
<1> QED
  BY <1>1, <1>3, <1>4, FunctionIsSeq

(* Storing a message in the free slot at the write end appends it to the    *)
(* queue; a write end that is not free means a full queue.                 *)
Stored(buf, processed, wr, msg, buf2, processed2) ==
  /\ processed[wr]
  /\ msg \in Message
  /\ buf2 = [buf EXCEPT ![wr] = msg]
  /\ processed2 = [processed EXCEPT ![wr] = FALSE]

(* What is stored at the write index comes last in the queue.               *)
LEMMA StoreAppends ==
  ASSUME NEW buf \in [Slots -> Message], NEW processed, NEW from, NEW wr, NEW n,
         NEW msg, NEW buf2, NEW processed2,
         Ring(processed, from, wr, n),
         Stored(buf, processed, wr, msg, buf2, processed2)
  PROVE  /\ Len(Pending(buf, processed, from)) < BufferSize
         /\ Pending(buf2, processed2, from) = Append(Pending(buf, processed, from), msg)
<1> DEFINE q == Pending(buf, processed, from)
           r == Pending(buf2, processed2, from)
<1> HIDE DEF q, r
<1>1. n \in 0 .. BufferSize /\ from \in Slots
  BY DEF Ring
<1>2. /\ n \in Nat /\ q \in [1 .. n -> Message] /\ Len(q) = n
      /\ \A k \in 1 .. n : q[k] = buf[At(from, k)]
  BY PendingIsSeq DEF q
<1>3. /\ Ring(processed2, from, NextSlot(wr), n + 1)
      /\ wr \in Slots /\ wr = At(from, n + 1) /\ n < BufferSize
      /\ \A k \in 1 .. n : At(from, k) # wr
  <2>1. processed[wr]
    BY DEF Stored
  <2>2. Ring([processed EXCEPT ![wr] = FALSE], from, NextSlot(wr), n + 1)
    BY <2>1, RingAccepts
  <2>3. wr \in Slots /\ n < BufferSize
    BY <2>1, RingAccepts
  <2>4. ASSUME NEW k \in 1 .. n PROVE At(from, k) # wr
    <3>1. /\ k \in 1 .. BufferSize /\ n + 1 \in 1 .. BufferSize /\ k # n + 1
          /\ wr = At(from, n + 1)
      BY <1>1, <2>3, CanAssumption DEF Ring
    <3> QED
      BY <1>1, <3>1, AtFacts
  <2> QED
    BY <2>2, <2>3, <2>4 DEF Stored, Ring
<1>4. /\ buf2 \in [Slots -> Message] /\ buf2[wr] = msg
      /\ \A i \in Slots : i # wr => buf2[i] = buf[i]
  BY <1>3 DEF Stored
<1>5. /\ r \in [1 .. n + 1 -> Message]
      /\ \A k \in 1 .. n + 1 : r[k] = buf2[At(from, k)]
  BY <1>3, <1>4, PendingIsSeq DEF r
<1>6. r[n + 1] = msg
  BY <1>2, <1>3, <1>4, <1>5
<1>7. \A k \in 1 .. n : r[k] = q[k]
  <2>1. \A k \in 1 .. n : At(from, k) \in Slots
    BY <1>1, CanAssumption, AtFacts
  <2> QED
    BY <1>2, <1>3, <1>4, <1>5, <2>1
<1> QED
  BY <1>2, <1>3, <1>5, <1>6, <1>7, IsAppend DEF q, r

(* The slot at the write index is unprocessed only if all of them are.      *)
LEMMA RefusesWhenFull ==
  ASSUME NEW buf \in [Slots -> Message], NEW processed, NEW from, NEW wr, NEW n,
         Ring(processed, from, wr, n), ~processed[wr]
  PROVE  Len(Pending(buf, processed, from)) = BufferSize
<1>1. n \in 0 .. BufferSize
  BY DEF Ring
<1>2. ~(n < BufferSize)
  BY RingAccepts
<1>3. Len(Pending(buf, processed, from)) = n
  BY PendingIsSeq
<1> QED
  BY <1>1, <1>2, <1>3, CanAssumption

(* Marking the head of the ring processed takes the first message out of    *)
(* the queue.                                                              *)
LEMMA TakeOut ==
  ASSUME NEW buf \in [Slots -> Message], NEW processed, NEW from, NEW wr, NEW n,
         Ring(processed, from, wr, n), ~processed[from]
  PROVE  LET q == Pending(buf, processed, from)
         IN  /\ q # <<>> /\ Head(q) = buf[from]
             /\ Pending(buf, [processed EXCEPT ![from] = TRUE], NextSlot(from)) = Tail(q)
<1> DEFINE processed2 == [processed EXCEPT ![from] = TRUE]
           q == Pending(buf, processed, from)
           r == Pending(buf, processed2, NextSlot(from))
<1> HIDE DEF processed2, q, r
<1>1. n \in 1 .. BufferSize /\ Ring(processed2, NextSlot(from), wr, n - 1)
  BY RingHandsOut DEF processed2
<1>2. from \in Slots
  BY DEF Ring
<1>3. /\ q \in [1 .. n -> Message]
      /\ \A k \in 1 .. n : q[k] = buf[At(from, k)]
  BY PendingIsSeq DEF q
<1>4. /\ r \in [1 .. n - 1 -> Message]
      /\ \A k \in 1 .. n - 1 : r[k] = buf[At(NextSlot(from), k)]
  BY <1>1, PendingIsSeq DEF r
<1>5. q[1] = buf[from] /\ \A k \in 1 .. n - 1 : r[k] = q[k + 1]
  <2>1. At(from, 1) = from /\ \A k \in 1 .. BufferSize : At(NextSlot(from), k) = At(from, k + 1)
    BY <1>2, AtFacts
  <2> QED
    BY <1>1, <1>3, <1>4, <2>1, CanAssumption
<1>6. q # <<>> /\ Head(q) = q[1] /\ r = Tail(q)
  <2>1. n \in Nat \ {0}
    BY <1>1, CanAssumption
  <2> QED
    BY <1>3, <1>4, <1>5, <2>1, IsTail
<1> QED
  BY <1>5, <1>6 DEF processed2, q, r

(*-------------------------------- invariant -------------------------------*)

(* What the superloop knows at the places where the interrupt may run.      *)
Rings ==
  /\ \E n \in Nat : Ring(rxProcessed, RxHead, rxWr, n)
  /\ \E n \in Nat : Ring(txProcessed, txRd, txWr, n)
  /\ pc \in {"take", "mark"} => ~rxProcessed[rxRd]
  /\ pc = "mark" => current = rxMsg[rxRd]
  /\ pc = "send" => ~txProcessed[txRd] /\ mailbox[0] = "idle"

(* Whatever goes into a ring is a message.                                  *)
LEMMA TheMessages ==
  /\ NoMessage \in Message
  /\ \A msg \in RxFrames : msg \in Message
  /\ \A msg \in TxRequests : msg.id <= CAN_MAX_ID => msg \in TxRequests \cap Message
<1> USE CanAssumption DEF Message, CAN_MAX_ID
<1>1. NoMessage \in Message
  BY DEF NoMessage
<1>2. ASSUME NEW msg \in RxFrames PROVE msg \in Message
  <2>1. msg = [id |-> msg.id, data |-> msg.data] /\ msg.id \in RxIds /\ msg.data \in Payloads
    BY DEF RxFrames
  <2>2. msg.id \in 0 .. CAN_MAX_ID
    BY <2>1
  <2> QED
    BY <2>1, <2>2
<1>3. ASSUME NEW msg \in TxRequests, msg.id <= CAN_MAX_ID PROVE msg \in Message
  <2>1. msg = [id |-> msg.id, data |-> msg.data] /\ msg.id \in TxIds /\ msg.data \in Payloads
    BY DEF TxRequests
  <2>2. msg.id \in 0 .. CAN_MAX_ID
    BY <1>3, <2>1
  <2> QED
    BY <2>1, <2>2
<1> QED
  BY <1>1, <1>2, <1>3

(* The state variables of Can always have the types that TypeOK gives them. *)
THEOREM Typing == Spec => []TypeOK
<1> USE CanAssumption
<1>1. Init => TypeOK
  <2> SUFFICES ASSUME Init PROVE TypeOK
    OBVIOUS
  <2>1. 0 \in Slots
    BY DEF Slots
  <2>2. filter \in [Mailboxes -> SUBSET (RxIds \cup {MSG_111, MSG_222})]
    BY DEF Init, can_init, FlexCAN_Ip_ConfigRxMb, Mailboxes
  <2>3. mailbox \in [Mailboxes -> {"idle", "rx", "tx"}]
    BY DEF Init, can_init, FlexCAN_Ip_Receive, Mailboxes
  <2> QED
    BY <2>1, <2>2, <2>3, TheMessages DEF Init, can_init, TypeOK
<1>2. TypeOK /\ [Next]_vars => TypeOK'
  <2> SUFFICES ASSUME TypeOK, [Next]_vars PROVE TypeOK'
    OBVIOUS
  <2> USE DEF TypeOK
  <2>1. \A i \in Slots : NextSlot(i) \in Slots
    BY DEF NextSlot, Slots
  <2>2. CASE UNCHANGED vars
    BY <2>2 DEF vars
  <2>3. CASE process_tx_buffer
    BY <2>3 DEF process_tx_buffer, rxVars, txVars
  <2>4. CASE process_tx_msg
    <3>1. UNCHANGED <<mailbox, wire, txProcessed>> \/ FlexCAN_Ip_Send(0, txMsg[txRd])
      BY <2>4 DEF process_tx_msg
    <3>2. mailbox' \in [Mailboxes -> {"idle", "rx", "tx"}] /\ wire' \in Message
      BY <3>1 DEF FlexCAN_Ip_Send
    <3>3. txProcessed' = txProcessed \/ txProcessed' = [txProcessed EXCEPT ![txRd] = TRUE]
      BY <2>4 DEF process_tx_msg
    <3>4. txProcessed' \in [Slots -> BOOLEAN] /\ txRd' \in Slots
      BY <2>1, <2>4, <3>3 DEF process_tx_msg
    <3> QED
      BY <2>4, <3>2, <3>4 DEF process_tx_msg, rxVars
  <2>5. CASE process_rx_buffer
    BY <2>5 DEF process_rx_buffer, rxVars, txVars
  <2>6. CASE RxTake
    BY <2>6 DEF RxTake, txVars
  <2>7. CASE process_rx_msg
    BY <2>7, TheMessages DEF process_rx_msg, txVars
  <2>8. CASE RxAdvance
    BY <2>1, <2>8 DEF RxAdvance, txVars
  <2>9. CASE TxComplete
    BY <2>9 DEF TxComplete, rxVars, txVars, Mailboxes
  <2>10. ASSUME NEW msg \in TxRequests, can_send_msg(msg) PROVE TypeOK'
    <3>1. msg \in Message
      BY <2>10, TheMessages DEF can_send_msg
    <3>2. CASE txProcessed[txWr]
      <4>1. /\ txMsg' \in [Slots -> Message] /\ txProcessed' \in [Slots -> BOOLEAN]
            /\ txWr' \in Slots
        BY <2>1, <2>10, <3>1, <3>2 DEF can_send_msg
      <4> QED
        BY <2>10, <4>1 DEF can_send_msg, rxVars
    <3>3. CASE ~txProcessed[txWr]
      BY <2>10, <3>3 DEF can_send_msg, rxVars
    <3> QED
      BY <3>2, <3>3
  <2>11. ASSUME NEW mb \in Mailboxes, NEW msg \in RxFrames, Can0_Rx_Callback(mb, msg)
         PROVE  TypeOK'
    <3>1. msg \in Message
      BY TheMessages
    <3>2. mailbox' \in [Mailboxes -> {"idle", "rx", "tx"}]
      BY <2>11 DEF Can0_Rx_Callback, FlexCAN_Ip_Receive, Mailboxes
    <3>3. CASE rxProcessed[rxWr]
      <4>1. /\ rxMsg' \in [Slots -> Message] /\ rxProcessed' \in [Slots -> BOOLEAN]
            /\ rxWr' \in Slots
        BY <2>1, <2>11, <3>1, <3>3 DEF Can0_Rx_Callback, insert_into_rx_buf
      <4> QED
        BY <2>11, <3>2, <4>1 DEF Can0_Rx_Callback, txVars
    <3>4. CASE ~rxProcessed[rxWr]
      BY <2>11, <3>2, <3>4 DEF Can0_Rx_Callback, insert_into_rx_buf, txVars
    <3> QED
      BY <3>3, <3>4
  <2> QED
    BY <2>2, <2>3, <2>4, <2>5, <2>6, <2>7, <2>8, <2>9, <2>10, <2>11 DEF Next, can_main
<1> QED
  BY <1>1, <1>2, PTL DEF Spec

(* An empty ring, as can_init leaves it.                                    *)
LEMMA EmptyRing ==
  /\ Ring([i \in Slots |-> TRUE], 0, 0, 0)
  /\ \A buf \in [Slots -> Message] : Pending(buf, [i \in Slots |-> TRUE], 0) = <<>>
<1>1. 0 \in Slots /\ BufferSize \in Nat
  BY CanAssumption DEF Slots
<1>2. 0 = At(0, 0 + 1) /\ \A k \in 1 .. BufferSize : At(0, k) \in Slots
  BY <1>1, AtFacts
<1>3. Ring([i \in Slots |-> TRUE], 0, 0, 0)
  BY <1>1, <1>2 DEF Ring
<1>4. ASSUME NEW buf \in [Slots -> Message]
      PROVE  Pending(buf, [i \in Slots |-> TRUE], 0) = <<>>
  <2> DEFINE q == Pending(buf, [i \in Slots |-> TRUE], 0)
  <2>1. q \in [1 .. 0 -> Message]
    BY <1>3, PendingIsSeq
  <2> HIDE DEF q
  <2>2. q = <<>>
    BY <2>1, FunctionIsSeq
  <2> QED
    BY <2>2 DEF q
<1> QED
  BY <1>3, <1>4

(* The rings stay rings, whatever the interrupt does between the accesses   *)
(* of can_main: it changes neither the slot that process_rx_msg looks at    *)
(* nor the state of mailbox 0 that process_tx_buffer found idle.            *)
THEOREM RingsHold == Spec => []Rings
<1> USE CanAssumption
<1>1. Init => Rings
  <2> SUFFICES ASSUME Init PROVE Rings
    OBVIOUS
  <2>1. 0 \in Nat /\ Ring(rxProcessed, RxHead, rxWr, 0) /\ Ring(txProcessed, txRd, txWr, 0)
    BY EmptyRing DEF Init, can_init, RxHead
  <2> QED
    BY <2>1 DEF Rings, Init, can_init
<1>2. TypeOK /\ Rings /\ [Next]_vars => Rings'
  <2> SUFFICES ASSUME TypeOK, Rings, [Next]_vars PROVE Rings'
    OBVIOUS
  <2>1. PICK n \in Nat : Ring(rxProcessed, RxHead, rxWr, n)
    BY DEF Rings
  <2>2. PICK m \in Nat : Ring(txProcessed, txRd, txWr, m)
    BY DEF Rings
  <2>3. /\ pc \in {"take", "mark"} => ~rxProcessed[rxRd]
        /\ pc = "mark" => current = rxMsg[rxRd]
        /\ pc = "send" => ~txProcessed[txRd] /\ mailbox[0] = "idle"
    BY DEF Rings
  <2>4. CASE UNCHANGED vars
    BY <2>4 DEF vars, Rings, RxHead
  <2>5. CASE process_tx_buffer
    <3>1. txRd # txWr => ~txProcessed[txRd]
      BY <2>2, RingNotEmpty
    <3>2. RxHead' = RxHead
      BY <2>5 DEF process_tx_buffer, rxVars, RxHead
    <3> QED
      BY <2>1, <2>2, <2>5, <3>1, <3>2 DEF process_tx_buffer, tx_done, rxVars, txVars, Rings
  <2>6. CASE process_tx_msg
    <3>1. txProcessed' = [txProcessed EXCEPT ![txRd] = TRUE] /\ txRd' = NextSlot(txRd)
      BY <2>3, <2>6 DEF process_tx_msg
    <3>2. m - 1 \in Nat /\ Ring(txProcessed', txRd', txWr, m - 1)
      <4>1. ~txProcessed[txRd]
        BY <2>3, <2>6 DEF process_tx_msg
      <4>2. m \in 1 .. BufferSize /\ Ring(txProcessed', txRd', txWr, m - 1)
        BY <2>2, <3>1, <4>1, RingHandsOut
      <4> QED
        BY <4>2
    <3>3. RxHead' = RxHead
      BY <2>6 DEF process_tx_msg, rxVars, RxHead
    <3> QED
      BY <2>1, <2>6, <3>2, <3>3 DEF process_tx_msg, rxVars, Rings
  <2>7. CASE process_rx_buffer
    <3>1. RxHead = rxRd /\ RxHead' = rxRd
      BY <2>7 DEF process_rx_buffer, rxVars, RxHead
    <3>2. rxRd # rxWr => ~rxProcessed[rxRd]
      BY <2>1, <3>1, RingNotEmpty
    <3> QED
      BY <2>1, <2>2, <2>7, <3>1, <3>2 DEF process_rx_buffer, rxVars, txVars, Rings
  <2>8. CASE RxTake
    <3>1. pc' = "mark" /\ current' = rxMsg[rxRd]
      BY <2>3, <2>8 DEF RxTake
    <3>2. RxHead' = RxHead
      BY <2>8, <3>1 DEF RxTake, RxHead
    <3> QED
      BY <2>1, <2>2, <2>3, <2>8, <3>1, <3>2 DEF RxTake, txVars, Rings
  <2>9. CASE process_rx_msg
    <3>1. RxHead = rxRd /\ RxHead' = NextSlot(rxRd)
      BY <2>9 DEF process_rx_msg, RxHead
    <3>2. rxProcessed' = [rxProcessed EXCEPT ![rxRd] = TRUE]
      BY <2>9 DEF process_rx_msg
    <3>3. n - 1 \in Nat /\ Ring(rxProcessed', RxHead', rxWr, n - 1)
      <4>1. ~rxProcessed[rxRd]
        BY <2>3, <2>9 DEF process_rx_msg
      <4>2. n \in 1 .. BufferSize /\ Ring(rxProcessed', RxHead', rxWr, n - 1)
        BY <2>1, <3>1, <3>2, <4>1, RingHandsOut
      <4> QED
        BY <4>2
    <3> QED
      BY <2>2, <2>9, <3>3 DEF process_rx_msg, txVars, Rings
  <2>10. CASE RxAdvance
    <3>1. RxHead' = RxHead
      BY <2>10 DEF RxAdvance, RxHead
    <3> QED
      BY <2>1, <2>2, <2>10, <3>1 DEF RxAdvance, txVars, Rings
  <2>11. CASE TxComplete
    <3>1. RxHead' = RxHead /\ (mailbox[0] = "idle" => mailbox'[0] = "idle")
      BY <2>11 DEF TxComplete, rxVars, RxHead
    <3> QED
      BY <2>1, <2>2, <2>3, <2>11, <3>1 DEF TxComplete, rxVars, txVars, Rings
  <2>12. ASSUME NEW msg \in TxRequests, can_send_msg(msg) PROVE Rings'
    <3>1. RxHead' = RxHead
      BY <2>12 DEF can_send_msg, rxVars, RxHead
    <3>2. \E k \in Nat : Ring(txProcessed', txRd, txWr', k)
      <4>1. CASE txProcessed[txWr]
        <5>1. Ring(txProcessed', txRd, txWr', m + 1)
          BY <2>2, <2>12, <4>1, RingAccepts DEF can_send_msg
        <5> QED
          BY <5>1
      <4>2. CASE ~txProcessed[txWr]
        BY <2>2, <2>12, <4>2 DEF can_send_msg
      <4> QED
        BY <4>1, <4>2
    <3> QED
      BY <2>1, <2>12, <3>1, <3>2 DEF can_send_msg, rxVars, Rings
  <2>13. ASSUME NEW mb \in Mailboxes, NEW msg \in RxFrames, Can0_Rx_Callback(mb, msg)
         PROVE  Rings'
    <3>1. RxHead' = RxHead
      BY <2>13 DEF Can0_Rx_Callback, RxHead
    <3>2. \E k \in Nat : Ring(rxProcessed', RxHead, rxWr', k)
      <4>1. CASE rxProcessed[rxWr]
        <5>1. Ring(rxProcessed', RxHead, rxWr', n + 1)
          BY <2>1, <2>13, <4>1, RingAccepts DEF Can0_Rx_Callback, insert_into_rx_buf
        <5> QED
          BY <5>1
      <4>2. CASE ~rxProcessed[rxWr]
        BY <2>1, <2>13, <4>2 DEF Can0_Rx_Callback, insert_into_rx_buf
      <4> QED
        BY <4>1, <4>2
    <3>3. ~rxProcessed[rxRd] => ~rxProcessed'[rxRd] /\ rxMsg'[rxRd] = rxMsg[rxRd]
      BY <2>13 DEF Can0_Rx_Callback, insert_into_rx_buf, TypeOK
    <3>4. mailbox[0] = "idle" => mailbox'[0] = "idle"
      BY <2>13 DEF Can0_Rx_Callback, FlexCAN_Ip_Receive, Mailboxes, TypeOK
    <3> QED
      BY <2>2, <2>3, <2>13, <3>1, <3>2, <3>3, <3>4 DEF Can0_Rx_Callback, txVars, Rings
  <2> QED
    BY <2>4, <2>5, <2>6, <2>7, <2>8, <2>9, <2>10, <2>11, <2>12, <2>13 DEF Next, can_main
<1> QED
  BY <1>1, <1>2, Typing, PTL DEF Spec

(*------------------------------- refinement -------------------------------*)

(* The receive ring implements a bounded queue (RxIsFifo): Can0_Rx_Callback *)
(* accepts a message or, when and only when the queue is full, refuses it;  *)
(* process_rx_msg hands the oldest one out; no other step is seen from      *)
(* outside.                                                                *)
THEOREM RxRefines == Spec => RxIsFifo
<1> DEFINE RQ == Pending(rxMsg, rxProcessed, RxHead)
<1>1. Init => RxQueue!Init
  <2> SUFFICES ASSUME Init PROVE RxQueue!Init
    OBVIOUS
  <2>1. /\ RxHead = 0 /\ got = NoMessage /\ rxProcessed = [i \in Slots |-> TRUE]
        /\ rxRefused = FALSE
    BY DEF Init, can_init, RxHead
  <2>2. rxMsg \in [Slots -> Message]
    BY TheMessages DEF Init, can_init
  <2>3. RQ = <<>>
    BY <2>1, <2>2, EmptyRing
  <2> QED
    BY <2>1, <2>3 DEF RxQueue!Init
<1>2. TypeOK /\ Rings /\ [Next]_vars => [RxQueue!Next]_(RxQueue!vars)
  <2> SUFFICES ASSUME TypeOK, Rings, [Next]_vars PROVE [RxQueue!Next]_(RxQueue!vars)
    OBVIOUS
  <2>1. PICK n \in Nat : Ring(rxProcessed, RxHead, rxWr, n)
    BY DEF Rings
  <2>2. RQ' = Pending(rxMsg', rxProcessed', RxHead')
    OBVIOUS
  <2>3. ASSUME UNCHANGED <<rxMsg, rxProcessed, RxHead, got, rxRefused>>
        PROVE  UNCHANGED RxQueue!vars
    BY <2>2, <2>3 DEF RxQueue!vars
  <2>4. CASE UNCHANGED vars
    BY <2>3, <2>4 DEF vars, RxHead
  <2>5. CASE process_tx_buffer
    BY <2>3, <2>5 DEF process_tx_buffer, rxVars, RxHead
  <2>6. CASE process_tx_msg
    BY <2>3, <2>6 DEF process_tx_msg, rxVars, RxHead
  <2>7. CASE process_rx_buffer
    BY <2>3, <2>7 DEF process_rx_buffer, rxVars, RxHead
  <2>8. CASE RxTake
    <3>1. pc' = "mark"
      BY <2>8 DEF RxTake, Rings
    <3> QED
      BY <2>3, <2>8, <3>1 DEF RxTake, RxHead
  <2>9. CASE process_rx_msg
    <3>1. RxHead = rxRd /\ RxHead' = NextSlot(rxRd) /\ ~rxProcessed[rxRd]
      BY <2>9 DEF process_rx_msg, RxHead, Rings
    <3>2. /\ rxProcessed' = [rxProcessed EXCEPT ![rxRd] = TRUE] /\ rxMsg' = rxMsg
          /\ got' = rxMsg[rxRd] /\ rxRefused' = FALSE
      BY <2>9 DEF process_rx_msg, Rings
    <3>3. RQ # <<>> /\ Head(RQ) = rxMsg[rxRd] /\ RQ' = Tail(RQ)
      BY <2>1, <2>2, <3>1, <3>2, TakeOut DEF TypeOK
    <3>4. RxQueue!HandOut
      BY <3>2, <3>3 DEF RxQueue!HandOut
    <3> QED
      BY <3>4 DEF RxQueue!Next
  <2>10. CASE RxAdvance
    BY <2>3, <2>10 DEF RxAdvance, RxHead
  <2>11. CASE TxComplete
    BY <2>3, <2>11 DEF TxComplete, rxVars, RxHead
  <2>12. ASSUME NEW msg \in TxRequests, can_send_msg(msg) PROVE UNCHANGED RxQueue!vars
    BY <2>3, <2>12 DEF can_send_msg, rxVars, RxHead
  <2>13. ASSUME NEW mb \in Mailboxes, NEW msg \in RxFrames, Can0_Rx_Callback(mb, msg)
         PROVE  RxQueue!Next
    <3>1. RxHead' = RxHead /\ got' = got
      BY <2>13 DEF Can0_Rx_Callback, RxHead
    <3>2. CASE rxProcessed[rxWr]
      <4>1. /\ rxMsg' = [rxMsg EXCEPT ![rxWr] = msg]
            /\ rxProcessed' = [rxProcessed EXCEPT ![rxWr] = FALSE]
        BY <2>13, <3>2 DEF Can0_Rx_Callback, insert_into_rx_buf
      <4>2. Len(RQ) < BufferSize /\ RQ' = Append(RQ, msg)
        <5>1. Stored(rxMsg, rxProcessed, rxWr, msg, rxMsg', rxProcessed')
          BY <3>2, <4>1, TheMessages DEF Stored
        <5> QED
          BY <2>1, <2>2, <3>1, <5>1, StoreAppends DEF TypeOK
      <4>3. rxRefused' = FALSE
        <5>1. rxWr \in Slots
          BY DEF TypeOK
        <5>2. ~rxProcessed'[rxWr]
          BY <4>1, <5>1 DEF TypeOK
        <5> QED
          BY <2>13, <3>2, <5>2 DEF Can0_Rx_Callback
      <4>4. RxQueue!Accept(msg)
        BY <3>1, <4>2, <4>3 DEF RxQueue!Accept
      <4> QED
        BY <4>4 DEF RxQueue!Next
    <3>3. CASE ~rxProcessed[rxWr]
      <4>1. UNCHANGED <<rxMsg, rxProcessed, RxHead, got>> /\ rxRefused' = TRUE
        BY <2>13, <3>1, <3>3 DEF Can0_Rx_Callback, insert_into_rx_buf
      <4>2. Len(RQ) = BufferSize
        BY <2>1, <3>3, RefusesWhenFull DEF TypeOK
      <4>3. RxQueue!Refuse
        BY <2>2, <4>1, <4>2 DEF RxQueue!Refuse
      <4> QED
        BY <4>3 DEF RxQueue!Next
    <3> QED
      BY <3>2, <3>3
  <2> QED
    BY <2>4, <2>5, <2>6, <2>7, <2>8, <2>9, <2>10, <2>11, <2>12, <2>13 DEF Next, can_main
<1> QED
  BY <1>1, <1>2, Typing, RingsHold, PTL DEF Spec, RxIsFifo, RxQueue!Spec

(* The transmit ring implements a bounded queue (TxIsFifo): can_send_msg    *)
(* accepts a message or, when and only when the queue is full, refuses it;  *)
(* process_tx_msg hands the oldest one to an idle mailbox.                  *)
THEOREM TxRefines == Spec => TxIsFifo
<1> DEFINE TQ == Pending(txMsg, txProcessed, txRd)
<1>1. Init => TxQueue!Init
  <2> SUFFICES ASSUME Init PROVE TxQueue!Init
    OBVIOUS
  <2>1. txMsg \in [Slots -> Message]
    BY TheMessages DEF Init, can_init
  <2>2. TQ = <<>>
    BY <2>1, EmptyRing DEF Init, can_init
  <2> QED
    BY <2>2 DEF TxQueue!Init, Init, can_init
<1>2. TypeOK /\ Rings /\ [Next]_vars => [TxQueue!Next]_(TxQueue!vars)
  <2> SUFFICES ASSUME TypeOK, Rings, [Next]_vars PROVE [TxQueue!Next]_(TxQueue!vars)
    OBVIOUS
  <2>1. PICK n \in Nat : Ring(txProcessed, txRd, txWr, n)
    BY DEF Rings
  <2>2. TQ' = Pending(txMsg', txProcessed', txRd')
    OBVIOUS
  <2>3. ASSUME UNCHANGED <<txMsg, txProcessed, txRd, wire, txRefused>>
        PROVE  UNCHANGED TxQueue!vars
    BY <2>2, <2>3 DEF TxQueue!vars
  <2>4. CASE UNCHANGED vars
    BY <2>3, <2>4 DEF vars
  <2>5. CASE process_tx_buffer
    BY <2>3, <2>5 DEF process_tx_buffer, txVars
  <2>6. CASE process_tx_msg
    <3>1. ~txProcessed[txRd] /\ mailbox[0] = "idle"
      BY <2>6 DEF process_tx_msg, Rings
    <3>2. /\ txProcessed' = [txProcessed EXCEPT ![txRd] = TRUE] /\ txRd' = NextSlot(txRd)
          /\ txMsg' = txMsg /\ wire' = txMsg[txRd] /\ txRefused' = FALSE
      BY <2>6, <3>1 DEF process_tx_msg, FlexCAN_Ip_Send
    <3>3. TQ # <<>> /\ Head(TQ) = txMsg[txRd] /\ TQ' = Tail(TQ)
      BY <2>1, <2>2, <3>1, <3>2, TakeOut DEF TypeOK
    <3>4. TxQueue!HandOut
      BY <3>2, <3>3 DEF TxQueue!HandOut
    <3> QED
      BY <3>4 DEF TxQueue!Next
  <2>7. CASE process_rx_buffer
    BY <2>3, <2>7 DEF process_rx_buffer, txVars
  <2>8. CASE RxTake
    BY <2>3, <2>8 DEF RxTake, txVars
  <2>9. CASE process_rx_msg
    BY <2>3, <2>9 DEF process_rx_msg, txVars
  <2>10. CASE RxAdvance
    BY <2>3, <2>10 DEF RxAdvance, txVars
  <2>11. CASE TxComplete
    BY <2>3, <2>11 DEF TxComplete, txVars
  <2>12. ASSUME NEW msg \in TxRequests, can_send_msg(msg) PROVE TxQueue!Next
    <3>1. txRd' = txRd /\ wire' = wire /\ msg \in TxRequests \cap Message
      BY <2>12, TheMessages DEF can_send_msg
    <3>2. CASE txProcessed[txWr]
      <4>1. /\ txMsg' = [txMsg EXCEPT ![txWr] = msg]
            /\ txProcessed' = [txProcessed EXCEPT ![txWr] = FALSE]
        BY <2>12, <3>2 DEF can_send_msg
      <4>2. Len(TQ) < BufferSize /\ TQ' = Append(TQ, msg)
        <5>1. Stored(txMsg, txProcessed, txWr, msg, txMsg', txProcessed')
          BY <3>2, <4>1, <3>1 DEF Stored
        <5> QED
          BY <2>1, <2>2, <3>1, <5>1, StoreAppends DEF TypeOK
      <4>3. txRefused' = FALSE
        <5>1. txWr \in Slots
          BY DEF TypeOK
        <5>2. ~txProcessed'[txWr]
          BY <4>1, <5>1 DEF TypeOK
        <5> QED
          BY <2>12, <3>2, <5>2 DEF can_send_msg
      <4>4. TxQueue!Accept(msg)
        BY <3>1, <4>2, <4>3 DEF TxQueue!Accept
      <4> QED
        BY <3>1, <4>4 DEF TxQueue!Next
    <3>3. CASE ~txProcessed[txWr]
      <4>1. UNCHANGED <<txMsg, txProcessed, txRd, wire>> /\ txRefused' = TRUE
        BY <2>12, <3>1, <3>3 DEF can_send_msg
      <4>2. Len(TQ) = BufferSize
        BY <2>1, <3>3, RefusesWhenFull DEF TypeOK
      <4>3. TxQueue!Refuse
        BY <2>2, <4>1, <4>2 DEF TxQueue!Refuse
      <4> QED
        BY <4>3 DEF TxQueue!Next
    <3> QED
      BY <3>2, <3>3
  <2>13. ASSUME NEW mb \in Mailboxes, NEW msg \in RxFrames, Can0_Rx_Callback(mb, msg)
         PROVE  UNCHANGED TxQueue!vars
    BY <2>3, <2>13 DEF Can0_Rx_Callback, txVars
  <2> QED
    BY <2>4, <2>5, <2>6, <2>7, <2>8, <2>9, <2>10, <2>11, <2>12, <2>13 DEF Next, can_main
<1> QED
  BY <1>1, <1>2, Typing, RingsHold, PTL DEF Spec, TxIsFifo, TxQueue!Spec

==============================================================================
