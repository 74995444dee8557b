-------------------------- MODULE TxAccelerometer --------------------------
(***************************************************************************)
(* tx_accelerometer of ap_connection.c with the ring of queue.c.  Every    *)
(* two seconds the board polls its raw socket once: a beacon renews the    *)
(* beacon timestamp, no beacon (EAGAIN) leaves the last one standing.      *)
(* Either way a reading is stored, the oldest one making room for it, and  *)
(* the whole queue is written out as text.                                 *)
(*                                                                         *)
(* A reading keeps the two fields the laptop aligns the boards by: the     *)
(* beacon timestamp and the local time.  The three axes of the             *)
(* accelerometer are data that nothing here depends on.                    *)
(***************************************************************************)
EXTENDS Integers, Sequences

CONSTANTS
  Capacity,      (* OUR_MAX_QUEUE_SIZE                                       *)
  Timestamps,    (* beacon timestamps; 0 is last_ts before the first beacon  *)
  Unset,         (* what a slot holds that was never written                 *)
  MaxClock       (* bound: readings taken                                    *)

ASSUME TxAccelerometerAssumption ==
  Capacity \in Nat \ {0} /\ 0 \in Timestamps /\ MaxClock \in Nat

VARIABLES
  pc,            (* where the program is                                     *)
  rfSock,        (* beaconRxSock: closed, open                               *)
  q,             (* the queue: front, back, size and arr                     *)
  lastTs,        (* last_ts                                                  *)
  clock,         (* the local clock: it has moved on at every reading        *)
  text           (* Tx_data: the readings q_to_string wrote                  *)

vars == <<pc, rfSock, q, lastTs, clock, text>>

Slots    == 0..(Capacity - 1)
Readings == [ts : Timestamps, clock : 1..MaxClock]
Reading  == [ts |-> lastTs, clock |-> clock']

-----------------------------------------------------------------------------
(* queue.c.  A call that fails leaves the queue as it is. *)

InitQueue == [front |-> 0, back |-> Capacity - 1, size |-> 0,
              arr |-> [i \in Slots |-> Unset]]

QFull(r)     == r.size = Capacity
QEmpty(r)    == r.size = 0
NextSlot(i)  == (i + 1) % Capacity
QIndex(r, i) == IF QEmpty(r) THEN -1 ELSE (r.front + i) % Capacity

\* Mutant: the value is stored where the last one is.
EnqueAtBack(r, v) ==
  IF QFull(r) THEN r
  ELSE [front |-> r.front, back |-> NextSlot(r.back), size |-> r.size + 1,
        arr |-> [r.arr EXCEPT ![r.back] = v]]

Enque(r, v) ==
  IF QFull(r) THEN r
  ELSE [front |-> r.front, back |-> NextSlot(r.back), size |-> r.size + 1,
        arr |-> [r.arr EXCEPT ![NextSlot(r.back)] = v]]

\* Mutant: the front is moved but the element is still counted.
DequeKeepsSize(r) ==
  IF QEmpty(r) THEN r
  ELSE [front |-> NextSlot(r.front), back |-> r.back, size |-> r.size, arr |-> r.arr]

Deque(r) ==
  IF QEmpty(r) THEN r
  ELSE [front |-> NextSlot(r.front), back |-> r.back, size |-> r.size - 1, arr |-> r.arr]

\* Mutant: the slots as they are stored.
QToStringFromZero(r) == [i \in 1..r.size |-> r.arr[i - 1]]

\* q_to_string
QToString(r) == [i \in 1..r.size |-> r.arr[QIndex(r, i - 1)]]

-----------------------------------------------------------------------------
(* The program. *)

Init ==
  /\ pc = "enter" /\ rfSock = "closed"
  /\ q = InitQueue
  /\ lastTs = 0 /\ clock = 0
  /\ text = <<>>

\* The filters, the connection policy and the raw socket; any call may fail.
\* Nothing is closed when the policy or the filters fail: nothing is open yet.
Enter ==
  /\ pc = "enter"
  /\ \/ pc' = "poll" /\ rfSock' = "open"
     \/ pc' = "returned" /\ UNCHANGED rfSock
  /\ UNCHANGED <<q, lastTs, clock, text>>

Hear(ts) == pc = "poll" /\ clock < MaxClock /\ pc' = "store" /\ lastTs' = ts

Beacon ==
  /\ \E ts \in Timestamps : Hear(ts)
  /\ UNCHANGED <<rfSock, q, clock, text>>

NoBeacon ==
  /\ Hear(lastTs)
  /\ UNCHANGED <<rfSock, q, clock, text>>

PollError ==
  /\ pc = "poll"
  /\ pc' = "close"
  /\ UNCHANGED <<rfSock, q, lastTs, clock, text>>

\* clock_gettime, the accelerometer, the queue and the text.
Store ==
  /\ pc = "store"
  /\ clock' = clock + 1
  /\ q' = Enque(IF QFull(q) THEN Deque(q) ELSE q, Reading)
  /\ text' = QToString(q')
  /\ pc' = "poll"
  /\ UNCHANGED <<rfSock, lastTs>>

CloseRf ==
  /\ pc = "close"
  /\ pc' = "returned"
  /\ rfSock' \in {"open", "closed"}
  /\ UNCHANGED <<q, lastTs, clock, text>>

Returned == pc = "returned" /\ UNCHANGED vars

Next == Enter \/ Beacon \/ NoBeacon \/ PollError \/ Store \/ CloseRf \/ Returned

Spec == Init /\ [][Next]_vars

-----------------------------------------------------------------------------
(* Properties *)

Points == {"enter", "poll", "store", "close", "returned"}

TypeOK ==
  /\ pc \in Points
  /\ rfSock \in {"closed", "open"}
  /\ q \in [front : Slots, back : Slots, size : 0..Capacity,
            arr : [Slots -> Readings \cup {Unset}]]
  /\ lastTs \in Timestamps
  /\ clock \in 0..MaxClock
  /\ text \in Seq(Readings)

\* The text holds the readings made last, without a gap: no reading is refused
\* by a full queue, overwritten early or written out twice, however often the
\* ring has wrapped.
LastReadings ==
  /\ Len(text) = IF clock < Capacity THEN clock ELSE Capacity
  /\ \A i \in 1..Len(text) : text[i].clock = clock - Len(text) + i

\* The text goes through the windows of the abstract program.
Recent == INSTANCE RecentReadings WITH recent <- text

RecordsRecent == Recent!RecentSpec

=============================================================================
