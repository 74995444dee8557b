----------------------- MODULE TxAccelerometerProofs -----------------------
(***************************************************************************)
(* Proofs about TxAccelerometer for every capacity of the queue: the ring  *)
(* of queue.c is a first-in first-out queue, and with it the program       *)
(* implements RecentReadings.                                              *)
(***************************************************************************)
EXTENDS TxAccelerometer, SequenceTheorems, TLAPS

Queues == [front : Slots, back : Slots, size : 0..Capacity,
           arr : [Slots -> Readings \cup {Unset}]]

\* The slot after the back is the one Capacity elements would end at.
Shape(r) == NextSlot(r.back) = (r.front + r.size) % Capacity

Filled(r) == \A i \in 0..(r.size - 1) : r.arr[(r.front + i) % Capacity] \in Readings

GoodQueue(r) == r \in Queues /\ Shape(r) /\ Filled(r)

\* Counting on from a slot goes round the array at most once.
LEMMA WrapOnce ==
  ASSUME NEW f \in Slots, NEW i \in 0..Capacity
  PROVE  /\ (f + i) % Capacity = IF f + i < Capacity THEN f + i ELSE f + i - Capacity
         /\ (f + i) % Capacity \in Slots
<1>0. Capacity \in Nat \ {0}
  BY TxAccelerometerAssumption
<1> DEFINE x == f + i
<1>1. x \in Int /\ 0 <= x /\ x < 2 * Capacity
  BY <1>0 DEF Slots
<1> HIDE DEF x
<1>2. CASE x < Capacity
  <2>1. x % Capacity = x /\ x \in Slots
    BY <1>0, <1>1, <1>2 DEF Slots
  <2> QED BY <1>2, <2>1 DEF x
<1>3. CASE x >= Capacity
  <2>1. x - Capacity \in 0..(Capacity - 1)
    BY <1>0, <1>1, <1>3
  <2>2. x % Capacity = x - Capacity /\ x - Capacity \in Slots
    BY <1>0, <1>1, <1>3, <2>1 DEF Slots
  <2>3. ~(x < Capacity) /\ f + i - Capacity = x - Capacity
    BY <1>0, <1>1, <1>3 DEF x, Slots
  <2> QED BY <2>2, <2>3 DEF x
<1> QED BY <1>0, <1>1, <1>2, <1>3

\* Different places in the window are different slots.
LEMMA SlotsDiffer ==
  ASSUME NEW f \in Slots, NEW i \in 0..(Capacity - 1), NEW j \in 0..(Capacity - 1), i # j
  PROVE  (f + i) % Capacity # (f + j) % Capacity
<1>0. Capacity \in Nat \ {0}
  BY TxAccelerometerAssumption
<1> DEFINE w(k) == IF f + k < Capacity THEN f + k ELSE f + k - Capacity
<1>1. (f + i) % Capacity = w(i) /\ (f + j) % Capacity = w(j)
  <2>1. i \in 0..Capacity /\ j \in 0..Capacity
    BY <1>0
  <2> QED BY <2>1, WrapOnce
<1>2. w(i) # w(j)
  BY <1>0 DEF Slots
<1> QED BY <1>1, <1>2

\* One slot on from a place in the window is the next place in it.
LEMMA NextPlace ==
  ASSUME NEW f \in Slots, NEW i \in 0..(Capacity - 1)
  PROVE  /\ NextSlot((f + i) % Capacity) = (f + (i + 1)) % Capacity
         /\ NextSlot(f) \in Slots
         /\ (NextSlot(f) + i) % Capacity = (f + (i + 1)) % Capacity
<1>0. Capacity \in Nat \ {0} /\ 1 \in 0..Capacity /\ i + 1 \in 0..Capacity /\ i \in 0..Capacity
  BY TxAccelerometerAssumption
<1> DEFINE w(a, k) == IF a + k < Capacity THEN a + k ELSE a + k - Capacity
<1>1. ASSUME NEW a \in Slots, NEW k \in 0..Capacity
      PROVE  (a + k) % Capacity = w(a, k) /\ w(a, k) \in Slots
  BY <1>1, WrapOnce
<1>2. ASSUME NEW a \in Slots PROVE NextSlot(a) = w(a, 1) /\ NextSlot(a) \in Slots
  BY <1>0, <1>1 DEF NextSlot
<1>3. w(w(f, i), 1) = w(f, i + 1) /\ w(w(f, 1), i) = w(f, i + 1)
  BY <1>0 DEF Slots
<1> QED BY <1>0, <1>1, <1>2, <1>3

\* queue_to_string yields the readings of the slots in use, from the front.
LEMMA TextOfQueue ==
  ASSUME NEW r, GoodQueue(r)
  PROVE  /\ QToString(r) \in Seq(Readings)
         /\ Len(QToString(r)) = r.size
         /\ \A i \in 1..r.size : QToString(r)[i] = r.arr[(r.front + (i - 1)) % Capacity]
<1>0. r.size \in 0..Capacity /\ Capacity \in Nat \ {0}
  BY TxAccelerometerAssumption DEF GoodQueue, Queues
<1>1. QToString(r) = [i \in 1..r.size |-> r.arr[(r.front + (i - 1)) % Capacity]]
  BY <1>0 DEF QToString, QIndex, QEmpty
<1>2. \A i \in 1..r.size : r.arr[(r.front + (i - 1)) % Capacity] \in Readings
  <2>1. TAKE i \in 1..r.size
  <2>2. i - 1 \in 0..(r.size - 1)
    BY <1>0
  <2> QED BY <2>2 DEF GoodQueue, Filled
<1> DEFINE n == r.size
           at(i) == r.arr[(r.front + (i - 1)) % Capacity]
<1>3. n \in Nat /\ QToString(r) = [i \in 1..n |-> at(i)] /\ \A i \in 1..n : at(i) \in Readings
  BY <1>0, <1>1, <1>2
<1> HIDE DEF n, at
<1>4. /\ QToString(r) \in Seq(Readings) /\ Len(QToString(r)) = n
      /\ \A i \in 1..n : QToString(r)[i] = at(i)
  BY <1>3
<1> QED BY <1>4 DEF n, at

-----------------------------------------------------------------------------
\* enque adds its argument at the young end.
LEMMA EnqueAppends ==
  ASSUME NEW r, GoodQueue(r), ~QFull(r), NEW v \in Readings
  PROVE  /\ GoodQueue(Enque(r, v))
         /\ QToString(Enque(r, v)) = Append(QToString(r), v)
<1> DEFINE e == Enque(r, v)
           n == r.size
           place(i) == (r.front + i) % Capacity
<1>0. /\ Capacity \in Nat \ {0} /\ r.front \in Slots /\ r.back \in Slots
      /\ n \in 0..(Capacity - 1)
      /\ r.arr \in [Slots -> Readings \cup {Unset}]
  BY TxAccelerometerAssumption DEF GoodQueue, Queues, QFull
<1>1. NextSlot(r.back) = place(n)
  BY DEF GoodQueue, Shape
<1>2. e = [front |-> r.front, back |-> place(n), size |-> n + 1,
           arr |-> [r.arr EXCEPT ![place(n)] = v]]
  BY <1>1 DEF Enque
<1>3. \A i \in 0..n : place(i) \in Slots
  BY <1>0, WrapOnce
<1> HIDE DEF e
<1>4. e \in Queues
  BY <1>0, <1>2, <1>3 DEF Queues
<1>5. Shape(e)
  BY <1>0, <1>2, NextPlace DEF Shape
<1>6. e.arr[place(n)] = v
  BY <1>0, <1>2, <1>3
<1>7. ASSUME NEW i \in 0..(n - 1) PROVE e.arr[place(i)] = r.arr[place(i)]
  <2>1. place(i) # place(n)
    BY <1>0, SlotsDiffer
  <2> QED BY <1>0, <1>2, <1>3, <2>1
<1>8. Filled(e)
  <2>1. ASSUME NEW i \in 0..(e.size - 1) PROVE e.arr[place(i)] \in Readings
    <3>1. CASE i = n
      BY <1>6, <3>1
    <3>2. CASE i # n
      <4>1. i \in 0..(n - 1)
        BY <1>0, <1>2, <3>2
      <4>2. r.arr[place(i)] \in Readings
        BY <4>1 DEF GoodQueue, Filled
      <4> QED BY <1>7, <4>1, <4>2
    <3> QED BY <3>1, <3>2
  <2> QED BY <1>2, <2>1 DEF Filled
<1>9. GoodQueue(e)
  BY <1>4, <1>5, <1>8 DEF GoodQueue
<1>10. /\ QToString(r) \in Seq(Readings) /\ Len(QToString(r)) = n
       /\ \A i \in 1..n : QToString(r)[i] = r.arr[place(i - 1)]
  BY TextOfQueue
<1>11. /\ QToString(e) \in Seq(Readings) /\ Len(QToString(e)) = n + 1
       /\ \A i \in 1..(n + 1) : QToString(e)[i] = e.arr[place(i - 1)]
  <2>1. e.size = n + 1 /\ e.front = r.front
    BY <1>2
  <2> HIDE DEF n
  <2> QED BY <1>9, <2>1, TextOfQueue
<1>12. ASSUME NEW i \in 1..(n + 1) PROVE QToString(e)[i] = Append(QToString(r), v)[i]
  <2>1. CASE i = n + 1
    <3>1. i - 1 = n
      BY <1>0, <2>1
    <3> QED BY <1>6, <1>10, <1>11, <2>1, <3>1, AppendProperties
  <2>2. CASE i # n + 1
    <3>1. i - 1 \in 0..(n - 1) /\ i \in 1..n
      BY <1>0, <2>2
    <3>2. QToString(e)[i] = QToString(r)[i]
      BY <1>7, <1>10, <1>11, <3>1
    <3> QED BY <1>0, <1>10, <3>1, <3>2, AppendProperties
  <2> QED BY <2>1, <2>2
<1>13. Append(QToString(r), v) \in Seq(Readings) /\ Len(Append(QToString(r), v)) = n + 1
  BY <1>0, <1>10, AppendProperties
<1>14. QToString(e) = Append(QToString(r), v)
  BY <1>11, <1>12, <1>13, SeqEqual
<1> QED BY <1>9, <1>14 DEF e

\* deque takes the old end away.
LEMMA DequeTails ==
  ASSUME NEW r, GoodQueue(r), ~QEmpty(r)
  PROVE  /\ GoodQueue(Deque(r))
         /\ Deque(r).size = r.size - 1
         /\ QToString(Deque(r)) = Tail(QToString(r))
<1> DEFINE d == Deque(r)
           n == r.size
<1>0. /\ Capacity \in Nat \ {0} /\ r.front \in Slots /\ r.back \in Slots
      /\ n \in 1..Capacity
      /\ r.arr \in [Slots -> Readings \cup {Unset}]
  BY TxAccelerometerAssumption DEF GoodQueue, Queues, QEmpty
<1>1. d = [front |-> NextSlot(r.front), back |-> r.back, size |-> n - 1, arr |-> r.arr]
  BY DEF Deque
<1> HIDE DEF d
<1>2. ASSUME NEW i \in 0..(n - 1)
      PROVE  (d.front + i) % Capacity = (r.front + (i + 1)) % Capacity
  BY <1>0, <1>1, NextPlace
<1>3. d.front \in Slots
  <2>1. 0 \in 0..(Capacity - 1)
    BY <1>0
  <2> QED BY <1>0, <1>1, <2>1, NextPlace
<1>4. d \in Queues
  BY <1>0, <1>1, <1>3 DEF Queues
<1>5. Shape(d)
  <2>1. (n - 1) + 1 = n /\ n - 1 \in 0..(n - 1)
    BY <1>0
  <2>2. (d.front + (n - 1)) % Capacity = (r.front + n) % Capacity
    BY <1>2, <2>1
  <2> QED BY <1>1, <2>2 DEF GoodQueue, Shape
<1>6. Filled(d)
  <2>1. ASSUME NEW i \in 0..(d.size - 1) PROVE d.arr[(d.front + i) % Capacity] \in Readings
    <3>1. i + 1 \in 0..(n - 1) /\ i \in 0..(n - 1)
      BY <1>0, <1>1
    <3>2. r.arr[(r.front + (i + 1)) % Capacity] \in Readings
      BY <3>1 DEF GoodQueue, Filled
    <3> QED BY <1>1, <1>2, <3>1, <3>2
  <2> QED BY <2>1 DEF Filled
<1>7. GoodQueue(d)
  BY <1>4, <1>5, <1>6 DEF GoodQueue
<1>8. /\ QToString(r) \in Seq(Readings) /\ Len(QToString(r)) = n
      /\ \A i \in 1..n : QToString(r)[i] = r.arr[(r.front + (i - 1)) % Capacity]
  BY TextOfQueue
<1>9. /\ QToString(d) \in Seq(Readings) /\ Len(QToString(d)) = n - 1
      /\ \A i \in 1..(n - 1) : QToString(d)[i] = d.arr[(d.front + (i - 1)) % Capacity]
  <2>1. d.size = n - 1
    BY <1>1
  <2> HIDE DEF n
  <2> QED BY <1>7, <2>1, TextOfQueue
<1>10. QToString(r) # <<>>
  BY <1>0, <1>8
<1>11. /\ Tail(QToString(r)) \in Seq(Readings) /\ Len(Tail(QToString(r))) = n - 1
       /\ \A i \in 1..(n - 1) : Tail(QToString(r))[i] = QToString(r)[i + 1]
  BY <1>8, <1>10, HeadTailProperties
<1>12. ASSUME NEW i \in 1..(n - 1) PROVE QToString(d)[i] = QToString(r)[i + 1]
  <2>1. i - 1 \in 0..(n - 1) /\ (i - 1) + 1 = i /\ (i + 1) - 1 = i /\ i + 1 \in 1..n
    BY <1>0
  <2>2. (d.front + (i - 1)) % Capacity = (r.front + ((i + 1) - 1)) % Capacity
    BY <1>2, <2>1
  <2> QED BY <1>1, <1>8, <1>9, <2>1, <2>2
<1>13. QToString(d) = Tail(QToString(r))
  BY <1>9, <1>11, <1>12, SeqEqual
<1> QED BY <1>1, <1>7, <1>13 DEF d

-----------------------------------------------------------------------------
(* The inductive invariant.  The text is a function of the queue, and the   *)
(* queue is well formed; both are needed to know that the slot enque writes *)
(* is the one the oldest reading has just left.                             *)

AccelInv ==
  /\ TypeOK
  /\ GoodQueue(q)
  /\ text = QToString(q)
  /\ LastReadings
  /\ pc = "store" => clock < MaxClock

\* The invariant holds for the empty queue.
LEMMA InitAccelInv == Init => AccelInv
<1> SUFFICES ASSUME Init PROVE AccelInv OBVIOUS
<1>0. Capacity \in Nat \ {0} /\ 0 \in Timestamps /\ MaxClock \in Nat
  BY TxAccelerometerAssumption
<1>1. /\ q = [front |-> 0, back |-> Capacity - 1, size |-> 0, arr |-> [i \in Slots |-> Unset]]
      /\ text = <<>> /\ clock = 0 /\ lastTs = 0 /\ pc = "enter" /\ rfSock = "closed"
  BY DEF Init, InitQueue
<1>2. 0 \in Slots /\ Capacity - 1 \in Slots
  BY <1>0 DEF Slots
<1>3. q \in Queues
  BY <1>0, <1>1, <1>2 DEF Queues
<1>4. GoodQueue(q)
  <2>1. Shape(q)
    BY <1>0, <1>1 DEF Shape, NextSlot
  <2>2. Filled(q)
    BY <1>0, <1>1 DEF Filled
  <2> QED BY <1>3, <2>1, <2>2 DEF GoodQueue
<1>5. text = QToString(q)
  BY <1>1 DEF QToString
<1>6. TypeOK
  BY <1>0, <1>1, <1>3, EmptySeq DEF TypeOK, Points, Queues
<1>7. LastReadings
  BY <1>0, <1>1 DEF LastReadings
<1> QED BY <1>1, <1>4, <1>5, <1>6, <1>7 DEF AccelInv

\* A reading that is stored goes to the young end of the text, and in a full
\* queue the oldest one leaves.
LEMMA StorePushes ==
  ASSUME AccelInv, Store
  PROVE  /\ clock' \in 1..MaxClock /\ Reading \in Readings
         /\ GoodQueue(q')
         /\ text' = QToString(q')
         /\ text' = Append(IF Len(text) = Capacity THEN Tail(text) ELSE text, Reading)
<1> DEFINE d == IF QFull(q) THEN Deque(q) ELSE q
<1>0. Capacity \in Nat \ {0} /\ q.size \in 0..Capacity
  BY TxAccelerometerAssumption DEF AccelInv, GoodQueue, Queues
<1>1. clock' \in 1..MaxClock /\ Reading \in Readings
  BY TxAccelerometerAssumption DEF AccelInv, TypeOK, Store, Reading, Readings
<1>2. Len(text) = q.size
  BY TextOfQueue DEF AccelInv
<1>3. /\ GoodQueue(d) /\ ~QFull(d)
      /\ QToString(d) = IF Len(text) = Capacity THEN Tail(text) ELSE text
  <2>1. CASE QFull(q)
    <3>1. ~QEmpty(q)
      BY <1>0, <2>1 DEF QFull, QEmpty
    <3>2. GoodQueue(d) /\ d.size = q.size - 1 /\ QToString(d) = Tail(text)
      BY <2>1, <3>1, DequeTails DEF AccelInv
    <3> QED BY <1>0, <1>2, <2>1, <3>2 DEF QFull
  <2>2. CASE ~QFull(q)
    BY <1>2, <2>2 DEF AccelInv, QFull
  <2> QED BY <2>1, <2>2
<1>4. q' = Enque(d, Reading) /\ text' = QToString(q')
  BY DEF Store
<1> HIDE DEF d
<1>5. GoodQueue(q') /\ text' = Append(QToString(d), Reading)
  BY <1>1, <1>3, <1>4, EnqueAppends
<1> QED BY <1>1, <1>3, <1>4, <1>5

\* A new reading drops the oldest of a full queue and no other.
LEMMA StoreKeepsLast ==
  ASSUME AccelInv, Store
  PROVE  LastReadings' /\ text' \in Seq(Readings)
<1> DEFINE kept == IF Len(text) = Capacity THEN Tail(text) ELSE text
           n == Len(text)
           k == Len(kept)
<1>0. /\ Capacity \in Nat \ {0} /\ clock \in Nat /\ clock' = clock + 1
      /\ text \in Seq(Readings) /\ n \in Nat
      /\ n = IF clock < Capacity THEN clock ELSE Capacity
      /\ \A i \in 1..n : text[i].clock = clock - n + i
  BY TxAccelerometerAssumption DEF AccelInv, TypeOK, LastReadings, Store
<1>1. Reading \in Readings /\ text' = Append(kept, Reading) /\ Reading.clock = clock'
  BY StorePushes DEF Reading
<1>2. /\ kept \in Seq(Readings) /\ k \in Nat
      /\ k = IF n = Capacity THEN n - 1 ELSE n
      /\ \A i \in 1..k : kept[i] = IF n = Capacity THEN text[i + 1] ELSE text[i]
  <2>1. CASE n = Capacity
    <3>1. text # <<>>
      BY <1>0, <2>1
    <3> QED BY <1>0, <2>1, <3>1, HeadTailProperties
  <2>2. CASE n # Capacity
    BY <1>0, <2>2
  <2> QED BY <2>1, <2>2
<1>3. \A i \in 1..k : kept[i].clock = clock' - (k + 1) + i
  <2>1. TAKE i \in 1..k
  <2>2. CASE n = Capacity
    <3>1. i + 1 \in 1..n /\ kept[i] = text[i + 1]
      BY <1>0, <1>2, <2>2
    <3>2. text[i + 1].clock = clock - n + (i + 1)
      BY <1>0, <3>1
    <3>3. k + 1 = n /\ i \in Int
      BY <1>0, <1>2, <2>2
    <3>4. clock - n + (i + 1) = clock' - (k + 1) + i
      <4> HIDE DEF k, n
      <4> QED BY <1>0, <3>3
    <3> QED BY <3>1, <3>2, <3>4
  <2>3. CASE n # Capacity
    <3>1. i \in 1..n /\ kept[i] = text[i]
      BY <1>0, <1>2, <2>3
    <3>2. text[i].clock = clock - n + i
      BY <1>0, <3>1
    <3> QED BY <1>0, <1>2, <2>3, <3>1, <3>2
  <2> QED BY <2>2, <2>3
<1> HIDE DEF kept, n
<1>4. /\ text' \in Seq(Readings) /\ Len(text') = k + 1
      /\ \A i \in 1..k : text'[i] = kept[i]
      /\ text'[k + 1] = Reading
  BY <1>1, <1>2, AppendProperties
<1>5. \A i \in 1..(k + 1) : text'[i].clock = clock' - (k + 1) + i
  <2>1. TAKE i \in 1..(k + 1)
  <2>2. CASE i = k + 1
    BY <1>0, <1>1, <1>2, <1>4, <2>2
  <2>3. CASE i # k + 1
    <3>1. i \in 1..k
      BY <1>2, <2>3
    <3> QED BY <1>3, <1>4, <3>1
  <2> QED BY <2>2, <2>3
<1>6. k + 1 = IF clock' < Capacity THEN clock' ELSE Capacity
  BY <1>0, <1>2
<1> HIDE DEF k
<1> QED BY <1>4, <1>5, <1>6 DEF LastReadings

\* Every step of the recorder keeps the invariant.
LEMMA AccelStep == AccelInv /\ [Next]_vars => AccelInv'
<1> SUFFICES ASSUME AccelInv, [Next]_vars PROVE AccelInv' OBVIOUS
<1>0. MaxClock \in Nat
  BY TxAccelerometerAssumption
<1>1. CASE Store
  <2>1. /\ clock' \in 1..MaxClock /\ GoodQueue(q') /\ text' = QToString(q')
    BY <1>1, StorePushes
  <2>2. LastReadings' /\ text' \in Seq(Readings)
    BY <1>1, StoreKeepsLast
  <2>3. TypeOK'
    BY <1>0, <1>1, <2>1, <2>2 DEF AccelInv, TypeOK, Store, Points, GoodQueue, Queues
  <2>4. pc' = "poll"
    BY <1>1 DEF Store
  <2> QED BY <2>1, <2>2, <2>3, <2>4 DEF AccelInv
<1>2. CASE Enter \/ Beacon \/ NoBeacon \/ PollError \/ CloseRf \/ Returned \/ UNCHANGED vars
  <2>1. UNCHANGED <<q, clock, text>>
    BY <1>2 DEF Enter, Beacon, NoBeacon, PollError, CloseRf, Returned, vars
  <2>2. TypeOK'
    BY <1>2, <2>1 DEF AccelInv, TypeOK, Points, Enter, Beacon, NoBeacon, Hear, PollError,
                      CloseRf, Returned, vars
  <2>3. pc' = "store" => clock' < MaxClock
    BY <1>2, <2>1 DEF AccelInv, Enter, Beacon, NoBeacon, Hear, PollError, CloseRf,
                      Returned, vars
  <2>4. GoodQueue(q') /\ text' = QToString(q')
    BY <2>1 DEF AccelInv
  <2>5. LastReadings'
    BY <2>1 DEF AccelInv, LastReadings
  <2> QED BY <2>2, <2>3, <2>4, <2>5 DEF AccelInv
<1> QED BY <1>1, <1>2 DEF Next

-----------------------------------------------------------------------------
\* The queue of queue.c stays well formed and the text is the queue, in every
\* state of tx_accelerometer.
THEOREM AccelInvariant == Spec => []AccelInv
<1> QED BY InitAccelInv, AccelStep, PTL DEF Spec

\* Front, back and size of queue.c stay inside the array, and every reading the
\* text shows was stored before.
THEOREM TypeCorrect == Spec => []TypeOK
<1>1. AccelInv => TypeOK
  BY DEF AccelInv
<1> QED BY <1>1, AccelInvariant, PTL

\* tx_accelerometer's text holds the last Capacity readings without a gap.
THEOREM TextIsLastReadings == Spec => []LastReadings
<1>1. AccelInv => LastReadings
  BY DEF AccelInv
<1> QED BY <1>1, AccelInvariant, PTL

\* tx_accelerometer with queue.c implements the abstract program.
THEOREM QueueIsWindow == Spec => RecordsRecent
<1>1. Init => Recent!RecentInit
  BY DEF Init, Recent!RecentInit
<1>2. AccelInv /\ [Next]_vars => [Recent!RecentNext]_text
  <2> SUFFICES ASSUME AccelInv, [Next]_vars PROVE [Recent!RecentNext]_text OBVIOUS
  <2>1. CASE Store
    <3>1. Reading \in Readings /\ Recent!Keep(Reading)
      BY <2>1, StorePushes DEF Recent!Keep
    <3> QED BY <3>1 DEF Recent!RecentNext
  <2>2. CASE ~Store
    BY <2>2 DEF Next, Enter, Beacon, NoBeacon, PollError, CloseRf, Returned, vars
  <2> QED BY <2>1, <2>2
<1> QED BY <1>1, <1>2, AccelInvariant, PTL DEF Spec, RecordsRecent, Recent!RecentSpec

=============================================================================
