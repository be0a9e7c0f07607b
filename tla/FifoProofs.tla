----------------------------- MODULE FifoProofs -----------------------------
(***************************************************************************)
(* A ring of any capacity is a bounded queue; and the SPI controller, with  *)
(* fifos of any capacity: its receive fifo is a bounded queue, its status   *)
(* register is exact, its interrupt line follows the enabled causes and a   *)
(* dropped answer is reported.                                              *)
(***************************************************************************)
EXTENDS Spi, SequenceTheorems, TLAPS

-----------------------------------------------------------------------------
(* Positions in the ring *)

LEMMA ModSmall ==
  ASSUME NEW c \in Nat \ {0}, NEW x \in 0 .. c - 1
  PROVE  x % c = x
OBVIOUS

LEMMA ModOnce ==
  ASSUME NEW c \in Nat \ {0}, NEW x \in 0 .. c - 1
  PROVE  (c + x) % c = x
OBVIOUS

LEMMA ModRange ==
  ASSUME NEW c \in Nat \ {0}, NEW x \in Nat
  PROVE  x % c \in 0 .. c - 1
OBVIOUS

\* Two positions less than a round apart are different slots.
LEMMA SlotsApart ==
  ASSUME NEW c \in Nat \ {0}, NEW h \in 0 .. c - 1,
         NEW i \in 0 .. c - 1, NEW j \in 0 .. c - 1, i # j
  PROVE  (h + i) % c # (h + j) % c
<1>1. ASSUME NEW k \in 0 .. c - 1
      PROVE  (h + k) % c = IF h + k < c THEN h + k ELSE h + k - c
  <2>1. CASE h + k < c
    BY <2>1, ModSmall
  <2>2. CASE h + k >= c
    <3>1. h + k - c \in 0 .. c - 1 /\ c + (h + k - c) = h + k
      BY <2>2
    <3> DEFINE x == h + k - c
    <3>2. (c + x) % c = x
      BY <3>1, ModOnce
    <3> QED BY <2>2, <3>1, <3>2
  <2> QED BY <2>1, <2>2
<1> QED BY <1>1

\* One round is the same slot.
LEMMA StepAndWrap ==
  ASSUME NEW c \in Nat \ {0}, NEW h \in 0 .. c - 1, NEW i \in 0 .. c - 2
  PROVE  (((h + 1) % c) + i) % c = (h + 1 + i) % c
<1>1. CASE h + 1 < c
  <2>1. (h + 1) % c = h + 1
    BY <1>1, ModSmall
  <2> QED BY <2>1
<1>2. CASE h + 1 = c
  <2>1. (c + 0) % c = 0
    BY ModOnce
  <2>2. i \in 0 .. c - 1
    OBVIOUS
  <2>3. i % c = i /\ (c + i) % c = i
    BY <2>2, ModSmall, ModOnce
  <2> QED BY <1>2, <2>1, <2>3
<1> QED BY <1>1, <1>2

-----------------------------------------------------------------------------
(* The operations on the ring and the queue it holds *)

LEMMA RingFacts ==
  ASSUME NEW r \in Ring
  PROVE  /\ r.head \in 0 .. Capacity - 1 /\ r.size \in 0 .. Capacity
         /\ r.e \in [0 .. Capacity - 1 -> Values]
         /\ Capacity \in Nat \ {0}
         /\ r.head \in Nat /\ r.size \in Nat
<1>1. Capacity \in Nat \ {0}
  BY FifoAssumption
<1> QED BY <1>1 DEF Ring

LEMMA SlotType ==
  ASSUME NEW r \in Ring, NEW k \in Nat
  PROVE  (r.head + k) % Capacity \in 0 .. Capacity - 1
<1>1. r.head + k \in Nat /\ Capacity \in Nat \ {0}
  BY RingFacts
<1> QED BY <1>1, ModRange

LEMMA ForeachType ==
  ASSUME NEW r \in Ring
  PROVE  fifo_foreach(r) \in Seq(Values) /\ Len(fifo_foreach(r)) = r.size
<1>1. ASSUME NEW k \in 1 .. r.size PROVE r.e[(r.head + k - 1) % Capacity] \in Values
  <2>1. r.head \in Nat /\ r.size \in Nat
    BY RingFacts
  <2>2. k - 1 \in Nat /\ r.head + k - 1 = r.head + (k - 1)
    BY <2>1
  <2>3. (r.head + (k - 1)) % Capacity \in 0 .. Capacity - 1
    BY <2>2, SlotType
  <2>4. r.e \in [0 .. Capacity - 1 -> Values]
    BY RingFacts
  <2> QED BY Zenon, <2>2, <2>3, <2>4
<1>2. r.size \in Nat
  BY RingFacts
<1>3. fifo_foreach(r) \in [1 .. r.size -> Values]
  BY <1>1 DEF fifo_foreach
<1> QED BY <1>2, <1>3

LEMMA PushKeeps ==
  ASSUME NEW r \in Ring, NEW v \in Values
  PROVE  fifo_push(r, v) \in Ring
<1>1. CASE r.size < Capacity
  <2> DEFINE next == (r.head + r.size) % Capacity
             e == [r.e EXCEPT ![next] = v]
             n == r.size + 1
  <2>0. r.size \in 0 .. Capacity /\ Capacity \in Nat /\ r.size \in Nat
    BY RingFacts
  <2>1. next \in 0 .. Capacity - 1 /\ n \in 0 .. Capacity
    BY <1>1, <2>0, SlotType
  <2>2. e \in [0 .. Capacity - 1 -> Values]
    BY RingFacts
  <2>3. fifo_push(r, v) = [head |-> r.head, size |-> n, e |-> e]
    BY <1>1 DEF fifo_push
  <2> HIDE DEF e, n
  <2> QED BY <2>1, <2>2, <2>3, RingFacts DEF Ring
<1>2. CASE ~(r.size < Capacity)
  BY <1>2 DEF fifo_push
<1> QED BY <1>1, <1>2

LEMMA PushQueues ==
  ASSUME NEW r \in Ring, NEW v \in Values, r.size < Capacity
  PROVE  fifo_foreach(fifo_push(r, v)) = Append(fifo_foreach(r), v)
<1> DEFINE next == (r.head + r.size) % Capacity
           e == [r.e EXCEPT ![next] = v]
           s == fifo_push(r, v)
<1>1. s = [head |-> r.head, size |-> r.size + 1, e |-> e]
  BY DEF fifo_push
<1>2. s.head = r.head /\ s.size = r.size + 1 /\ s.e = e
  BY <1>1
<1>3. fifo_foreach(s) = [k \in 1 .. r.size + 1 |-> e[(r.head + k - 1) % Capacity]]
  BY <1>2, Zenon DEF fifo_foreach
<1>0. /\ r.head \in 0 .. Capacity - 1 /\ r.size \in 0 .. Capacity
      /\ r.e \in [0 .. Capacity - 1 -> Values]
      /\ Capacity \in Nat \ {0}
  BY RingFacts
<1>4. r.size \in Nat /\ next \in 0 .. Capacity - 1
  BY Zenon, RingFacts, SlotType
<1>5. ASSUME NEW k \in 1 .. r.size
      PROVE  e[(r.head + k - 1) % Capacity] = r.e[(r.head + k - 1) % Capacity]
  <2>1. k - 1 \in 0 .. Capacity - 1 /\ r.size \in 0 .. Capacity - 1 /\ k - 1 # r.size
    BY <1>0
  <2>2. (r.head + (k - 1)) % Capacity # next
    BY Zenon, <1>0, <2>1, SlotsApart
  <2>3. r.head + (k - 1) = r.head + k - 1
    BY <1>0
  <2>4. (r.head + (k - 1)) % Capacity \in 0 .. Capacity - 1
    BY <2>1, SlotType
  <2>5. e[(r.head + (k - 1)) % Capacity] = r.e[(r.head + (k - 1)) % Capacity]
    <3> HIDE DEF next
    <3> QED BY <1>0, <2>2, <2>4
  <2> QED BY <2>3, <2>5
<1>6. e[(r.head + (r.size + 1) - 1) % Capacity] = v
  <2>1. r.head + (r.size + 1) - 1 = r.head + r.size
    BY <1>0
  <2>2. e[next] = v
    <3> HIDE DEF next
    <3> QED BY <1>0, <1>4
  <2> QED BY <2>1, <2>2
<1>7. /\ fifo_foreach(r) \in Seq(Values) /\ Len(fifo_foreach(r)) = r.size
      /\ \A k \in 1 .. r.size :
           fifo_foreach(r)[k] = r.e[(r.head + k - 1) % Capacity]
  BY Zenon, ForeachType DEF fifo_foreach
<1> DEFINE a == Append(fifo_foreach(r), v)
           b == fifo_foreach(s)
<1>8. /\ a \in Seq(Values) /\ Len(a) = r.size + 1
      /\ \A k \in 1 .. r.size : a[k] = r.e[(r.head + k - 1) % Capacity]
      /\ a[r.size + 1] = v
  BY <1>4, <1>7
<1>9. /\ b \in Seq(Values) /\ Len(b) = r.size + 1
      /\ \A k \in 1 .. r.size : b[k] = r.e[(r.head + k - 1) % Capacity]
      /\ b[r.size + 1] = v
  <2>1. b \in Seq(Values) /\ Len(b) = r.size + 1
    BY <1>2, PushKeeps, ForeachType
  <2>2. \A k \in 1 .. r.size + 1 : b[k] = e[(r.head + k - 1) % Capacity]
    <3> HIDE DEF e
    <3> QED BY <1>3
  <2>3. ASSUME NEW k \in 1 .. r.size
        PROVE  b[k] = r.e[(r.head + k - 1) % Capacity]
    <3>1. k \in 1 .. r.size + 1
      BY <1>4
    <3> HIDE DEF e, b
    <3> QED BY <1>5, <2>2, <3>1
  <2>4. b[r.size + 1] = v
    <3>1. r.size + 1 \in 1 .. r.size + 1
      BY <1>4
    <3> HIDE DEF e, b
    <3> QED BY <1>6, <2>2, <3>1
  <2> QED BY <2>1, <2>3, <2>4
<1>10. ASSUME NEW k \in 1 .. r.size + 1 PROVE a[k] = b[k]
  BY <1>4, <1>8, <1>9
<1> HIDE DEF a, b
<1>11. a = b
  BY <1>8, <1>9, <1>10, SeqEqual
<1> QED BY <1>11 DEF a, b

LEMMA PopKeeps ==
  ASSUME NEW r \in Ring
  PROVE  fifo_pop(r) \in Ring /\ fifo_top(r) \in Values
<1>0. /\ r.head \in 0 .. Capacity - 1 /\ r.size \in 0 .. Capacity
      /\ r.e \in [0 .. Capacity - 1 -> Values]
      /\ Capacity \in Nat \ {0}
  BY RingFacts
<1>1. fifo_top(r) \in Values
  BY <1>0 DEF fifo_top
<1>2. CASE r.size > 0
  <2> DEFINE h == (r.head + 1) % Capacity
             n == r.size - 1
  <2>1. h \in 0 .. Capacity - 1 /\ n \in 0 .. Capacity
    <3>1. (r.head + 1) % Capacity \in 0 .. Capacity - 1
      BY SlotType
    <3>2. r.size - 1 \in 0 .. Capacity
      BY <1>0, <1>2
    <3> QED BY <3>1, <3>2
  <2>2. fifo_pop(r) = [head |-> h, size |-> n, e |-> r.e]
    BY <1>2 DEF fifo_pop
  <2> HIDE DEF h, n
  <2> QED BY <1>0, <1>1, <2>1, <2>2 DEF Ring
<1>3. CASE ~(r.size > 0)
  BY <1>1, <1>3 DEF fifo_pop
<1> QED BY <1>2, <1>3

LEMMA PopQueues ==
  ASSUME NEW r \in Ring, r.size > 0
  PROVE  /\ fifo_foreach(r) # <<>>
         /\ Head(fifo_foreach(r)) = fifo_top(r)
         /\ fifo_foreach(fifo_pop(r)) = Tail(fifo_foreach(r))
<1>0. /\ r.head \in 0 .. Capacity - 1 /\ r.size \in 0 .. Capacity
      /\ Capacity \in Nat \ {0} /\ r.size \in Nat
  BY RingFacts
<1> DEFINE s == fifo_pop(r)
           f == fifo_foreach(r)
           h == (r.head + 1) % Capacity
<1>1. f \in Seq(Values) /\ Len(f) = r.size
  BY ForeachType
<1>2. \A k \in 1 .. r.size : f[k] = r.e[(r.head + k - 1) % Capacity]
  BY DEF fifo_foreach
<1>3. s = [head |-> h, size |-> r.size - 1, e |-> r.e]
  BY DEF fifo_pop
<1>4. s.head = h /\ s.size = r.size - 1 /\ s.e = r.e
  BY <1>3
<1>5. fifo_foreach(s) \in Seq(Values) /\ Len(fifo_foreach(s)) = r.size - 1
  BY <1>4, PopKeeps, ForeachType
<1>6. \A k \in 1 .. r.size - 1 : fifo_foreach(s)[k] = r.e[(h + k - 1) % Capacity]
  <2> HIDE DEF s, h
  <2> QED BY <1>4 DEF fifo_foreach
<1>7. f # <<>>
  BY <1>0, <1>1
<1>8. Head(f) = fifo_top(r)
  <2>1. 1 \in 1 .. r.size /\ r.head + 1 - 1 = r.head
    BY <1>0
  <2>2. r.head % Capacity = r.head
    BY <1>0, ModSmall
  <2>3. f[1] = r.e[r.head]
    <3> HIDE DEF f
    <3> QED BY <1>2, <2>1, <2>2
  <2> HIDE DEF f
  <2> QED BY <1>1, <1>7, <2>3 DEF fifo_top
<1>9. ASSUME NEW k \in 1 .. r.size - 1 PROVE fifo_foreach(s)[k] = f[k + 1]
  <2>1. k - 1 \in 0 .. Capacity - 2
    BY <1>0
  <2>2. (h + (k - 1)) % Capacity = (r.head + 1 + (k - 1)) % Capacity
    BY Zenon, <1>0, <2>1, StepAndWrap
  <2>3. h \in Nat
    BY SlotType
  <2>4. h + (k - 1) = h + k - 1 /\ r.head + 1 + (k - 1) = r.head + (k + 1) - 1
    <3> HIDE DEF h
    <3> QED BY <1>0, <2>3
  <2>5. k + 1 \in 1 .. r.size
    BY <1>0
  <2> HIDE DEF f, h, s
  <2>6. f[k + 1] = r.e[(r.head + (k + 1) - 1) % Capacity]
    BY <1>2, <2>5
  <2>7. fifo_foreach(s)[k] = r.e[(h + k - 1) % Capacity]
    BY <1>6
  <2> QED BY <2>2, <2>4, <2>6, <2>7
<1> DEFINE a == fifo_foreach(s)
           b == Tail(f)
<1>10. b \in Seq(Values) /\ Len(b) = r.size - 1 /\ \A k \in 1 .. r.size - 1 : b[k] = f[k + 1]
  <2> HIDE DEF f
  <2> QED BY <1>0, <1>1, <1>7
<1>11. a = b
  <2> HIDE DEF a, b
  <2>1. \A k \in 1 .. Len(a) : a[k] = b[k]
    BY <1>5, <1>9, <1>10 DEF a
  <2> QED BY <1>5, <1>10, <2>1, SeqEqual DEF a
<1> QED BY <1>7, <1>8, <1>11

LEMMA EmptyQueue ==
  ASSUME NEW r \in Ring, r.size = 0
  PROVE  fifo_foreach(r) = <<>>
BY ForeachType

LEMMA ResetKeeps ==
  ASSUME NEW r \in Ring
  PROVE  fifo_reset(r) \in Ring /\ fifo_reset(r).size = 0
<1>1. 0 \in 0 .. Capacity - 1 /\ 0 \in 0 .. Capacity
  BY RingFacts
<1> QED BY Zenon, <1>1 DEF fifo_reset, Ring

-----------------------------------------------------------------------------
(* Theorems *)

LEMMA FifoInit == RingInit => RingOK /\ Queue!Init
<1> SUFFICES ASSUME RingInit PROVE RingOK /\ Queue!Init
  OBVIOUS
<1>1. q \in Ring /\ q.size = 0 /\ out \in Values
  BY FifoAssumption DEF RingInit, EmptyRing, Ring
<1>2. fifo_foreach(q) = <<>>
  BY <1>1, EmptyQueue
<1> QED BY <1>1, <1>2 DEF RingOK, Queue!Init

LEMMA FifoStep ==
  ASSUME RingOK, [RingNext]_ringVars
  PROVE  RingOK' /\ [Queue!Next]_<<fifo_foreach(q), out>>
<1>0. q \in Ring /\ out \in Values
  BY DEF RingOK
<1>1. CASE UNCHANGED ringVars
  BY <1>0, <1>1 DEF ringVars, RingOK
<1>2. ASSUME NEW v \in Values, RingPush(v)
      PROVE  RingOK' /\ [Queue!Next]_<<fifo_foreach(q), out>>
  <2>1. q' = fifo_push(q, v) /\ out' = out
    BY <1>2 DEF RingPush
  <2>2. RingOK'
    BY <1>0, <2>1, PushKeeps DEF RingOK
  <2>3. Len(fifo_foreach(q)) = q.size
    BY <1>0, ForeachType
  <2>4. CASE q.size < Capacity
    <3>1. fifo_foreach(q)' = Append(fifo_foreach(q), v)
      BY <1>0, <2>1, <2>4, PushQueues
    <3>2. Queue!Push(v)
      BY <2>1, <2>3, <2>4, <3>1 DEF Queue!Push
    <3> QED BY <2>2, <3>2 DEF Queue!Next
  <2>5. CASE ~(q.size < Capacity)
    <3>1. q' = q
      BY <2>1, <2>5 DEF fifo_push
    <3>2. Queue!Push(v)
      BY <2>1, <2>3, <2>5, <3>1 DEF Queue!Push
    <3> QED BY <2>2, <3>2 DEF Queue!Next
  <2> QED BY <2>4, <2>5
<1>3. CASE RingPop
  <2>1. q' = fifo_pop(q) /\ out' = fifo_top(q)
    BY <1>3 DEF RingPop
  <2>2. RingOK'
    BY <1>0, <2>1, PopKeeps DEF RingOK
  <2>3. CASE q.size > 0
    <3>1. /\ fifo_foreach(q) # <<>>
          /\ out' = Head(fifo_foreach(q))
          /\ fifo_foreach(q)' = Tail(fifo_foreach(q))
      BY <1>0, <2>1, <2>3, PopQueues
    <3>2. Queue!Pop
      BY <3>1 DEF Queue!Pop
    <3> QED BY <2>2, <3>2 DEF Queue!Next
  <2>4. CASE ~(q.size > 0)
    <3>1. q.size = 0
      BY <1>0, <2>4, RingFacts
    <3>2. q' = q /\ out' \in Values
      BY <2>1, <2>2, <2>4 DEF fifo_pop, RingOK
    <3>3. fifo_foreach(q) = <<>> /\ fifo_foreach(q)' = fifo_foreach(q)
      BY <1>0, <3>1, <3>2, EmptyQueue
    <3>4. Queue!Pop
      BY <3>2, <3>3 DEF Queue!Pop
    <3> QED BY <2>2, <3>4 DEF Queue!Next
  <2> QED BY <2>3, <2>4
<1>4. CASE RingReset
  <2>1. q' = fifo_reset(q) /\ out' = out
    BY <1>4 DEF RingReset
  <2>2. q' \in Ring /\ q'.size = 0
    BY <1>0, <2>1, ResetKeeps
  <2>3. fifo_foreach(q)' = <<>>
    BY <2>2, EmptyQueue
  <2>4. Queue!Reset
    BY <2>1, <2>3 DEF Queue!Reset
  <2> QED BY <1>0, <2>1, <2>2, <2>4 DEF RingOK, Queue!Next
<1> QED BY <1>1, <1>2, <1>3, <1>4 DEF RingNext

\* head and size stay within the ring for every capacity.
THEOREM FifoTypeCorrect == RingSpec => []RingOK
<1>1. RingOK /\ [RingNext]_ringVars => RingOK'
  BY FifoStep
<1> QED BY <1>1, FifoInit, PTL DEF RingSpec

\* A ring of any capacity over any set of values delivers what was pushed, in
\* order and once (fifo_push, fifo_pop, fifo_reset).
THEOREM FifoImplementsQueue == RingSpec => ImplementsQueue
<1>1. RingOK /\ [RingNext]_ringVars => RingOK' /\ [Queue!Next]_<<fifo_foreach(q), out>>
  BY FifoStep
<1> QED BY <1>1, FifoInit, PTL DEF RingSpec, ImplementsQueue, Queue!Spec

-----------------------------------------------------------------------------
(* The SPI controller *)

\* The bits of the receive fifo are exact at every step, those of the transmit
\* fifo only outside spi_flush_txfifo: its first turn already sets TX_EMPTY.
RxExact ==
  /\ "RX_FULL" \in regs.sr <=> fifo_is_full(q)
  /\ "RX_EMPTY" \in regs.sr <=> fifo_is_empty(q)

TxExact ==
  /\ "TX_FULL" \in regs.sr <=> fifo_is_full(tx)
  /\ "TX_EMPTY" \in regs.sr <=> fifo_is_empty(tx)

FlushExact ==
  fifo_is_empty(tx) => "TX_EMPTY" \in regs.sr /\ "TX_FULL" \notin regs.sr

IInv ==
  /\ TypeOK
  /\ RxExact
  /\ main # "flush" => TxExact
  /\ main = "flush" => FlushExact
  /\ InterruptExact
  /\ LossReported

-----------------------------------------------------------------------------
(* Sizes of rings *)

LEMMA Sizes ==
  ASSUME NEW r \in Ring
  PROVE  /\ fifo_is_full(r) => ~fifo_is_empty(r)
         /\ fifo_reset(r) \in Ring /\ fifo_is_empty(fifo_reset(r)) /\ ~fifo_is_full(fifo_reset(r))
         /\ fifo_pop(r) \in Ring /\ fifo_top(r) \in Values
         /\ ~fifo_is_empty(r) => ~fifo_is_full(fifo_pop(r))
<1>1. /\ r.size \in 0 .. Capacity /\ Capacity \in Nat \ {0} /\ r.size \in Nat
  BY RingFacts
<1>2. /\ fifo_reset(r) \in Ring /\ fifo_reset(r).size = 0
      /\ fifo_pop(r) \in Ring /\ fifo_top(r) \in Values
  BY ResetKeeps, PopKeeps
<1>3. r.size > 0 => fifo_pop(r).size = r.size - 1
  BY DEF fifo_pop
<1> QED BY <1>1, <1>2, <1>3 DEF fifo_is_full, fifo_is_empty

LEMMA PushSizes ==
  ASSUME NEW r \in Ring, NEW v \in Values
  PROVE  /\ fifo_push(r, v) \in Ring
         /\ ~fifo_is_empty(fifo_push(r, v))
         /\ fifo_is_full(r) => fifo_push(r, v) = r
<1>1. /\ r.size \in 0 .. Capacity /\ Capacity \in Nat \ {0} /\ r.size \in Nat
  BY RingFacts
<1>2. r.size < Capacity => fifo_push(r, v).size = r.size + 1
  BY DEF fifo_push
<1>3. ~(r.size < Capacity) => fifo_push(r, v) = r
  BY DEF fifo_push
<1> QED BY <1>1, <1>2, <1>3, PushKeeps DEF fifo_is_full, fifo_is_empty

-----------------------------------------------------------------------------
(* The controller uses its receive fifo by the operations of the ring *)

LEMMA StepIsRingStep ==
  ASSUME TypeOK, [Next]_vars
  PROVE  [RingNext]_ringVars
<1>1. CASE UNCHANGED vars
  BY <1>1 DEF vars, ringVars
<1>2. CASE Continue
  <2>1. ASSUME NEW rx \in Values, FlushByte(rx) PROVE [RingNext]_ringVars
    BY <2>1 DEF FlushByte, RingNext, RingPush
  <2>2. CASE FlushEnd \/ Done
    BY <2>2 DEF FlushEnd, Done, ringVars
  <2> QED BY <1>2, <2>1, <2>2 DEF Continue
<1>3. CASE Timer
  BY <1>3 DEF Timer, ringVars
<1>4. CASE Access
  <2>1. CASE xlnx_spi_do_reset
    BY <2>1 DEF xlnx_spi_do_reset, RingNext, RingReset
  <2>2. CASE ReadDRR
    BY <2>2 DEF ReadDRR, RingNext, RingPop
  <2>3. ASSUME NEW rxReset \in BOOLEAN, NEW txReset \in BOOLEAN, NEW mti \in BOOLEAN,
               WriteCR(rxReset, txReset, mti)
        PROVE  [RingNext]_ringVars
    <3>1. UNCHANGED out /\ (q' = fifo_reset(q) \/ q' = q)
      BY <2>3 DEF WriteCR
    <3> QED BY <3>1 DEF RingNext, RingReset, ringVars
  <2>4. CASE \/ \E data \in TxBytes : WriteDTR(data)
             \/ \E selected \in BOOLEAN : WriteSSR(selected)
             \/ \E mask \in Masks : WriteIPISR(mask) \/ WriteIPIER(mask)
             \/ \E ie \in BOOLEAN : WriteDGIER(ie)
             \/ OtherAccess
    BY <2>4 DEF WriteDTR, WriteSSR, WriteIPISR, WriteIPIER, WriteDGIER, OtherAccess, ringVars
  <2> QED BY <1>4, <2>1, <2>2, <2>3, <2>4 DEF Access
<1> QED BY <1>1, <1>2, <1>3, <1>4 DEF Next

LEMMA SpiInit == xlnx_spi_init => IInv /\ RingInit
<1> SUFFICES ASSUME xlnx_spi_init PROVE IInv /\ RingInit
  OBVIOUS
<1>1. EmptyRing \in Ring /\ fifo_is_empty(EmptyRing) /\ ~fifo_is_full(EmptyRing)
  BY FifoAssumption DEF EmptyRing, Ring, fifo_is_empty, fifo_is_full
<1>2. TypeOK
  BY Zenon, <1>1, FifoAssumption DEF xlnx_spi_init, ResetRegs, TypeOK, StatusBits, IrqBits
<1>3. RxExact /\ TxExact
  BY <1>1 DEF xlnx_spi_init, ResetRegs, RxExact, TxExact
<1>4. InterruptExact
  BY <1>1 DEF xlnx_spi_init, ResetRegs, InterruptExact, fifo_is_empty, fifo_is_full
<1> QED BY <1>2, <1>3, <1>4 DEF xlnx_spi_init, IInv, LossReported, RingInit

\* xlnx_spi_update_irq establishes InterruptExact and disturbs nothing else.
LEMMA UpdateIrq ==
  ASSUME IInv, xlnx_spi_update_irq, UNCHANGED <<q, out, tx, lost>>,
         main' \in {"idle", "flush", "done"}, main' = "flush" <=> main = "flush"
  PROVE  IInv'
<1> DEFINE ipisr == regs.ipisr \union {b \in IrqBits : \/ b = "DRR_NOT_EMPTY" /\ ~fifo_is_empty(q)
                                                       \/ b = "DRR_FULL" /\ fifo_is_full(q)}
<1>1. /\ regs' = [regs EXCEPT !.ipisr = ipisr]
      /\ line' = (regs.ie /\ ipisr \intersect regs.ipier # {})
  BY DEF xlnx_spi_update_irq
<1>2. /\ ipisr \subseteq IrqBits /\ regs.ipisr \subseteq ipisr
      /\ ~fifo_is_empty(q) => "DRR_NOT_EMPTY" \in ipisr
      /\ fifo_is_full(q) => "DRR_FULL" \in ipisr
  BY DEF IInv, TypeOK, IrqBits
<1> HIDE DEF ipisr
<1>3. /\ regs'.sr = regs.sr /\ regs'.ipisr = ipisr /\ regs'.ipier = regs.ipier
      /\ regs'.ie = regs.ie /\ regs'.mti = regs.mti /\ regs'.selected = regs.selected
      /\ regs' \in [sr : SUBSET StatusBits, ipisr : SUBSET IrqBits, ipier : SUBSET IrqBits,
                    ie : BOOLEAN, mti : BOOLEAN, selected : BOOLEAN]
  BY <1>1, <1>2 DEF IInv, TypeOK
<1>4. TypeOK'
  BY <1>1, <1>3 DEF IInv, TypeOK
<1>5. RxExact' /\ (main' # "flush" => TxExact') /\ (main' = "flush" => FlushExact')
  BY <1>3 DEF IInv, RxExact, TxExact, FlushExact, fifo_is_full, fifo_is_empty
<1>6. InterruptExact'
  BY Zenon, <1>1, <1>2, <1>3 DEF InterruptExact, fifo_is_full, fifo_is_empty
<1>7. LossReported'
  BY <1>2, <1>3 DEF IInv, LossReported
<1> QED BY <1>4, <1>5, <1>6, <1>7 DEF IInv

\* An access leaves idle: only the registers' type and bits are to be checked.
LEMMA Begun ==
  ASSUME TypeOK', RxExact', main' = "done" => TxExact', main' = "flush" => FlushExact',
         main' # "idle", LossReported'
  PROVE  IInv'
BY DEF IInv, InterruptExact, TypeOK

LEMMA AccessKeeps ==
  ASSUME IInv, Access
  PROVE  IInv'
<1>0. /\ q \in Ring /\ tx \in Ring /\ out \in Values /\ line \in BOOLEAN /\ lost \in BOOLEAN
      /\ regs \in [sr : SUBSET StatusBits, ipisr : SUBSET IrqBits, ipier : SUBSET IrqBits,
                   ie : BOOLEAN, mti : BOOLEAN, selected : BOOLEAN]
      /\ RxExact /\ LossReported
  BY DEF IInv, TypeOK
<1>1. CASE xlnx_spi_do_reset
  <2>1. /\ q' \in Ring /\ tx' \in Ring /\ fifo_is_empty(q)' /\ ~fifo_is_full(q)'
        /\ fifo_is_empty(tx)' /\ ~fifo_is_full(tx)'
    BY <1>0, <1>1, Sizes DEF xlnx_spi_do_reset
  <2>2. TypeOK'
    BY Zenon, <1>0, <1>1, <2>1 DEF xlnx_spi_do_reset, ResetRegs, TypeOK, StatusBits, IrqBits, Begin
  <2>3. RxExact' /\ TxExact' /\ LossReported' /\ main' = "done"
    BY <1>1, <2>1 DEF xlnx_spi_do_reset, ResetRegs, RxExact, TxExact, LossReported, Begin
  <2> QED BY <2>2, <2>3, Begun
<1>2. ASSUME NEW data \in TxBytes, WriteDTR(data) PROVE IInv'
  <2>0. data \in Values /\ TxExact /\ main' \in {"done", "flush"}
    BY <1>2, SpiAssumption DEF WriteDTR, Begin, IInv
  <2>1. tx' \in Ring /\ ~fifo_is_empty(tx)' /\ (fifo_is_full(tx) => fifo_is_full(tx)')
    BY <1>0, <1>2, <2>0, PushSizes DEF WriteDTR
  <2>2. /\ UNCHANGED <<q, out, line, lost>>
        /\ regs' = [regs EXCEPT !.sr = (regs.sr \ {"TX_EMPTY"})
                      \union (IF fifo_is_full(tx)' THEN {"TX_FULL"} ELSE {})]
    BY <1>2 DEF WriteDTR, fifo_is_full
  <2>3. TypeOK'
    BY <1>0, <2>0, <2>1, <2>2 DEF TypeOK, StatusBits
  <2>4. RxExact' /\ LossReported'
    BY <1>0, <2>2 DEF RxExact, LossReported, fifo_is_full, fifo_is_empty
  <2>5. TxExact'
    BY <1>0, <2>0, <2>1, <2>2 DEF TxExact
  <2>6. FlushExact'
    BY <2>1 DEF FlushExact
  <2> QED BY <2>0, <2>3, <2>4, <2>5, <2>6, Begun
<1>3. ASSUME NEW rxReset \in BOOLEAN, NEW txReset \in BOOLEAN, NEW mti \in BOOLEAN,
             WriteCR(rxReset, txReset, mti)
      PROVE  IInv'
  <2> DEFINE sr1 == IF rxReset THEN rxfifo_reset(regs.sr) ELSE regs.sr
             sr2 == IF txReset THEN txfifo_reset(sr1) ELSE sr1
  <2>0. TxExact /\ main' \in {"done", "flush"} /\ UNCHANGED <<out, line, lost>>
    BY <1>3 DEF WriteCR, Begin, IInv
  <2>1. /\ q' = (IF rxReset THEN fifo_reset(q) ELSE q)
        /\ tx' = (IF txReset THEN fifo_reset(tx) ELSE tx)
        /\ regs' = [regs EXCEPT !.sr = sr2, !.mti = mti]
    BY <1>3 DEF WriteCR
  <2>2. /\ q' \in Ring /\ tx' \in Ring
        /\ rxReset => fifo_is_empty(q)' /\ ~fifo_is_full(q)'
        /\ txReset => fifo_is_empty(tx)' /\ ~fifo_is_full(tx)'
        /\ ~rxReset => q' = q
        /\ ~txReset => tx' = tx
    BY <1>0, <2>1, Sizes
  <2>3. sr2 \in SUBSET StatusBits
    BY <1>0 DEF rxfifo_reset, txfifo_reset, StatusBits
  <2>4. /\ "RX_FULL" \in sr2 <=> "RX_FULL" \in regs.sr /\ ~rxReset
        /\ "RX_EMPTY" \in sr2 <=> "RX_EMPTY" \in regs.sr \/ rxReset
        /\ "TX_FULL" \in sr2 <=> "TX_FULL" \in regs.sr /\ ~txReset
        /\ "TX_EMPTY" \in sr2 <=> "TX_EMPTY" \in regs.sr \/ txReset
    BY DEF rxfifo_reset, txfifo_reset
  <2> HIDE DEF sr1, sr2
  <2>5. TypeOK' /\ regs'.sr = sr2 /\ regs'.ipisr = regs.ipisr
    BY Zenon, <1>0, <2>0, <2>1, <2>2, <2>3 DEF TypeOK
  <2>6. RxExact' /\ TxExact' /\ LossReported'
    BY <1>0, <2>0, <2>2, <2>4, <2>5 DEF RxExact, TxExact, LossReported, fifo_is_full, fifo_is_empty
  <2>7. FlushExact'
    BY <2>2, <2>6, Sizes DEF FlushExact, TxExact, fifo_is_full, fifo_is_empty
  <2> QED BY <2>0, <2>5, <2>6, <2>7, Begun
<1>4. ASSUME NEW mask \in Masks, WriteIPISR(mask) PROVE IInv'
  <2>1. /\ main' = "done" /\ TxExact /\ mask \subseteq IrqBits /\ UNCHANGED <<q, out, tx, line>>
        /\ lost' = (lost /\ "DRR_OVERRUN" \notin mask)
        /\ regs' = [regs EXCEPT !.ipisr = (regs.ipisr \ mask) \union (mask \ regs.ipisr)]
    BY <1>4, SpiAssumption DEF WriteIPISR, Begin, IInv
  <2>2. TypeOK' /\ regs'.sr = regs.sr
    BY <1>0, <2>1 DEF TypeOK
  <2>3. RxExact' /\ TxExact'
    BY <1>0, <2>1, <2>2 DEF RxExact, TxExact, fifo_is_full, fifo_is_empty
  <2>4. LossReported'
    BY Zenon, <1>0, <2>1 DEF LossReported
  <2> QED BY <2>1, <2>2, <2>3, <2>4, Begun
<1>5. CASE \/ \E selected \in BOOLEAN : WriteSSR(selected)
           \/ \E mask \in Masks : WriteIPIER(mask)
           \/ \E ie \in BOOLEAN : WriteDGIER(ie)
           \/ OtherAccess
  <2>1. main' = "done" /\ TxExact /\ UNCHANGED <<q, out, tx, line, lost>>
    BY <1>5 DEF WriteSSR, WriteIPIER, WriteDGIER, OtherAccess, Begin, IInv
  <2>2. /\ regs' \in [sr : SUBSET StatusBits, ipisr : SUBSET IrqBits, ipier : SUBSET IrqBits,
                      ie : BOOLEAN, mti : BOOLEAN, selected : BOOLEAN]
        /\ regs'.sr = regs.sr /\ regs'.ipisr = regs.ipisr
    BY <1>0, <1>5, SpiAssumption DEF WriteSSR, WriteIPIER, WriteDGIER, OtherAccess
  <2>3. TypeOK'
    BY <1>0, <2>1, <2>2 DEF TypeOK
  <2>4. RxExact' /\ TxExact' /\ LossReported'
    BY <1>0, <2>1, <2>2 DEF RxExact, TxExact, LossReported, fifo_is_full, fifo_is_empty
  <2> QED BY <2>1, <2>3, <2>4, Begun
<1>6. CASE ReadDRR
  <2>1. main' = "done" /\ TxExact /\ UNCHANGED <<tx, line, lost>>
    BY <1>6 DEF ReadDRR, Begin, IInv
  <2>2. q' \in Ring /\ out' \in Values /\ ~fifo_is_full(q)' /\ ~fifo_is_empty(q)
    BY <1>0, <1>6, Sizes DEF ReadDRR
  <2>3. regs' = [regs EXCEPT !.sr = (regs.sr \ {"RX_FULL"})
                   \union (IF fifo_is_empty(q)' THEN {"RX_EMPTY"} ELSE {})]
    BY <1>6 DEF ReadDRR, fifo_is_empty
  <2>4. TypeOK' /\ regs'.ipisr = regs.ipisr
    BY <1>0, <2>1, <2>2, <2>3 DEF TypeOK, StatusBits
  <2>5. RxExact'
    BY <1>0, <2>2, <2>3 DEF RxExact
  <2>6. TxExact' /\ LossReported'
    BY <1>0, <2>1, <2>3, <2>4 DEF TxExact, LossReported, fifo_is_full, fifo_is_empty
  <2> QED BY <2>1, <2>4, <2>5, <2>6, Begun
<1> QED BY <1>1, <1>2, <1>3, <1>4, <1>5, <1>6 DEF Access

LEMMA FlushKeeps ==
  ASSUME IInv, NEW rx \in Values, FlushByte(rx)
  PROVE  IInv'
<1>0. /\ q \in Ring /\ tx \in Ring /\ out \in Values /\ line \in BOOLEAN /\ lost \in BOOLEAN
      /\ regs \in [sr : SUBSET StatusBits, ipisr : SUBSET IrqBits, ipier : SUBSET IrqBits,
                   ie : BOOLEAN, mti : BOOLEAN, selected : BOOLEAN]
      /\ RxExact /\ LossReported
  BY DEF IInv, TypeOK
<1> DEFINE overrun == fifo_is_full(q)
           fills == ~fifo_is_full(q) /\ fifo_is_full(q)'
           sr == (regs.sr \ {"RX_EMPTY", "TX_FULL"})
                   \union {"TX_EMPTY"} \union (IF fills THEN {"RX_FULL"} ELSE {})
           ipisr == regs.ipisr \union (IF overrun THEN {"DRR_OVERRUN"} ELSE {})
                      \union (IF fills THEN {"DRR_FULL"} ELSE {})
                      \union {"DTR_EMPTY", "DRR_NOT_EMPTY"}
<1>1. regs' = [regs EXCEPT !.sr = sr, !.ipisr = ipisr]
  BY DEF FlushByte, Answered, fifo_is_full
<1>2. /\ main' = "flush" /\ UNCHANGED <<out, line>> /\ lost' = (lost \/ overrun)
      /\ q' = fifo_push(q, rx) /\ tx' = fifo_pop(tx)
  BY DEF FlushByte
<1>3. /\ q' \in Ring /\ tx' \in Ring /\ ~fifo_is_empty(q)' /\ (overrun => q' = q)
  BY <1>0, <1>2, Sizes, PushSizes
<1>4. /\ sr \subseteq StatusBits /\ ipisr \subseteq IrqBits
      /\ "TX_EMPTY" \in sr /\ "TX_FULL" \notin sr /\ "RX_EMPTY" \notin sr
      /\ "RX_FULL" \in sr <=> "RX_FULL" \in regs.sr \/ fills
      /\ regs.ipisr \subseteq ipisr /\ (overrun => "DRR_OVERRUN" \in ipisr)
  BY <1>0 DEF StatusBits, IrqBits
<1> HIDE DEF sr, ipisr
<1>5. TypeOK' /\ regs'.sr = sr /\ regs'.ipisr = ipisr
  BY Zenon, <1>0, <1>1, <1>2, <1>3, <1>4 DEF TypeOK
<1>6. RxExact'
  BY <1>0, <1>3, <1>4, <1>5 DEF RxExact, fifo_is_full
<1>7. FlushExact' /\ LossReported'
  BY <1>0, <1>2, <1>4, <1>5 DEF FlushExact, LossReported
<1> QED BY <1>2, <1>5, <1>6, <1>7, Begun

LEMMA SpiStep ==
  ASSUME IInv, [Next]_vars
  PROVE  IInv'
<1>1. CASE UNCHANGED vars
  BY <1>1 DEF vars, IInv, TypeOK, RxExact, TxExact, FlushExact, InterruptExact, LossReported,
              fifo_is_full, fifo_is_empty
<1>2. CASE Access
  BY <1>2, AccessKeeps
<1>3. CASE \E rx \in Values : FlushByte(rx)
  BY <1>3, FlushKeeps
<1>4. CASE FlushEnd
  <2>1. TypeOK' /\ RxExact' /\ LossReported' /\ main' = "done"
    BY <1>4 DEF FlushEnd, IInv, TypeOK, RxExact, LossReported, fifo_is_full, fifo_is_empty
  <2>2. fifo_is_empty(tx) /\ ~fifo_is_full(tx) /\ FlushExact
    BY <1>4, Sizes DEF FlushEnd, IInv, TypeOK
  <2>3. TxExact'
    BY <1>4, <2>2 DEF FlushEnd, FlushExact, TxExact, fifo_is_full, fifo_is_empty
  <2> QED BY <2>1, <2>3, Begun
<1>5. CASE Done
  BY <1>5, UpdateIrq DEF Done
<1>6. CASE Timer
  BY <1>6, UpdateIrq DEF Timer, IInv, TypeOK
<1> QED BY <1>1, <1>2, <1>3, <1>4, <1>5, <1>6 DEF Next, Continue

-----------------------------------------------------------------------------
(* Theorems *)

\* The registers, fifos and line keep their types under every access and signal.
THEOREM SpiTypeCorrect == Spec => []TypeOK
<1>1. IInv => TypeOK
  BY DEF IInv
<1> QED BY <1>1, SpiInit, SpiStep, PTL DEF Spec

\* SPISR is exact between accesses (WriteDTR, WriteCR, ReadDRR, spi_flush_txfifo).
THEOREM StatusCorrect == Spec => []StatusExact
<1>1. IInv => StatusExact
  BY DEF IInv, StatusExact, TxExact, RxExact
<1> QED BY <1>1, SpiInit, SpiStep, PTL DEF Spec

\* The interrupt line and IPISR are exact between accesses (xlnx_spi_update_irq).
THEOREM InterruptCorrect == Spec => []InterruptExact
<1>1. IInv => InterruptExact
  BY DEF IInv
<1> QED BY <1>1, SpiInit, SpiStep, PTL DEF Spec

\* A dropped answer is reported (spi_flush_txfifo).
THEOREM LossCorrect == Spec => []LossReported
<1>1. IInv => LossReported
  BY DEF IInv
<1> QED BY <1>1, SpiInit, SpiStep, PTL DEF Spec

\* The receive fifo of the controller is a bounded first-in first-out queue,
\* through every access, flush and reset.
THEOREM SpiImplementsQueue == Spec => ImplementsQueue
<1>1. TypeOK => RingOK
  BY DEF TypeOK, RingOK
<1>2. IInv => TypeOK
  BY DEF IInv
<1> QED BY <1>1, <1>2, SpiInit, SpiStep, StepIsRingStep, FifoInit, FifoStep, PTL
        DEF Spec, ImplementsQueue, Queue!Spec
=============================================================================
