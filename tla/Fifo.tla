-------------------------------- MODULE Fifo --------------------------------
(***************************************************************************)
(* The ring of include/utils/fifo.h, used by the serial line, the keyboard, *)
(* the SPI controller and the network.                                      *)
(***************************************************************************)
EXTENDS Integers, Sequences

CONSTANTS
  Capacity,  \* fifo_capacity(q), 1024 in the devices
  Values,    \* what a fifo holds
  Zero       \* what a static array holds at first

ASSUME FifoAssumption == Capacity \in Nat \ {0} /\ Zero \in Values

Ring == [head : 0 .. Capacity - 1, size : 0 .. Capacity, e : [0 .. Capacity - 1 -> Values]]

EmptyRing == [head |-> 0, size |-> 0, e |-> [i \in 0 .. Capacity - 1 |-> Zero]]

fifo_is_empty(q) == q.size = 0
fifo_is_full(q) == q.size = Capacity
fifo_top(q) == q.e[q.head]
fifo_reset(q) == [q EXCEPT !.head = 0, !.size = 0]

\* Mutant: the new value goes to the slot after the last one.
fifo_push_OffByOne(q, ch) ==
  LET next == (q.head + q.size + 1) % Capacity
  IN IF q.size < Capacity
     THEN [head |-> q.head, size |-> q.size + 1, e |-> [q.e EXCEPT ![next] = ch]]
     ELSE q

fifo_push(q, ch) ==
  LET next == (q.head + q.size) % Capacity
  IN IF q.size < Capacity
     THEN [head |-> q.head, size |-> q.size + 1, e |-> [q.e EXCEPT ![next] = ch]]
     ELSE q

\* Mutant: the head does not wrap.
fifo_pop_NoWrap(q) ==
  IF q.size > 0
  THEN [head |-> q.head + 1, size |-> q.size - 1, e |-> q.e]
  ELSE q

\* The ring after a pop; the value is fifo_top of the ring before.
fifo_pop(q) ==
  IF q.size > 0
  THEN [head |-> (q.head + 1) % Capacity, size |-> q.size - 1, e |-> q.e]
  ELSE q

\* The values in the order fifo_foreach visits them.
fifo_foreach(q) == [i \in 1 .. q.size |-> q.e[(q.head + i - 1) % Capacity]]

-----------------------------------------------------------------------------
(* A fifo with one user *)

VARIABLES
  q,
  out  \* the value the last pop returned

ringVars == <<q, out>>

RingPush(v) == q' = fifo_push(q, v) /\ UNCHANGED out
RingPop == out' = fifo_top(q) /\ q' = fifo_pop(q)
RingReset == q' = fifo_reset(q) /\ UNCHANGED out

RingInit == q = EmptyRing /\ out = Zero
RingNext == (\E v \in Values : RingPush(v)) \/ RingPop \/ RingReset
RingSpec == RingInit /\ [][RingNext]_ringVars

-----------------------------------------------------------------------------
(* Properties *)

\* Type invariant: head names a slot and size is within the capacity.
RingOK == q \in Ring /\ out \in Values

\* The ring holds the queue: what fifo_foreach visits.
Queue == INSTANCE BoundedQueue WITH items <- fifo_foreach(q)

\* A fifo delivers what was pushed, in the order it was pushed, once, and drops
\* only what does not fit (fifo_push, fifo_pop and fifo_reset at every position
\* of head).
ImplementsQueue == Queue!Spec
=============================================================================
