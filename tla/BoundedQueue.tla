---------------------------- MODULE BoundedQueue ----------------------------
(***************************************************************************)
(* What the fifos of the devices promise: a first-in first-out queue of at  *)
(* most Capacity values.  A push on a full queue is dropped, a pop on an    *)
(* empty one returns some value and changes nothing.                        *)
(***************************************************************************)
EXTENDS Naturals, Sequences

CONSTANTS Capacity, Values

VARIABLES
  items,  \* the queue, oldest value first
  out     \* the value the last pop returned

Push(v) ==
  /\ items' = IF Len(items) < Capacity THEN Append(items, v) ELSE items
  /\ UNCHANGED out

Pop ==
  \/ /\ items # <<>>
     /\ out' = Head(items)
     /\ items' = Tail(items)
  \/ /\ items = <<>>
     /\ out' \in Values
     /\ UNCHANGED items

Reset ==
  /\ items' = <<>>
  /\ UNCHANGED out

Init == items = <<>> /\ out \in Values

Next == (\E v \in Values : Push(v)) \/ Pop \/ Reset

Spec == Init /\ [][Next]_<<items, out>>
=============================================================================
