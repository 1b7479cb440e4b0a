----------------------------- MODULE BoundedFIFO -----------------------------
(***************************************************************************)
(* What the queues of task2/2.2 promise their callers: a bounded buffer    *)
(* that hands each value out once, in the order in which it was put.       *)
(***************************************************************************)
EXTENDS Integers, Sequences

CONSTANTS
  Capacity,    \* the most values the buffer holds
  Values,      \* what can be put
  Takers,      \* who takes
  Nothing      \* what a taker holds before its first value

VARIABLES
  items,       \* the values in the buffer, oldest first
  taken        \* the value each taker received last

Init ==
  /\ items = <<>>
  /\ taken = [t \in Takers |-> Nothing]

Put(v) ==
  /\ Len(items) < Capacity
  /\ items' = Append(items, v)
  /\ UNCHANGED taken

Take(t) ==
  /\ items # <<>>
  /\ taken' = [taken EXCEPT ![t] = Head(items)]
  /\ items' = Tail(items)

Next == (\E v \in Values : Put(v)) \/ (\E t \in Takers : Take(t))

Spec == Init /\ [][Next]_<<items, taken>>

=============================================================================
