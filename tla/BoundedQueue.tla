---------------------------- MODULE BoundedQueue ----------------------------
(***************************************************************************)
(* What the input and control channels promise: a bounded FIFO queue.  The *)
(* consumer process puts events, the host takes them; nothing is lost,     *)
(* duplicated or reordered, and never more than Capacity events wait.      *)
(* SpscRing is the shared-memory ring that implements it.                  *)
(***************************************************************************)
EXTENDS Naturals, Sequences

CONSTANTS Events,    \* the events a producer may put
          Capacity,  \* the number of events that may wait
          NoEvent    \* "nothing taken yet"

VARIABLES queue,     \* the events waiting, oldest first
          taken      \* the event taken last

vars == <<queue, taken>>

Init ==
    /\ queue = <<>>
    /\ taken = NoEvent

Put(e) ==
    /\ Len(queue) < Capacity
    /\ queue' = Append(queue, e)
    /\ UNCHANGED taken

Take ==
    /\ queue # <<>>
    /\ taken' = Head(queue)
    /\ queue' = Tail(queue)

Next == Take \/ \E e \in Events : Put(e)

Spec == Init /\ [][Next]_vars
=============================================================================
