---------------------------- MODULE LossyQueue -----------------------------
(***************************************************************************)
(* What a sink cache promises while a rule runs: a first-in, first-out     *)
(* queue that gives up its oldest items, and only those, when it is full,  *)
(* and that gives up no more of them than makes room for one page.         *)
(***************************************************************************)
EXTENDS Integers, SequencesExt

CONSTANTS
    Item,       \* what may be queued
    Capacity,   \* items held before the oldest may be given up
    Page        \* items that are given up at a time

VARIABLES queue, running

vars == <<queue, running>>

Init == queue = <<>> /\ running = TRUE

Put == queue' # <<>> /\ Last(queue') \in Item /\ Front(queue') = queue

PutWhenFull ==
    /\ Len(queue) >= Capacity
    /\ queue' # <<>> /\ Last(queue') \in Item
    /\ \E n \in 1..(Len(queue) - Capacity + Page) :
           Front(queue') = SubSeq(queue, n + 1, Len(queue))

Take ==
    /\ queue # <<>>
    /\ queue' = Tail(queue)

\* Nothing is promised once the rule has stopped.
End == running' = FALSE /\ queue' = <<>>

Next ==
    /\ running
    /\ \/ /\ Take \/ Put \/ PutWhenFull
          /\ UNCHANGED running
       \/ End

Spec == Init /\ [][Next]_vars
=============================================================================
