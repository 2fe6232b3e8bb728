---------------------------- MODULE BoundedFifo ----------------------------
(***************************************************************************)
(* What the firmware's RingBuffer promises: a queue of at most Capacity    *)
(* readings that gives up its oldest one for a new one, and that is        *)
(* emptied by a restart only.                                              *)
(***************************************************************************)
EXTENDS Naturals, Sequences

CONSTANTS Capacity, Elements

VARIABLE queue

Init == queue = <<>>

Put(r) == queue' = IF Len(queue) < Capacity THEN Append(queue, r) ELSE Append(Tail(queue), r)

Get == queue # <<>> /\ queue' = Tail(queue)

\* an element that could not be sent is put back behind the others
Requeue == queue # <<>> /\ queue' = Append(Tail(queue), Head(queue))

Restart == queue' = <<>>

Next == (\E r \in Elements : Put(r)) \/ Get \/ Requeue \/ Restart

Spec == Init /\ [][Next]_queue
===========================================================================
