---------------------------- MODULE BoundedFifo ----------------------------
(***************************************************************************)
(* What a circular_buffer promises: a queue of at most Capacity values.      *)
(***************************************************************************)
EXTENDS Integers, Sequences

CONSTANTS Capacity, Value

VARIABLE queue

FifoInit == queue = <<>>

PushBack(v) == Len(queue) < Capacity /\ queue' = Append(queue, v)

PopFront == queue # <<>> /\ queue' = Tail(queue)

FifoNext == PopFront \/ \E v \in Value : PushBack(v)

FifoSpec == FifoInit /\ [][FifoNext]_queue
=============================================================================
