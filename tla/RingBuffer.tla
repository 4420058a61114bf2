----------------------------- MODULE RingBuffer ----------------------------
(***************************************************************************)
(* circular_buffer<T, Capacity> of async/detail/circular_buffer.hpp: raw     *)
(* storage for Capacity objects, the index of the first, the index behind    *)
(* the last, and their number.  A slot without an object holds Raw.          *)
(*                                                                         *)
(* The specialisation for one object keeps a flag, which is m_size here.     *)
(***************************************************************************)
EXTENDS Integers, Sequences

CONSTANTS Capacity, Value, Raw

ASSUME CapacityAssumption == Capacity \in Nat \ {0}
ASSUME RawAssumption == Raw \notin Value

VARIABLES m_first, m_last, m_size, m_value

ring == <<m_first, m_last, m_size, m_value>>

Index == 0 .. Capacity - 1

next(i) == IF i + 1 = Capacity THEN 0 ELSE i + 1

RingInit ==
    /\ m_first = 0 /\ m_last = 0 /\ m_size = 0
    /\ m_value = [i \in Index |-> Raw]

empty == m_size = 0
full  == m_size = Capacity
front == m_value[m_first]

(* Mutant: the index behind the last wraps one slot late.                    *)
PushBackLate(v) ==
    /\ m_size < Capacity
    /\ m_value' = [m_value EXCEPT ![m_last] = v]
    /\ m_last' = IF m_last = Capacity THEN 0 ELSE m_last + 1
    /\ m_size' = m_size + 1
    /\ UNCHANGED m_first

(* push_back asserts that there is room: callers ask full() first.           *)
PushBack(v) ==
    /\ m_size < Capacity
    /\ m_value' = [m_value EXCEPT ![m_last] = v]
    /\ m_last' = next(m_last)
    /\ m_size' = m_size + 1
    /\ UNCHANGED m_first

(* Mutant: the object that was moved out of is not destroyed.                *)
PopFrontKeeps ==
    /\ m_size > 0
    /\ m_first' = next(m_first)
    /\ m_size' = m_size - 1
    /\ UNCHANGED <<m_last, m_value>>

(* front() is moved out of by the caller; pop_front destroys the object.     *)
PopFront ==
    /\ m_size > 0
    /\ m_value' = [m_value EXCEPT ![m_first] = Raw]
    /\ m_first' = next(m_first)
    /\ m_size' = m_size - 1
    /\ UNCHANGED m_last

RingNext == PopFront \/ \E v \in Value : PushBack(v)
RingSpec == RingInit /\ [][RingNext]_ring
-----------------------------------------------------------------------------
(* Where the object is that has i before it.                                 *)
Place(i) == IF m_first + i >= Capacity THEN m_first + i - Capacity ELSE m_first + i

RingTypeOK ==
    /\ m_first \in Index /\ m_last \in Index
    /\ m_size \in 0 .. Capacity
    /\ m_value \in [Index -> Value \cup {Raw}]

(* The indices agree with the count, and an object lives in a slot exactly   *)
(* when the count says so: nothing is constructed over an object, destroyed  *)
(* twice, or read where there is none.                                       *)
Offset(j) == IF j >= m_first THEN j - m_first ELSE j - m_first + Capacity
SlotsAgree ==
    /\ m_last = Place(m_size)
    /\ \A j \in Index : m_value[j] # Raw <=> Offset(j) < m_size

Contents == [i \in 1 .. m_size |-> m_value[Place(i - 1)]]

(* The buffer is a bounded first-in first-out queue.                         *)
Fifo == INSTANCE BoundedFifo WITH queue <- Contents
ImplementsFifo == Fifo!FifoSpec
=============================================================================
