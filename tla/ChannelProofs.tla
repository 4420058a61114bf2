---------------------------- MODULE ChannelProofs --------------------------
(***************************************************************************)
(* Proofs about the channel and about the buffer in it, which is a bounded     *)
(* queue: for every capacity, any number of operations and any number of      *)
(* copies of the channel object.                                             *)
(***************************************************************************)
EXTENDS Channel, FiniteSetTheorems, TLAPS

USE CapacityAssumption, RawAssumption

RingInv == RingTypeOK /\ SlotsAgree

(* The invariant is established.                                            *)
LEMMA RingInitInv == RingInit => RingInv
BY DEF RingInit, RingInv, RingTypeOK, SlotsAgree, Place, Offset, Index

(* Pushing fills the slot behind the last and leaves the others.             *)
LEMMA PushKeeps ==
  ASSUME RingInv, NEW v \in Value, PushBack(v)
  PROVE  RingInv' /\ Contents' = Append(Contents, v)
<1> USE DEF RingInv, RingTypeOK, Index
<1>1. RingTypeOK'
  BY DEF PushBack, next
<1>2. SlotsAgree'
  BY DEF SlotsAgree, PushBack, Place, Offset, next
<1>3. \A i \in 0 .. m_size : /\ Place(i) \in Index
                             /\ Place(i)' = Place(i)
                             /\ i < m_size => Place(i) # m_last
  BY DEF PushBack, Place, SlotsAgree
<1>4. Contents' = Append(Contents, v)
  <2>1. Contents' = [i \in 1 .. m_size + 1 |-> m_value'[Place(i - 1)]]
    BY <1>3 DEF Contents, PushBack
  <2>2. \A i \in 1 .. m_size : m_value'[Place(i - 1)] = m_value[Place(i - 1)]
    BY <1>3 DEF PushBack
  <2>3. m_value'[Place(m_size)] = v
    BY DEF PushBack, SlotsAgree
  <2>4. Contents \in Seq(Value \cup {Raw}) /\ Len(Contents) = m_size
    BY <1>3 DEF Contents
  <2>5. /\ Contents' \in Seq(Value \cup {Raw}) /\ Len(Contents') = m_size + 1
        /\ \A i \in 1 .. m_size : Contents'[i] = Contents[i]
        /\ Contents'[m_size + 1] = v
    <3>1. Contents = [i \in 1 .. m_size |-> m_value[Place(i - 1)]]
      BY DEF Contents
    <3>2. \A i \in 1 .. m_size + 1 : m_value'[Place(i - 1)] \in Value \cup {Raw}
      BY <1>1, <1>3
    <3>3. m_size \in Nat
      OBVIOUS
    <3>4. Contents' \in Seq(Value \cup {Raw}) /\ Len(Contents') = m_size + 1
      BY <2>1, <3>2, <3>3
    <3>5. \A i \in 1 .. m_size : Contents'[i] = Contents[i]
      BY <2>1, <2>2, <3>1, <3>3
    <3>6. Contents'[m_size + 1] = v
      <4>1. m_size + 1 \in 1 .. m_size + 1 /\ (m_size + 1) - 1 = m_size
        BY <3>3
      <4>2. Contents'[m_size + 1] = m_value'[Place((m_size + 1) - 1)]
        BY <2>1, <4>1
      <4> QED
        BY <2>3, <4>1, <4>2
    <3> QED
      BY <3>4, <3>5, <3>6
  <2> QED
    BY <2>4, <2>5
<1> QED
  BY <1>1, <1>2, <1>4

(* Popping empties the first slot and leaves the others.                     *)
LEMMA PopKeeps ==
  ASSUME RingInv, PopFront
  PROVE  RingInv' /\ Contents # <<>> /\ front = Head(Contents) /\ Contents' = Tail(Contents)
<1> USE DEF RingInv, RingTypeOK, Index
<1>1. RingTypeOK'
  BY DEF PopFront, next
<1>2. SlotsAgree'
  BY DEF SlotsAgree, PopFront, Place, Offset, next
<1>3. \A i \in 0 .. m_size - 1 : Place(i) \in Index
  BY DEF Place
<1>4. \A i \in 1 .. m_size - 1 : Place(i - 1)' = Place(i) /\ Place(i) # m_first
  BY DEF PopFront, Place, next
<1>5. Contents # <<>> /\ front = Head(Contents) /\ Contents' = Tail(Contents)
  <2>1. Place(0) = m_first
    BY DEF Place
  <2>2. Contents' = [i \in 1 .. m_size - 1 |-> m_value'[Place(i)]]
    BY <1>4 DEF Contents, PopFront
  <2>3. \A i \in 1 .. m_size - 1 : m_value'[Place(i)] = m_value[Place(i)]
    BY <1>3, <1>4 DEF PopFront
  <2>4. Contents \in Seq(Value \cup {Raw}) /\ Len(Contents) = m_size /\ m_size > 0
    BY <1>3 DEF Contents, PopFront
  <2>5. /\ Contents' \in Seq(Value \cup {Raw}) /\ Len(Contents') = m_size - 1
        /\ \A i \in 1 .. m_size - 1 : Contents'[i] = Contents[i + 1]
    <3>1. Contents = [i \in 1 .. m_size |-> m_value[Place(i - 1)]]
      BY DEF Contents
    <3>2. \A i \in 1 .. m_size - 1 : m_value'[Place(i)] \in Value \cup {Raw}
      BY <1>1, <1>3
    <3>3. m_size \in Nat
      OBVIOUS
    <3>4. Contents' \in Seq(Value \cup {Raw}) /\ Len(Contents') = m_size - 1
      BY <2>2, <2>4, <3>2, <3>3
    <3>5. \A i \in 1 .. m_size - 1 : Contents'[i] = Contents[i + 1]
      BY <2>2, <2>3, <3>1, <3>3
    <3> QED
      BY <3>4, <3>5
  <2>6. Contents[1] = front
    BY <2>1, <2>4 DEF Contents, front
  <2> QED
    BY <2>4, <2>5, <2>6
<1> QED
  BY <1>1, <1>2, <1>5

(* Every step keeps the invariant.                                          *)
LEMMA RingStep == RingInv /\ [RingNext]_ring => RingInv'
<1> SUFFICES ASSUME RingInv, [RingNext]_ring PROVE RingInv'
  OBVIOUS
<1>1. CASE PopFront
  BY <1>1, PopKeeps
<1>2. ASSUME NEW v \in Value, PushBack(v) PROVE RingInv'
  BY <1>2, PushKeeps
<1>3. CASE UNCHANGED ring
  BY <1>3 DEF ring, RingInv, RingTypeOK, SlotsAgree, Offset, Place
<1> QED
  BY <1>1, <1>2, <1>3 DEF RingNext

(* An object is in a slot exactly when the count and the first index say so. *)
THEOREM SlotsCorrect == RingSpec => []SlotsAgree
<1>1. RingInv => SlotsAgree
  BY DEF RingInv
<1> QED
  BY <1>1, RingInitInv, RingStep, PTL DEF RingSpec

(* circular_buffer implements the bounded queue, whatever its capacity.      *)
THEOREM RingIsFifo == RingSpec => ImplementsFifo
<1>1. RingInit => Fifo!FifoInit
  BY DEF RingInit, Fifo!FifoInit, Contents
<1>2. RingInv /\ [RingNext]_ring => [Fifo!FifoNext]_Contents
  <2> SUFFICES ASSUME RingInv, [RingNext]_ring PROVE [Fifo!FifoNext]_Contents
    OBVIOUS
  <2>1. CASE PopFront
    BY <2>1, PopKeeps DEF Fifo!FifoNext, Fifo!PopFront
  <2>2. ASSUME NEW v \in Value, PushBack(v) PROVE Fifo!FifoNext
    <3>1. Len(Contents) < Capacity
      BY <2>2 DEF PushBack, Contents, RingInv, RingTypeOK
    <3> QED
      BY <2>2, <3>1, PushKeeps DEF Fifo!FifoNext, Fifo!PushBack
  <2>3. CASE UNCHANGED ring
    BY <2>3 DEF ring, Contents, Place
  <2> QED
    BY <2>1, <2>2, <2>3 DEF RingNext
<1> QED
  BY <1>1, <1>2, RingInitInv, RingStep, PTL DEF RingSpec, ImplementsFifo, Fifo!FifoSpec
-----------------------------------------------------------------------------
HIDE CapacityAssumption
HIDE RawAssumption
USE ReceivesAssumption DEF round, chan

(* A step of the channel is a step of its buffer or leaves the buffer alone. *)
LEMMA ChannelStepsRing ==
  ASSUME [ChannelNext]_chan
  PROVE  [RingNext]_ring
<1>1. ASSUME NEW v \in Value, SendNow(v) \/ SendLater(v) \/ PrepareSend(v) \/ FinishSend(v)
      PROVE  [RingNext]_ring
  BY <1>1 DEF RingNext, SendNow, SendLater, PrepareSend, FinishSend
<1>2. ASSUME NEW r \in Receives,
             ReceiveNow(r) \/ ReceiveLater(r) \/ PrepareReceive(r) \/ FinishReceive(r)
      PROVE  [RingNext]_ring
  BY <1>2 DEF RingNext, ReceiveNow, ReceiveLater, PrepareReceive, FinishReceive
<1>3. ASSUME NEW o \in Ops, Cancel(o) \/ CancelAndWait(o)
      PROVE  [RingNext]_ring
  BY <1>3 DEF Cancel, CancelAndWait
<1>4. CASE \/ CopyChannel \/ DestroyChannel
           \/ StartRound \/ EndPrepare \/ EndFinish \/ PollReturns
  BY <1>4 DEF CopyChannel, DestroyChannel, StartRound, EndPrepare, EndFinish, PollReturns
<1>5. CASE UNCHANGED chan
  BY <1>5
<1> QED
  BY <1>1, <1>2, <1>3, <1>4, <1>5 DEF ChannelNext, Calls, Round

(* The ring's invariant holds of the channel's.                             *)
LEMMA ChannelRingInv == ChannelSpec => []RingInv
<1>1. ChannelInit => RingInv
  BY RingInitInv DEF ChannelInit
<1>2. RingInv /\ [ChannelNext]_chan => RingInv'
  BY ChannelStepsRing, RingStep
<1> QED
  BY <1>1, <1>2, PTL DEF ChannelSpec

(* What goes through a channel leaves it in the order in which it came in,   *)
(* and never more than Capacity values are under way.                        *)
THEOREM ChannelIsFifo == ChannelSpec => ImplementsFifo
<1>1. ChannelInit => RingInit
  BY DEF ChannelInit
<1>2. [ChannelNext]_chan => [RingNext]_ring
  BY ChannelStepsRing
<1>3. ChannelSpec => RingSpec
  BY <1>1, <1>2, PTL DEF ChannelSpec, RingSpec
<1> QED
  BY <1>3, RingIsFifo
-----------------------------------------------------------------------------
(* Who has a value: exactly the receives whose task has moved one.           *)
Types ==
    /\ state \in [Ops -> OpState]
    /\ got \in [Receives -> Value \cup {Raw}]
    /\ todo \subseteq Ops
    /\ phase \in {"calls", "prepare", "finish", "poll"}
GotInv ==
    \A r \in Receives :
        /\ state[r] \in {"new", "waiting", "cut", "failed"} => got[r] = Raw
        /\ state[r] \in {"moved", "moved_cut", "done"} => got[r] # Raw

(* While no task has called set_finished in this round, those that were      *)
(* asked had nothing to do and nothing has changed since.                    *)
Quiet == \A o \in Ops : state[o] \notin {"cut", "moved", "moved_cut"}
AskedInv ==
    /\ phase \in {"prepare", "poll"} /\ Quiet =>
        /\ ~empty => \A r \in Receives : state[r] = "waiting" => r \in todo
        /\ ~full => \A v \in Value : state[v] = "waiting" => v \in todo
    /\ phase = "poll" => todo = {} /\ Quiet
    /\ phase = "finish" => \A o \in todo : state[o] \in {"cut", "moved", "moved_cut"}

(* The front of a ring that is not empty is a value.                        *)
LEMMA FrontIsValue ==
  ASSUME RingInv, ~empty
  PROVE  front \in Value
BY DEF RingInv, RingTypeOK, SlotsAgree, empty, front, Offset, Index

(* Nothing is finished when no operation has its result.                    *)
LEMMA QuietFinished == (Quiet <=> Finished = {}) /\ Finished = {o \in Ops : state[o] \in {"cut", "moved", "moved_cut"}}
<1>1. Finished = {o \in Ops : state[o] \in {"cut", "moved", "moved_cut"}}
  BY DEF Finished, Pending
<1> QED
  BY <1>1 DEF Quiet

(* The invariant is established.                                            *)
LEMMA ChannelInitInv == ChannelInit => Types /\ GotInv /\ AskedInv
BY DEF ChannelInit, Types, GotInv, AskedInv, Ops, OpState, Pending

(* What was received: every step keeps it.                                  *)
LEMMA GotStep ==
  ASSUME RingInv, Types, GotInv, AskedInv, [ChannelNext]_chan
  PROVE  (Types /\ GotInv)'
<1> USE DEF Types, GotInv, Ops, OpState, Pending
<1>1. ASSUME NEW v \in Value, SendNow(v) PROVE (Types /\ GotInv)'
  BY <1>1 DEF SendNow
<1>2. ASSUME NEW v \in Value, SendLater(v) PROVE (Types /\ GotInv)'
  BY <1>2 DEF SendLater
<1>3. ASSUME NEW v \in Value, PrepareSend(v) PROVE (Types /\ GotInv)'
  BY <1>3 DEF PrepareSend
<1>4. ASSUME NEW v \in Value, FinishSend(v) PROVE (Types /\ GotInv)'
  BY <1>4 DEF FinishSend
<1>5. ASSUME NEW r \in Receives, ReceiveNow(r) PROVE (Types /\ GotInv)'
  BY <1>5, FrontIsValue, RawAssumption DEF ReceiveNow
<1>6. ASSUME NEW r \in Receives, ReceiveLater(r) PROVE (Types /\ GotInv)'
  BY <1>6 DEF ReceiveLater
<1>7. ASSUME NEW r \in Receives, PrepareReceive(r) PROVE (Types /\ GotInv)'
  BY <1>7, FrontIsValue, RawAssumption DEF PrepareReceive
<1>8. ASSUME NEW r \in Receives, FinishReceive(r) PROVE (Types /\ GotInv)'
  BY <1>8 DEF FinishReceive, AskedInv
<1>9. ASSUME NEW o \in Ops, Cancel(o) PROVE (Types /\ GotInv)'
  BY <1>9 DEF Cancel, Holding
<1>10. ASSUME NEW o \in Ops, CancelAndWait(o) PROVE (Types /\ GotInv)'
  BY <1>10 DEF CancelAndWait
<1>11. CASE CopyChannel
  BY <1>11 DEF CopyChannel
<1>12. CASE DestroyChannel
  BY <1>12 DEF DestroyChannel
<1>13. CASE StartRound
  BY <1>13 DEF StartRound
<1>14. CASE EndPrepare
  BY <1>14 DEF EndPrepare, Finished
<1>15. CASE EndFinish
  BY <1>15 DEF EndFinish
<1>16. CASE PollReturns
  BY <1>16 DEF PollReturns
<1>17. CASE UNCHANGED chan
  BY <1>17 DEF ring
<1> QED
  BY <1>1, <1>2, <1>3, <1>4, <1>5, <1>6, <1>7, <1>8, <1>9,
     <1>10, <1>11, <1>12, <1>13, <1>14, <1>15, <1>16, <1>17
  DEF ChannelNext, Calls, Round

(* What the round has asked: every step keeps it.                           *)
LEMMA AskedStep ==
  ASSUME RingInv, Types, AskedInv, [ChannelNext]_chan
  PROVE  AskedInv'
<1> USE DEF Types, AskedInv, Ops, OpState, Pending, Quiet, Calling, empty, full
<1>1. ASSUME NEW v \in Value, SendNow(v) PROVE AskedInv'
  BY <1>1 DEF SendNow
<1>2. ASSUME NEW v \in Value, SendLater(v) PROVE AskedInv'
  BY <1>2 DEF SendLater
<1>3. ASSUME NEW v \in Value, PrepareSend(v) PROVE AskedInv'
  <2>1. CASE state[v] = "waiting" /\ ~full
    <3>1. state'[v] = "moved" /\ v \in Ops /\ phase' = "prepare"
      BY <1>3, <2>1 DEF PrepareSend
    <3> QED
      BY <3>1
  <2>2. CASE ~(state[v] = "waiting" /\ ~full)
    <3>1. UNCHANGED <<ring, state, phase>> /\ todo' = todo \ {v} /\ phase = "prepare"
      BY <1>3, <2>2 DEF PrepareSend
    <3> QED
      BY <2>2, <3>1 DEF ring
  <2> QED
    BY <2>1, <2>2
<1>4. ASSUME NEW v \in Value, FinishSend(v) PROVE AskedInv'
  BY <1>4 DEF FinishSend, Holding
<1>5. ASSUME NEW r \in Receives, ReceiveNow(r) PROVE AskedInv'
  BY <1>5 DEF ReceiveNow
<1>6. ASSUME NEW r \in Receives, ReceiveLater(r) PROVE AskedInv'
  BY <1>6 DEF ReceiveLater
<1>7. ASSUME NEW r \in Receives, PrepareReceive(r) PROVE AskedInv'
  <2>1. CASE state[r] = "waiting" /\ ~empty
    <3>1. state'[r] = "moved" /\ r \in Ops /\ phase' = "prepare"
      BY <1>7, <2>1 DEF PrepareReceive
    <3> QED
      BY <3>1
  <2>2. CASE ~(state[r] = "waiting" /\ ~empty)
    <3>1. UNCHANGED <<ring, state, phase>> /\ todo' = todo \ {r} /\ phase = "prepare"
      BY <1>7, <2>2 DEF PrepareReceive
    <3> QED
      BY <2>2, <3>1 DEF ring
  <2> QED
    BY <2>1, <2>2
<1>8. ASSUME NEW r \in Receives, FinishReceive(r) PROVE AskedInv'
  BY <1>8 DEF FinishReceive, Holding
<1>9. ASSUME NEW o \in Ops, Cancel(o) PROVE AskedInv'
  BY <1>9 DEF Cancel, Holding
<1>10. ASSUME NEW o \in Ops, CancelAndWait(o) PROVE AskedInv'
  BY <1>10 DEF CancelAndWait
<1>11. CASE CopyChannel
  BY <1>11 DEF CopyChannel
<1>12. CASE DestroyChannel
  BY <1>12 DEF DestroyChannel
<1>13. CASE StartRound
  BY <1>13 DEF StartRound
<1>14. CASE EndPrepare
  <2>1. phase = "prepare" /\ todo = {} /\ todo' = Finished /\ UNCHANGED <<ring, state>>
    BY <1>14 DEF EndPrepare, ring
  <2>2. CASE Quiet
    <3>1. phase' = "poll" /\ todo' = {}
      BY <1>14, <2>2, QuietFinished DEF EndPrepare
    <3> QED
      BY <2>1, <2>2, <3>1 DEF ring
  <2>3. CASE ~Quiet
    <3>1. phase' = "finish"
      BY <1>14, <2>3, QuietFinished DEF EndPrepare
    <3> QED
      BY <2>1, <3>1, QuietFinished
  <2> QED
    BY <2>2, <2>3
<1>15. CASE EndFinish
  BY <1>15 DEF EndFinish
<1>16. CASE PollReturns
  BY <1>16 DEF PollReturns
<1>17. CASE UNCHANGED chan
  BY <1>17 DEF ring
<1> QED
  BY <1>1, <1>2, <1>3, <1>4, <1>5, <1>6, <1>7, <1>8, <1>9,
     <1>10, <1>11, <1>12, <1>13, <1>14, <1>15, <1>16, <1>17
  DEF ChannelNext, Calls, Round

(* The invariant always holds.                                              *)
LEMMA ChannelInvariance == ChannelSpec => [](Types /\ GotInv /\ AskedInv)
<1>1. RingInv /\ Types /\ GotInv /\ AskedInv /\ [ChannelNext]_chan
        => (Types /\ GotInv /\ AskedInv)'
  BY GotStep, AskedStep
<1> QED
  BY <1>1, ChannelInitInv, ChannelRingInv, PTL DEF ChannelSpec

(* A completed receive has a value; one that reports its cancellation has    *)
(* taken none out of the buffer.                                             *)
THEOREM ReceiveTruth == ChannelSpec => []ReceiveTellsTruth
<1>1. GotInv => ReceiveTellsTruth
  BY DEF GotInv, ReceiveTellsTruth
<1> QED
  BY <1>1, ChannelInvariance, PTL

(* The runner never polls over a send or a receive that could go on.         *)
THEOREM Rendezvous == ChannelSpec => []NoMissedRendezvous
<1>1. AskedInv => NoMissedRendezvous
  BY DEF AskedInv, NoMissedRendezvous
<1> QED
  BY <1>1, ChannelInvariance, PTL
-----------------------------------------------------------------------------
(* The references.                                                           *)
Holders == {o \in Ops : Holding(o)}

(* Only finitely many operations have a reference, as many as are counted.   *)
RefInv ==
    /\ handles \in 0 .. MaxHandles /\ refs \in Nat /\ freed \in BOOLEAN
    /\ IsFiniteSet(Holders)
    /\ refs = handles + Cardinality(Holders)
    /\ freed <=> refs = 0

(* Giving back the last reference, and no other, deletes the buffer.         *)
LEMMA RefsReleased ==
  ASSUME refs \in Nat \ {0}, freed \in BOOLEAN, freed <=> refs = 0, Release
  PROVE  refs' = refs - 1 /\ refs' \in Nat /\ freed' \in BOOLEAN /\ (freed' <=> refs' = 0)
<1>1. refs' = refs - 1 /\ refs' \in Nat /\ (refs = 1 <=> refs' = 0) /\ refs # 0
  BY DEF Release
<1>2. freed' = (freed \/ refs = 1)
  BY DEF Release
<1>3. freed' \in BOOLEAN
  BY <1>2, Zenon
<1>4. freed' <=> refs = 1
  BY <1>1, <1>2, Zenon
<1> QED
  BY <1>1, <1>3, <1>4

(* An operation that takes a reference is one more that has one.             *)
LEMMA HolderAdded ==
  ASSUME Types, RefInv, NEW o \in Ops, ~Holding(o), handles > 0,
         state' = [state EXCEPT ![o] = "waiting"], Addref, UNCHANGED handles
  PROVE  RefInv'
<1>1. Holders' = Holders \cup {o} /\ o \notin Holders
  BY DEF Types, Holders, Holding
<1>2. IsFiniteSet(Holders') /\ Cardinality(Holders') = Cardinality(Holders) + 1
  BY <1>1, FS_AddElement DEF RefInv
<1>3. Cardinality(Holders) \in Nat
  BY FS_CardinalityType DEF RefInv
<1> QED
  BY <1>2, <1>3 DEF RefInv, Addref

(* One that gives its reference back is one less; if it was the last, the    *)
(* buffer goes.                                                              *)
LEMMA HolderRemoved ==
  ASSUME Types, RefInv, NEW o \in Ops, Holding(o), NEW s \in OpState \ {"waiting", "moved"},
         state' = [state EXCEPT ![o] = s], Release, UNCHANGED handles
  PROVE  RefInv'
<1>1. Holders' = Holders \ {o} /\ o \in Holders
  BY DEF Types, Holders, Holding
<1>2. IsFiniteSet(Holders') /\ Cardinality(Holders') = Cardinality(Holders) - 1
  BY <1>1, FS_RemoveElement DEF RefInv
<1>3. Cardinality(Holders) \in Nat /\ Cardinality(Holders') \in Nat
  BY <1>2, FS_CardinalityType DEF RefInv
<1>4. refs \in Nat \ {0} /\ refs' = refs - 1 /\ refs' \in Nat /\ freed' \in BOOLEAN /\ (freed' <=> refs' = 0)
  <2>1. refs \in Nat \ {0}
    BY <1>2, <1>3, HandlesAssumption DEF RefInv
  <2> QED
    BY <2>1, RefsReleased DEF RefInv
<1> QED
  BY <1>2, <1>3, <1>4, HandlesAssumption DEF RefInv

(* An operation that had none, or keeps the one it had, changes nothing.     *)
LEMMA HoldersKept ==
  ASSUME Types, RefInv, NEW o \in Ops, NEW s \in OpState,
         Holding(o) <=> s \in {"waiting", "moved"},
         state' = [state EXCEPT ![o] = s], UNCHANGED <<handles, refs, freed>>
  PROVE  RefInv'
<1>1. Holders' = Holders
  BY DEF Types, Holders, Holding
<1> QED
  BY <1>1 DEF RefInv

(* The references: every step keeps their invariant.                        *)
LEMMA RefStep ==
  ASSUME RingInv, Types, RefInv, [ChannelNext]_chan
  PROVE  RefInv'
<1>1. ASSUME NEW v \in Value, SendNow(v) PROVE RefInv'
  BY <1>1, HoldersKept DEF SendNow, Holding, Ops, OpState
<1>2. ASSUME NEW v \in Value, SendLater(v) PROVE RefInv'
  BY <1>2, HolderAdded DEF SendLater, Holding, Ops
<1>3. ASSUME NEW v \in Value, PrepareSend(v) PROVE RefInv'
  <2>1. CASE state[v] = "waiting" /\ ~full
    BY <1>3, <2>1, HoldersKept DEF PrepareSend, Holding, Ops, OpState, Pending
  <2>2. CASE ~(state[v] = "waiting" /\ ~full)
    BY <1>3, <2>2 DEF PrepareSend, RefInv, Holders, Holding
  <2> QED
    BY <2>1, <2>2
<1>4. ASSUME NEW v \in Value, FinishSend(v) PROVE RefInv'
  <2>1. PICK s \in {"done", "failed"} : state' = [state EXCEPT ![v] = s]
    BY <1>4 DEF FinishSend
  <2> QED
    BY <1>4, <2>1, HolderRemoved, HoldersKept DEF FinishSend, Holding, Ops, OpState
<1>5. ASSUME NEW r \in Receives, ReceiveNow(r) PROVE RefInv'
  BY <1>5, HoldersKept DEF ReceiveNow, Holding, Ops, OpState
<1>6. ASSUME NEW r \in Receives, ReceiveLater(r) PROVE RefInv'
  BY <1>6, HolderAdded DEF ReceiveLater, Holding, Ops
<1>7. ASSUME NEW r \in Receives, PrepareReceive(r) PROVE RefInv'
  <2>1. CASE state[r] = "waiting" /\ ~empty
    BY <1>7, <2>1, HoldersKept DEF PrepareReceive, Holding, Ops, OpState, Pending
  <2>2. CASE ~(state[r] = "waiting" /\ ~empty)
    BY <1>7, <2>2 DEF PrepareReceive, RefInv, Holders, Holding
  <2> QED
    BY <2>1, <2>2
<1>8. ASSUME NEW r \in Receives, FinishReceive(r) PROVE RefInv'
  <2>1. PICK s \in {"done", "failed"} : state' = [state EXCEPT ![r] = s]
    BY <1>8 DEF FinishReceive
  <2> QED
    BY <1>8, <2>1, HolderRemoved, HoldersKept DEF FinishReceive, Holding, Ops, OpState
<1>9. ASSUME NEW o \in Ops, Cancel(o) PROVE RefInv'
  <2>1. PICK s \in {"cut", "moved_cut"} : state' = [state EXCEPT ![o] = s]
    BY <1>9 DEF Cancel
  <2> QED
    BY <1>9, <2>1, HolderRemoved DEF Cancel, OpState, Pending
<1>10. ASSUME NEW o \in Ops, CancelAndWait(o) PROVE RefInv'
  BY <1>10, HolderRemoved, HoldersKept DEF CancelAndWait, Holding, OpState
<1>11. CASE CopyChannel
  <2>1. Holders' = Holders
    BY <1>11 DEF CopyChannel, Holders, Holding
  <2>2. Cardinality(Holders) \in Nat
    BY FS_CardinalityType DEF RefInv
  <2> QED
    BY <1>11, <2>1, <2>2, HandlesAssumption DEF CopyChannel, Addref, RefInv
<1>12. CASE DestroyChannel
  <2>1. Holders' = Holders
    BY <1>12 DEF DestroyChannel, Holders, Holding
  <2>2. Cardinality(Holders) \in Nat
    BY FS_CardinalityType DEF RefInv
  <2>3. handles \in 1 .. MaxHandles /\ handles' = handles - 1 /\ refs \in Nat \ {0}
    BY <1>12, <2>2, HandlesAssumption DEF DestroyChannel, RefInv
  <2>4. refs' = refs - 1 /\ refs' \in Nat /\ freed' \in BOOLEAN /\ (freed' <=> refs' = 0)
    BY <1>12, <2>3, RefsReleased DEF DestroyChannel, RefInv
  <2> QED
    BY <2>1, <2>2, <2>3, <2>4, HandlesAssumption DEF RefInv
<1>13. CASE StartRound \/ EndPrepare \/ EndFinish \/ PollReturns \/ UNCHANGED chan
  BY <1>13 DEF StartRound, EndPrepare, EndFinish, PollReturns, RefInv, Holders, Holding
<1> QED
  BY <1>1, <1>2, <1>3, <1>4, <1>5, <1>6, <1>7, <1>8, <1>9, <1>10, <1>11, <1>12, <1>13
  DEF ChannelNext, Calls, Round

(* The invariant of the references always holds.                            *)
LEMMA RefInvariance == ChannelSpec => []RefInv
<1>1. ChannelInit => RefInv
  <2> SUFFICES ASSUME ChannelInit PROVE RefInv
    OBVIOUS
  <2>1. Holders = {}
    BY DEF ChannelInit, Holders, Holding
  <2>2. IsFiniteSet(Holders) /\ Cardinality(Holders) = 0
    BY <2>1, FS_EmptySet
  <2>3. handles = 1 /\ refs = 1 /\ freed = FALSE
    BY DEF ChannelInit
  <2>4. handles \in 0 .. MaxHandles /\ refs \in Nat /\ refs # 0 /\ refs = handles + 0
    BY <2>3, HandlesAssumption
  <2>5. freed \in BOOLEAN /\ ~freed
    BY <2>3, Zenon
  <2> QED
    BY <2>2, <2>4, <2>5 DEF RefInv
<1>2. RingInv /\ Types /\ RefInv /\ [ChannelNext]_chan => RefInv'
  BY RefStep
<1> QED
  BY <1>1, <1>2, ChannelInvariance, ChannelRingInv, PTL DEF ChannelSpec

(* The buffer is deleted with the last reference to it and not before, and   *)
(* every channel object and every task that is not cancelled has one.        *)
THEOREM BufferLives == ChannelSpec => []BufferOutlivesUsers
<1>1. RefInv => BufferOutlivesUsers
  BY DEF RefInv, BufferOutlivesUsers, Holders
<1> QED
  BY <1>1, RefInvariance, PTL

(* The variables keep their types.                                           *)
THEOREM ChannelTyped == ChannelSpec => []ChannelTypeOK
<1>1. RingInv /\ Types /\ RefInv => ChannelTypeOK
  BY DEF RingInv, Types, RefInv, ChannelTypeOK
<1> QED
  BY <1>1, RefInvariance, ChannelInvariance, ChannelRingInv, PTL
-----------------------------------------------------------------------------
(* Where a value is.  No two slots and no two receives have the same one,    *)
(* which is what the count of the buffered ones rests on.                    *)
PlaceInv ==
    /\ \A i, j \in Index : m_value[i] # Raw /\ m_value[i] = m_value[j] => i = j
    /\ \A r, s \in Receives : got[r] # Raw /\ got[r] = got[s] => r = s
    /\ \A v \in Value : v \in Buffered => \A r \in Receives : got[r] # v
    /\ \A v \in Value : state[v] \in {"new", "waiting", "cut"} =>
          v \notin Buffered /\ \A r \in Receives : got[r] # v
    /\ \A v \in Value : state[v] \in {"done", "moved"} =>
          v \in Buffered \/ \E r \in Receives : got[r] = v
CountInv == IsFiniteSet(Buffered) /\ Cardinality(Buffered) = m_size

(* A value that is pushed is in a slot that had none.                       *)
LEMMA PushedIsBuffered ==
  ASSUME RingInv, NEW v \in Value, PushBack(v)
  PROVE  Buffered' = Buffered \cup {v} /\ m_last \in Index /\ m_value[m_last] = Raw
<1>1. m_last \in Index /\ m_value[m_last] = Raw
  <2>1. m_last \in Index
    BY DEF RingInv, RingTypeOK
  <2>2. Offset(m_last) = m_size
    BY CapacityAssumption DEF RingInv, RingTypeOK, SlotsAgree, PushBack, Place, Offset, Index
  <2>3. ~(Offset(m_last) < m_size)
    BY <2>2 DEF RingInv, RingTypeOK
  <2> QED
    BY <2>1, <2>3 DEF RingInv, SlotsAgree
<1>2. \A i \in Index : m_value'[i] = IF i = m_last THEN v ELSE m_value[i]
  BY <1>1 DEF PushBack, RingInv, RingTypeOK
<1> QED
  BY <1>1, <1>2, RawAssumption DEF Buffered

(* A value that is popped is in no slot afterwards.                         *)
LEMMA PoppedIsNotBuffered ==
  ASSUME RingInv, PlaceInv, PopFront
  PROVE  /\ Buffered' = Buffered \ {front} /\ front \in Buffered
         /\ m_first \in Index /\ front \in Value
<1>1. m_first \in Index /\ front \in Value
  BY FrontIsValue DEF RingInv, RingTypeOK, PopFront, empty
<1>2. \A i \in Index : m_value'[i] = IF i = m_first THEN Raw ELSE m_value[i]
  BY <1>1 DEF PopFront, RingInv, RingTypeOK
<1>3. \A i \in Index : m_value[i] = front => i = m_first
  BY <1>1, RawAssumption DEF PlaceInv, front
<1> QED
  BY <1>1, <1>2, <1>3, RawAssumption DEF Buffered, front

(* What is pushed was not in the buffer, and what is popped was there once.  *)
LEMMA CountStep ==
  ASSUME RingInv, PlaceInv, CountInv,
         \/ \E v \in Value : v \notin Buffered /\ PushBack(v)
         \/ PopFront
         \/ UNCHANGED ring
  PROVE  CountInv'
<1>1. ASSUME NEW v \in Value, v \notin Buffered, PushBack(v)
      PROVE  CountInv'
  <2>1. Buffered' = Buffered \cup {v} /\ m_size' = m_size + 1
    BY <1>1, PushedIsBuffered DEF PushBack
  <2>2. IsFiniteSet(Buffered \cup {v}) /\ Cardinality(Buffered \cup {v}) = Cardinality(Buffered) + 1
    BY <1>1, FS_AddElement DEF CountInv
  <2> QED
    BY <2>1, <2>2 DEF CountInv
<1>2. CASE PopFront
  BY <1>2, PoppedIsNotBuffered, FS_RemoveElement DEF CountInv, PopFront
<1>3. CASE UNCHANGED ring
  BY <1>3 DEF CountInv, Buffered, ring
<1> QED
  BY <1>1, <1>2, <1>3

(* A value that is pushed was nowhere before.                                *)
LEMMA PushPlace ==
  ASSUME RingInv, Types, PlaceInv, CountInv, NEW v \in Value, NEW s \in {"done", "moved"},
         state[v] \in {"new", "waiting"},
         PushBack(v), state' = [state EXCEPT ![v] = s], UNCHANGED got
  PROVE  (PlaceInv /\ CountInv)'
<1>1. v \notin Buffered /\ \A r \in Receives : got[r] # v
  BY DEF PlaceInv
<1>2. Buffered' = Buffered \cup {v} /\ m_last \in Index /\ m_value[m_last] = Raw
  BY PushedIsBuffered
<1>3. \A i \in Index : m_value'[i] = IF i = m_last THEN v ELSE m_value[i]
  BY <1>2 DEF PushBack, RingInv, RingTypeOK
<1>4. \A i \in Index : m_value[i] # v
  BY <1>1, RawAssumption DEF Buffered
<1>5. \A u \in Value : state'[u] = IF u = v THEN s ELSE state[u]
  BY DEF Types, Ops
<1>6. PlaceInv'
  BY <1>1, <1>2, <1>3, <1>4, <1>5 DEF PlaceInv
<1> QED
  BY <1>1, <1>6, CountStep

(* A value that is popped is with the one receive that took it.              *)
LEMMA PopPlace ==
  ASSUME RingInv, Types, GotInv, PlaceInv, CountInv, NEW r \in Receives, NEW s \in OpState,
         state[r] \in {"new", "waiting"}, ~empty,
         PopFront, state' = [state EXCEPT ![r] = s], got' = [got EXCEPT ![r] = front]
  PROVE  (PlaceInv /\ CountInv)'
<1>1. got[r] = Raw
  BY DEF GotInv
<1>2. /\ Buffered' = Buffered \ {front} /\ front \in Buffered
      /\ m_first \in Index /\ front \in Value
  BY PoppedIsNotBuffered
<1>3. \A i \in Index : m_value'[i] = IF i = m_first THEN Raw ELSE m_value[i]
  BY <1>2 DEF PopFront, RingInv, RingTypeOK
<1>4. \A q \in Receives : got'[q] = IF q = r THEN front ELSE got[q]
  BY DEF Types
<1>5. \A u \in Value : state'[u] = state[u]
  BY ReceivesAssumption DEF Types, Ops
<1>6. \A q \in Receives : got[q] # front
  BY <1>2 DEF PlaceInv
<1>7. PlaceInv'
  <2>1. \A i, j \in Index : m_value'[i] # Raw /\ m_value'[i] = m_value'[j] => i = j
    BY <1>3 DEF PlaceInv
  <2>2. \A q, p \in Receives : got'[q] # Raw /\ got'[q] = got'[p] => q = p
    BY <1>4, <1>6 DEF PlaceInv
  <2>3. \A v \in Value : v \in Buffered' => \A q \in Receives : got'[q] # v
    BY <1>2, <1>4 DEF PlaceInv
  <2>4. \A v \in Value : state'[v] \in {"new", "waiting", "cut"} =>
            v \notin Buffered' /\ \A q \in Receives : got'[q] # v
    BY <1>2, <1>4, <1>5 DEF PlaceInv
  <2>5. \A v \in Value : state'[v] \in {"done", "moved"} =>
            v \in Buffered' \/ \E q \in Receives : got'[q] = v
    <3> SUFFICES ASSUME NEW v \in Value, state'[v] \in {"done", "moved"}
                 PROVE  v \in Buffered' \/ \E q \in Receives : got'[q] = v
      OBVIOUS
    <3>1. CASE v = front
      BY <3>1, <1>4
    <3>2. CASE v # front /\ v \in Buffered
      BY <3>2, <1>2
    <3>3. CASE v # front /\ v \notin Buffered
      <4>1. PICK q \in Receives : got[q] = v
        BY <3>3, <1>5 DEF PlaceInv
      <4> QED
        BY <4>1, <1>1, <1>4, RawAssumption
    <3> QED
      BY <3>1, <3>2, <3>3
  <2> QED
    BY <2>1, <2>2, <2>3, <2>4, <2>5 DEF PlaceInv
<1> QED
  BY <1>7, CountStep

(* A step that moves no value changes nothing, unless an operation that had  *)
(* not put its value anywhere says that it had.                              *)
LEMMA StayPlace ==
  ASSUME Types, PlaceInv, CountInv, UNCHANGED <<ring, got>>,
         \A v \in Value :
            /\ state'[v] \in {"new", "waiting", "cut"} => state[v] \in {"new", "waiting", "cut"}
            /\ state'[v] \in {"done", "moved"} => state[v] \in {"done", "moved"}
  PROVE  (PlaceInv /\ CountInv)'
BY DEF PlaceInv, CountInv, Buffered, ring

(* The places of the values: every step keeps their invariant.              *)
LEMMA PlaceStep ==
  ASSUME RingInv, Types, GotInv, AskedInv, PlaceInv, CountInv, [ChannelNext]_chan
  PROVE  (PlaceInv /\ CountInv)'
<1> USE DEF Types, Ops
<1>1. ASSUME NEW v \in Value, SendNow(v) PROVE (PlaceInv /\ CountInv)'
  BY <1>1, PushPlace DEF SendNow
<1>2. ASSUME NEW v \in Value, SendLater(v) PROVE (PlaceInv /\ CountInv)'
  BY <1>2, StayPlace DEF SendLater
<1>3. ASSUME NEW v \in Value, PrepareSend(v) PROVE (PlaceInv /\ CountInv)'
  <2>1. CASE state[v] = "waiting" /\ ~full
    BY <1>3, <2>1, PushPlace DEF PrepareSend
  <2>2. CASE ~(state[v] = "waiting" /\ ~full)
    BY <1>3, <2>2, StayPlace DEF PrepareSend
  <2> QED
    BY <2>1, <2>2
<1>4. ASSUME NEW v \in Value, FinishSend(v) PROVE (PlaceInv /\ CountInv)'
  BY <1>4, StayPlace DEF FinishSend
<1>5. ASSUME NEW r \in Receives, ReceiveNow(r) PROVE (PlaceInv /\ CountInv)'
  BY <1>5, PopPlace DEF ReceiveNow, OpState
<1>6. ASSUME NEW r \in Receives, ReceiveLater(r) PROVE (PlaceInv /\ CountInv)'
  BY <1>6, StayPlace, ReceivesAssumption DEF ReceiveLater
<1>7. ASSUME NEW r \in Receives, PrepareReceive(r) PROVE (PlaceInv /\ CountInv)'
  <2>1. CASE state[r] = "waiting" /\ ~empty
    BY <1>7, <2>1, PopPlace DEF PrepareReceive, OpState, Pending
  <2>2. CASE ~(state[r] = "waiting" /\ ~empty)
    BY <1>7, <2>2, StayPlace DEF PrepareReceive
  <2> QED
    BY <2>1, <2>2
<1>8. ASSUME NEW r \in Receives, FinishReceive(r) PROVE (PlaceInv /\ CountInv)'
  BY <1>8, StayPlace, ReceivesAssumption DEF FinishReceive
<1>9. ASSUME NEW o \in Ops, Cancel(o) PROVE (PlaceInv /\ CountInv)'
  BY <1>9, StayPlace DEF Cancel, Holding
<1>10. ASSUME NEW o \in Ops, CancelAndWait(o) PROVE (PlaceInv /\ CountInv)'
  BY <1>10, StayPlace DEF CancelAndWait
<1>11. CASE \/ CopyChannel \/ DestroyChannel
            \/ StartRound \/ EndPrepare \/ EndFinish \/ PollReturns \/ UNCHANGED chan
  BY <1>11, StayPlace DEF CopyChannel, DestroyChannel, StartRound, EndPrepare, EndFinish, PollReturns
<1> QED
  BY <1>1, <1>2, <1>3, <1>4, <1>5, <1>6, <1>7, <1>8, <1>9, <1>10, <1>11
  DEF ChannelNext, Calls, Round

(* The invariant of the places is established.                              *)
LEMMA PlaceInit == ChannelInit => PlaceInv /\ CountInv
<1> SUFFICES ASSUME ChannelInit PROVE PlaceInv /\ CountInv
  OBVIOUS
<1>1. Buffered = {} /\ m_size = 0
  BY DEF ChannelInit, RingInit, Buffered
<1>2. CountInv
  BY <1>1, FS_EmptySet DEF CountInv
<1>3. PlaceInv
  BY <1>1, RawAssumption DEF PlaceInv, ChannelInit, RingInit, Ops
<1> QED
  BY <1>2, <1>3

(* A value is never lost, doubled, or delivered although its send was        *)
(* cancelled before it took place; the buffer holds as many as it counts.    *)
THEOREM ValuesConserved == ChannelSpec => []Conserved
<1>1. PlaceInv /\ CountInv => Conserved
  <2> SUFFICES ASSUME PlaceInv, CountInv PROVE Conserved
    OBVIOUS
  <2>1. ASSUME NEW v \in Value PROVE Cardinality(Takers(v)) <= 1
    <3>1. CASE Takers(v) = {}
      BY <3>1, FS_EmptySet
    <3>2. CASE Takers(v) # {}
      <4>1. PICK r \in Receives : got[r] = v
        BY <3>2 DEF Takers
      <4>2. Takers(v) = {r}
        BY <4>1, RawAssumption DEF Takers, PlaceInv
      <4> QED
        BY <4>2, FS_Singleton
    <3> QED
      BY <3>1, <3>2
  <2>2. ASSUME NEW v \in Value
        PROVE  /\ v \in Buffered => Takers(v) = {}
               /\ state[v] \in {"new", "waiting", "cut"} => v \notin Buffered /\ Takers(v) = {}
               /\ state[v] \in {"done", "moved"} => v \in Buffered \/ Takers(v) # {}
    BY DEF PlaceInv, Takers
  <2> QED
    BY <2>1, <2>2 DEF Conserved, CountInv
<1>2. RingInv /\ Types /\ GotInv /\ AskedInv /\ PlaceInv /\ CountInv /\ [ChannelNext]_chan
        => (PlaceInv /\ CountInv)'
  BY PlaceStep
<1> QED
  BY <1>1, <1>2, PlaceInit, ChannelInvariance, ChannelRingInv, PTL DEF ChannelSpec
=============================================================================
