------------------------- MODULE DoubleBufferProofs -------------------------
(***************************************************************************)
(* Proofs about DoubleBuffer, for any number of slots and of transfers, and  *)
(* any levels.                                                               *)
(***************************************************************************)
EXTENDS DoubleBuffer, FiniteSetTheorems, SequenceTheorems, TLAPS

USE CountAssumption DEF kernel, core, usb, buffer, vars

(* The slot that has j before it, counted from the head.                     *)
At(j)   == (head + j) % Count
Slot(j) == slots[At(j)]

(* Where the runner's thread is, and when a slot is not used again: then the  *)
(* task was cancelled.                                                       *)
PhaseInv ==
    /\ phase = "creating" =>
          /\ head = 0 /\ active = Count
          /\ \A i, j \in 0..Count-1 : i < j /\ slots[i] = None => slots[j] = None
    /\ active < Count => cl >= cl_quit
    /\ exc # "none" => cl >= cl_abort
    /\ dropped => phase \in {"dropping", "ended"} /\ cl = cl_kill
    /\ phase = "dropping" => dropped
    /\ phase = "ended" => active = 0

(* Transfers are started in the order of their numbers, and so they are in   *)
(* the slots from the head on and among what was collected before.           *)
OrderInv ==
    /\ \A j, k \in 0..active-1 :
          j < k /\ Slot(j).t # 0 /\ Slot(k).t # 0 => Slot(j).t < Slot(k).t
    /\ \A n \in DOMAIN collected, j \in 0..active-1 : Slot(j).t # 0 => collected[n] < Slot(j).t
    /\ \A m, n \in DOMAIN collected : m < n => collected[m] < collected[n]
    /\ \A n \in DOMAIN collected : urb[collected[n]] # "unused"
    /\ \A i \in 0..Count-1 : slots[i].t # 0 => urb[slots[i].t] # "unused"
    /\ \A i \in 0..Count-1 : slots[i].v = "ok" => slots[i].t # 0

(* A transfer that is pending has its context and no result yet; one that was *)
(* not started has neither.                                                  *)
UsbInv ==
    /\ dispatch # "undefined"
    /\ plugged => dispatch = "polling"
    /\ pending \subseteq context \ done
    /\ dispatch = "polling" => Held("kernel") \cup Held("completed") \subseteq pending
    /\ \A t \in Transfers : urb[t] = "unused" => t \notin context \cup done
    /\ \A t \in Transfers : t \in done <=> status[t] # "none"
    /\ \A t \in Transfers : urb[t] \in {"completed", "reaped"} => outcome[t] # "none"

(* A slot that waits has a context of its own to wait for, and what is        *)
(* pending or has succeeded is in a slot yet to be collected, or collected.   *)
SlotInv ==
    /\ \A i \in 0..Count-1 : slots[i].k = "task" => slots[i].t \in context
    /\ \A i, j \in 0..Count-1 :
          slots[i].k = "task" /\ slots[j].k = "task" /\ slots[i].t = slots[j].t => i = j
    /\ \A t \in pending : \E j \in 0..active-1 : Slot(j).k = "task" /\ Slot(j).t = t
    /\ \A i \in 0..Count-1 : slots[i].v = "ok" => status[slots[i].t] = "ok"
    /\ \A n \in DOMAIN collected : status[collected[n]] = "ok"
    /\ \A t \in Transfers : status[t] = "ok" =>
          \/ \E n \in DOMAIN collected : collected[n] = t
          \/ \E j \in 0..active-1 : Slot(j).t = t /\ (Slot(j).k = "task" \/ Slot(j).v = "ok")

BufferInv == BufferTypeOK /\ PhaseInv /\ OrderInv /\ (~dropped => UsbInv /\ SlotInv)
-----------------------------------------------------------------------------
(* Transfers are positive numbers.                                           *)
LEMMA TransferNumbers == \A t \in Transfers : t \in Nat /\ t # 0
  <1>1. Cardinality(Transfers) \in Nat
    BY TransfersAssumption, FS_CardinalityType
  <1> QED
    BY <1>1, TransfersAssumption

(* The slots, counted from the head, go round once.                          *)
LEMMA Round ==
  ASSUME NEW h \in 0..Count-1
  PROVE  /\ \A j \in 0..Count-1 :
               (h + j) % Count = IF h + j < Count THEN h + j ELSE h + j - Count
         /\ \A j \in 0..Count-1 : (h + j) % Count \in 0..Count-1
         /\ \A i, j \in 0..Count-1 : (h + i) % Count = (h + j) % Count => i = j
         /\ (h + 1) % Count \in 0..Count-1
         /\ \A j \in 0..Count-2 : (((h + 1) % Count) + j) % Count = (h + (j + 1)) % Count
         /\ (((h + 1) % Count) + (Count - 1)) % Count = h
         /\ (h + 0) % Count = h
  <1>1. \A j \in 0..Count-1 :
           (h + j) % Count = IF h + j < Count THEN h + j ELSE h + j - Count
    BY CountAssumption
  <1>2. (h + 1) % Count = IF h + 1 < Count THEN h + 1 ELSE 0
    BY CountAssumption
  <1>3. \A g \in 0..Count-1, j \in 0..Count-1 :
           (g + j) % Count = IF g + j < Count THEN g + j ELSE g + j - Count
    BY CountAssumption
  <1>4. (h + 1) % Count \in 0..Count-1
    BY <1>2, CountAssumption
  <1>5. ASSUME NEW g \in 0..Count-1, g = (h + 1) % Count
        PROVE  /\ \A j \in 0..Count-2 : (g + j) % Count = (h + (j + 1)) % Count
               /\ (g + (Count - 1)) % Count = h
    <2>1. g = IF h + 1 < Count THEN h + 1 ELSE 0
      BY <1>2, <1>5
    <2>2. ASSUME NEW j \in 0..Count-2
          PROVE  (g + j) % Count = (h + (j + 1)) % Count
      <3>1. (g + j) % Count = IF g + j < Count THEN g + j ELSE g + j - Count
        BY <1>3, CountAssumption
      <3>2. (h + (j + 1)) % Count =
              IF h + (j + 1) < Count THEN h + (j + 1) ELSE h + (j + 1) - Count
        <4>1. \A k \in 0..Count-1 : k = j + 1 =>
                (h + k) % Count = IF h + k < Count THEN h + k ELSE h + k - Count
          BY <1>3
        <4> QED
          BY <4>1, CountAssumption
      <3> QED
        BY <2>1, <3>1, <3>2, CountAssumption
    <2>3. (g + (Count - 1)) % Count = h
      <3>1. (g + (Count - 1)) % Count =
              IF g + (Count - 1) < Count THEN g + (Count - 1) ELSE g + (Count - 1) - Count
        <4>1. \A k \in 0..Count-1 : k = Count - 1 =>
                (g + k) % Count = IF g + k < Count THEN g + k ELSE g + k - Count
          BY <1>3
        <4> QED
          BY <4>1, CountAssumption
      <3> QED
        BY <2>1, <3>1, CountAssumption
    <2> QED
      BY <2>2, <2>3
  <1>7. \A j \in 0..Count-1 : (h + j) % Count \in 0..Count-1
    <2>1. SUFFICES ASSUME NEW j \in 0..Count-1
                   PROVE  (h + j) % Count \in 0..Count-1
      OBVIOUS
    <2> QED
      BY <1>1, CountAssumption
  <1>8. ASSUME NEW i \in 0..Count-1, NEW j \in 0..Count-1, (h + i) % Count = (h + j) % Count
        PROVE  i = j
    <2>1. /\ (h + i) % Count = IF h + i < Count THEN h + i ELSE h + i - Count
          /\ (h + j) % Count = IF h + j < Count THEN h + j ELSE h + j - Count
      BY <1>1
    <2> QED
      BY <1>8, <2>1, CountAssumption
  <1>9. (h + 0) % Count = h
    BY <1>1, CountAssumption
  <1> QED
    BY <1>1, <1>4, <1>5, <1>7, <1>8, <1>9

(* What a slot holds.                                                        *)
LEMMA SlotHolds ==
  ASSUME BufferTypeOK, NEW i \in 0..Count-1
  PROVE  /\ slots[i].t \in Transfers \cup {0}
         /\ slots[i].k \in {"empty", "task", "result"}
         /\ slots[i].v \in {"none", "ok", "failed"}
         /\ slots[i].k = "task" => slots[i].t \in Transfers /\ slots[i].v = "none"
         /\ slots[i].k = "result" => slots[i].v \in {"ok", "failed"}
         /\ slots[i].v \in {"ok", "failed"} => slots[i].k = "result"
         /\ slots[i].k = "empty" => slots[i] = None
         /\ slots[i] = None => slots[i].k = "empty" /\ slots[i].t = 0 /\ slots[i].v = "none"
  BY DEF BufferTypeOK, SlotValue, None, Wait, Res

(* Moving the head on moves the slots forward by one, and the head's to the  *)
(* end.                                                                      *)
LEMMA HeadMoves ==
  ASSUME BufferTypeOK
  PROVE  /\ \A j \in 0..Count-1 : At(j) \in 0..Count-1
         /\ \A i, j \in 0..Count-1 : At(i) = At(j) => i = j
         /\ At(0) = head
         /\ Advance(head) \in 0..Count-1
         /\ head' = Advance(head) => /\ \A j \in 0..Count-2 : At(j)' = At(j + 1)
                                    /\ At(Count - 1)' = head
  <1>1. head \in 0..Count-1
    BY DEF BufferTypeOK
  <1>2. head' = Advance(head) => /\ \A j \in 0..Count-2 : At(j)' = At(j + 1)
                                /\ At(Count - 1)' = head
    <2>1. /\ \A j \in 0..Count-2 : (((head + 1) % Count) + j) % Count = (head + (j + 1)) % Count
          /\ (((head + 1) % Count) + (Count - 1)) % Count = head
      BY <1>1, Round
    <2> QED
      BY <2>1, Zenon DEF At, Advance
  <1> QED
    BY <1>1, <1>2, Round DEF At, Advance

(* The transfers of some slots.                                              *)
LEMMA WaitingTransfers ==
  ASSUME BufferTypeOK, NEW is \in SUBSET (0..Count-1)
  PROVE  /\ Waiting(is) \subseteq Transfers
         /\ \A i \in is : slots[i].k = "task" => slots[i].t \in Waiting(is)
         /\ \A t \in Waiting(is) : \E i \in is : slots[i].k = "task" /\ slots[i].t = t
  BY SlotHolds DEF Waiting

(* What Cancel goes through are slots.                                       *)
LEMMA WindowSlots ==
  ASSUME BufferTypeOK, NEW n \in 0..Count
  PROVE  ToSet(Window(head, n)) \subseteq 0..Count-1
  <1>1. ToSet(Window(head, n)) = {Window(head, n)[j] : j \in 1..n}
    BY DEF Window, ToSet
  <1>2. ASSUME NEW j \in 1..n
        PROVE  Window(head, n)[j] \in 0..Count-1
    <2>1. PICK k \in 0..Count-1 : k = j - 1
      BY CountAssumption
    <2>2. head + j - 1 = head + k
      BY <2>1, CountAssumption DEF BufferTypeOK
    <2>3. Window(head, n)[j] = (head + k) % Count
      BY <2>2 DEF Window
    <2>4. At(k) \in 0..Count-1
      BY HeadMoves
    <2> QED
      BY <2>3, <2>4 DEF At
  <1> QED
    BY <1>1, <1>2

(* The slots that are in use are slots.                                     *)
LEMMA ActiveSlots ==
  ASSUME BufferTypeOK
  PROVE  Active \subseteq 0..Count-1
  BY WindowSlots DEF Active, BufferTypeOK

-----------------------------------------------------------------------------
(* create_task starts the next transfer, or fails.                           *)
LEMMA TaskCreated ==
  ASSUME BufferTypeOK, NEW i \in 0..Count-1, CreateTask(i)
  PROVE  /\ UsbTypeOK'
         /\ slots' \in [0..Count-1 -> SlotValue]
         /\ \A j \in 0..Count-1 \ {i} : slots'[j] = slots[j]
         /\ slots'[i].k \in {"task", "result"} /\ slots'[i].v \in {"none", "failed"}
         /\ slots'[i].t # 0 => /\ slots'[i].t \in Transfers
                               /\ urb[slots'[i].t] = "unused" /\ urb'[slots'[i].t] # "unused"
                               /\ \A u \in Transfers : urb[u] # "unused" => u < slots'[i].t
         /\ \A u \in Transfers : u # slots'[i].t => urb'[u] = urb[u]
         /\ UNCHANGED <<plugged, outcome, status, done, dispatch>>
         /\ IF slots'[i].k = "task"
            THEN /\ slots'[i].t # 0 /\ plugged /\ urb'[slots'[i].t] = "kernel"
                 /\ pending' = pending \cup {slots'[i].t}
                 /\ context' = context \cup {slots'[i].t}
            ELSE /\ UNCHANGED <<pending, context>>
                 /\ slots'[i].t # 0 => urb'[slots'[i].t] = "refused"
  <1>1. CASE \E t \in Transfers :
               /\ \A u \in Transfers : urb[u] = "unused" <=> u >= t
               /\ AsyncTransfer(t)
               /\ slots' = [slots EXCEPT ![i] =
                               IF urb'[t] = "kernel" THEN Wait(t) ELSE Res(t, "failed")]
    <2>1. PICK t \in Transfers :
               /\ \A u \in Transfers : urb[u] = "unused" <=> u >= t
               /\ AsyncTransfer(t)
               /\ slots' = [slots EXCEPT ![i] =
                               IF urb'[t] = "kernel" THEN Wait(t) ELSE Res(t, "failed")]
      BY <1>1
    <2>2. /\ urb[t] = "unused" /\ t # 0
          /\ \A u \in Transfers : urb[u] # "unused" => u < t
      BY <2>1, TransferNumbers
    <2>3. CASE plugged /\ urb' = [urb EXCEPT ![t] = "kernel"]
                /\ pending' = pending \cup {t} /\ context' = context \cup {t}
      <3>1. slots' = [slots EXCEPT ![i] = Wait(t)]
        BY <2>1, <2>3 DEF BufferTypeOK, UsbTypeOK
      <3>2. slots' \in [0..Count-1 -> SlotValue]
        BY <3>1 DEF BufferTypeOK, SlotValue
      <3>3. slots'[i] = Wait(t) /\ \A j \in 0..Count-1 \ {i} : slots'[j] = slots[j]
        BY <3>1 DEF BufferTypeOK
      <3>4. slots'[i].t = t /\ slots'[i].k = "task" /\ slots'[i].v = "none"
        BY <3>3 DEF Wait, Res
      <3>5. UsbTypeOK' /\ UNCHANGED <<plugged, outcome, status, done, dispatch>>
        BY <2>1, <2>3 DEF AsyncTransfer, BufferTypeOK, UsbTypeOK
      <3>6. urb'[t] = "kernel" /\ \A u \in Transfers : u # t => urb'[u] = urb[u]
        BY <2>3 DEF BufferTypeOK, UsbTypeOK
      <3> QED
        BY <2>2, <2>3, <3>2, <3>3, <3>4, <3>5, <3>6
    <2>4. CASE urb' = [urb EXCEPT ![t] = "refused"] /\ UNCHANGED <<pending, context>>
      <3>1. slots' = [slots EXCEPT ![i] = Res(t, "failed")]
        BY <2>1, <2>4 DEF BufferTypeOK, UsbTypeOK
      <3>2. slots' \in [0..Count-1 -> SlotValue]
        BY <3>1 DEF BufferTypeOK, SlotValue
      <3>3. slots'[i] = Res(t, "failed") /\ \A j \in 0..Count-1 \ {i} : slots'[j] = slots[j]
        BY <3>1 DEF BufferTypeOK
      <3>4. slots'[i].t = t /\ slots'[i].k = "result" /\ slots'[i].v = "failed"
        BY <3>3 DEF Wait, Res
      <3>5. UsbTypeOK' /\ UNCHANGED <<plugged, outcome, status, done, dispatch>>
        BY <2>1, <2>4 DEF AsyncTransfer, BufferTypeOK, UsbTypeOK
      <3>6. urb'[t] = "refused" /\ \A u \in Transfers : u # t => urb'[u] = urb[u]
        BY <2>4 DEF BufferTypeOK, UsbTypeOK
      <3> QED
        BY <2>2, <2>4, <3>2, <3>3, <3>4, <3>5, <3>6
    <2> QED
      BY <2>1, <2>3, <2>4 DEF AsyncTransfer
  <1>2. CASE slots' = [slots EXCEPT ![i] = Res(0, "failed")] /\ UNCHANGED usb
    <2>1. slots' \in [0..Count-1 -> SlotValue]
      BY <1>2 DEF BufferTypeOK, SlotValue
    <2>2. slots'[i] = Res(0, "failed") /\ \A j \in 0..Count-1 \ {i} : slots'[j] = slots[j]
      BY <1>2 DEF BufferTypeOK
    <2>3. slots'[i].t = 0 /\ slots'[i].k = "result" /\ slots'[i].v = "failed"
      BY <2>2 DEF Res
    <2> QED
      BY <1>2, <2>1, <2>2, <2>3 DEF BufferTypeOK, UsbTypeOK
  <1> QED
    BY <1>1, <1>2 DEF CreateTask

(* The rest starts none.                                                     *)
QuietUsb == UsbTypeOK' /\ \A t \in Transfers : urb'[t] = "unused" <=> urb[t] = "unused"

(* Such a step may leave the transfers alone,                               *)
LEMMA UsbStays ==
  ASSUME BufferTypeOK, UNCHANGED usb
  PROVE  QuietUsb
  BY DEF BufferTypeOK, UsbTypeOK, QuietUsb

(* give up some of them,                                                    *)
LEMMA Discarded ==
  ASSUME BufferTypeOK, NEW ts \in SUBSET Transfers,
         CancelTransfers(ts, cl_abort) \/ EndTransfers(ts)
  PROVE  QuietUsb
  <1>1. Discard(ts) /\ UNCHANGED <<plugged, status, done, pending, dispatch>>
        /\ context' \subseteq context
    BY DEF CancelTransfers, EndTransfers, cl_abort
  <1>2. urb' \in [Transfers -> {"unused", "refused", "kernel", "completed", "reaped"}]
        /\ outcome' \in [Transfers -> {"none", "ok", "failed"}]
        /\ \A t \in Transfers : urb'[t] = "unused" <=> urb[t] = "unused"
    BY <1>1 DEF Discard, Held, BufferTypeOK, UsbTypeOK
  <1> QED
    BY <1>1, <1>2 DEF BufferTypeOK, UsbTypeOK, QuietUsb

(* cancel them at any level,                                                *)
LEMMA Cancelled ==
  ASSUME BufferTypeOK, NEW ts \in SUBSET Transfers, NEW l \in Level, CancelTransfers(ts, l)
  PROVE  QuietUsb
  <1>1. CASE l >= cl_abort
    BY <1>1, Discarded DEF CancelTransfers, cl_abort
  <1>2. CASE ~(l >= cl_abort)
    BY <1>2, UsbStays DEF CancelTransfers
  <1> QED
    BY <1>1, <1>2

(* take the results of some,                                                *)
LEMMA Finished ==
  ASSUME BufferTypeOK, NEW ts \in SUBSET Transfers, FinishTransfers(ts)
  PROVE  QuietUsb
  BY DEF FinishTransfers, BufferTypeOK, UsbTypeOK, QuietUsb

(* be one of the dispatch loop,                                             *)
LEMMA Dispatched ==
  ASSUME BufferTypeOK, Dispatch
  PROVE  QuietUsb
  <1>1. CASE HangUp
    BY <1>1 DEF HangUp, KillPendingUrbs, UsesFreed, BufferTypeOK, UsbTypeOK, QuietUsb
  <1>2. ASSUME NEW t \in Transfers, Reap(t) PROVE QuietUsb
    BY <1>2 DEF Reap, UsesFreed, BufferTypeOK, UsbTypeOK, QuietUsb
  <1> QED
    BY <1>1, <1>2 DEF Dispatch

(* or be the kernel's.                                                      *)
LEMMA Completed ==
  ASSUME BufferTypeOK, NEW t \in Transfers, Complete(t) \/ Unplug
  PROVE  QuietUsb
  <1>1. CASE Complete(t)
    <2>1. urb' \in [Transfers -> {"unused", "refused", "kernel", "completed", "reaped"}]
          /\ outcome' \in [Transfers -> {"none", "ok", "failed"}]
          /\ \A u \in Transfers : urb'[u] = "unused" <=> urb[u] = "unused"
      BY <1>1 DEF Complete, BufferTypeOK, UsbTypeOK
    <2> QED
      BY <1>1, <2>1 DEF Complete, BufferTypeOK, UsbTypeOK, QuietUsb
  <1>2. CASE Unplug
    BY <1>2 DEF Unplug, BufferTypeOK, UsbTypeOK, QuietUsb
  <1> QED
    BY <1>1, <1>2

(* An exception raises the level, unless there was one before.               *)
LEMMA ExcCollected ==
  ASSUME BufferTypeOK, PhaseInv, NEW n \in 0..Count, NEW from \in {"error", "thrown"},
         CollectExc(n, from)
  PROVE  /\ QuietUsb
         /\ exc' \in {"error", "thrown"} /\ cl' \in Level /\ cl' >= cl_abort
  <1>1. CASE exc = "none"
    <2> DEFINE is == ToSet(Window(head, n))
    <2>1. Cancel(is, cl_abort) /\ exc' = from
      BY <1>1 DEF CollectExc
    <2>2. Waiting(is) \in SUBSET Transfers
      BY WindowSlots, WaitingTransfers
    <2>3. QuietUsb
      BY <2>1, <2>2, Cancelled DEF Cancel, Level, cl_none, cl_abort, cl_kill
    <2>4. cl' \in Level /\ cl' >= cl_abort
      BY <2>1 DEF Cancel, MaxLevel, BufferTypeOK, Level, cl_none, cl_abort, cl_kill
    <2> QED
      BY <2>1, <2>3, <2>4
  <1>2. CASE exc # "none"
    BY <1>2, UsbStays DEF CollectExc, PhaseInv, BufferTypeOK
  <1> QED
    BY <1>1, <1>2

(* A collected slot is the one at the head, and the head moves on.           *)
LEMMA Collected ==
  ASSUME BufferInv, Collect
  PROVE  /\ active \in 1..Count /\ slots[head].k = "result"
         /\ head' = Advance(head) /\ UNCHANGED <<phase, asked, dropped>>
         /\ CollectThrows \/ CollectValue \/ CollectError
         /\ slots[head].v = "ok" => slots[head].t \in Transfers
  BY SlotHolds DEF Collect, HasResult, BufferInv, BufferTypeOK, OrderInv

(* The types.                                                                *)
LEMMA TypeStep ==
  ASSUME BufferInv, [Next]_vars
  PROVE  BufferTypeOK' /\ \A t \in Transfers : urb[t] # "unused" => urb'[t] # "unused"
  <1> USE DEF BufferInv
  <1>1. CASE Dispatch /\ UNCHANGED buffer
    BY <1>1, Dispatched DEF QuietUsb, BufferTypeOK
  <1>2. ASSUME NEW i \in 0..Count-1, CreateFirst(i)
        PROVE  BufferTypeOK' /\ \A t \in Transfers : urb[t] # "unused" => urb'[t] # "unused"
    <2>1. CreateTask(i)
      BY <1>2 DEF CreateFirst
    <2>2. phase' \in {"creating", "constructing"}
          /\ UNCHANGED <<head, active, cl, exc, asked, collected, dropped>>
      BY <1>2 DEF CreateFirst
    <2> QED
      BY <2>1, <2>2, TaskCreated DEF BufferTypeOK
  <1>3. ASSUME NEW is \in SUBSET Active \ {{}}, FinishWait(is)
        PROVE  BufferTypeOK' /\ \A t \in Transfers : urb[t] # "unused" => urb'[t] # "unused"
    <2>1. is \in SUBSET (0..Count-1) /\ Waiting(is) \in SUBSET Transfers
      BY ActiveSlots, WaitingTransfers
    <2>2. QuietUsb
      BY <1>3, <2>1, Finished DEF FinishWait
    <2>3. slots' \in [0..Count-1 -> SlotValue]
      <3>1. ASSUME NEW i \in 0..Count-1
            PROVE  slots'[i] \in SlotValue
        <4>1. CASE i \in is
          <5>1. slots'[i] = Res(slots[i].t, status[slots[i].t]) /\ slots[i].k = "task"
            BY <1>3, <4>1 DEF FinishWait
          <5>2. slots[i].t \in Waiting(is) /\ slots[i].t \in Transfers
            BY <2>1, <4>1, <5>1, WaitingTransfers, SlotHolds
          <5>3. status[slots[i].t] \in {"ok", "failed"}
            BY <1>3, <5>2 DEF FinishWait, FinishTransfers, BufferTypeOK, UsbTypeOK, UsbInv, PhaseInv
          <5> QED
            BY <5>1, <5>2, <5>3 DEF SlotValue
        <4>2. CASE i \notin is
          BY <1>3, <4>2 DEF FinishWait, BufferTypeOK
        <4> QED
          BY <4>1, <4>2
      <3> QED
        BY <1>3, <3>1 DEF FinishWait
    <2> QED
      BY <1>3, <2>2, <2>3 DEF FinishWait, QuietUsb, BufferTypeOK
  <1>4. CASE Collect
    <2>1. /\ head' \in 0..Count-1 /\ active - 1 \in 0..Count
          /\ phase' \in {"creating", "constructing", "idle", "collecting", "dropping", "ended"}
          /\ asked' \in Level /\ dropped' \in BOOLEAN
          /\ slots[head].v = "ok" => Append(collected, slots[head].t) \in Seq(Transfers)
      <3>1. head' \in 0..Count-1 /\ active - 1 \in 0..Count
        BY <1>4, Collected, HeadMoves
      <3>2. slots[head].v = "ok" => Append(collected, slots[head].t) \in Seq(Transfers)
        BY <1>4, Collected DEF BufferTypeOK
      <3> QED
        BY <1>4, <3>1, <3>2, Collected DEF BufferTypeOK
    <2>2. CASE CollectThrows
      <3>1. QuietUsb /\ exc' \in {"error", "thrown"} /\ cl' \in Level
        BY <2>1, <2>2, ExcCollected DEF CollectThrows
      <3>2. collected' \in Seq(Transfers) /\ active' \in 0..Count /\ slots' = slots
        BY <2>1, <2>2 DEF CollectThrows
      <3> QED
        BY <2>1, <3>1, <3>2 DEF QuietUsb, BufferTypeOK
    <2>3. CASE CollectValue
      <3>1. collected' \in Seq(Transfers) /\ UNCHANGED <<cl, exc>>
        BY <2>1, <2>3 DEF CollectValue
      <3>2. CASE CreateTask(head) /\ UNCHANGED active
        <4>1. /\ UsbTypeOK' /\ slots' \in [0..Count-1 -> SlotValue]
              /\ \A t \in Transfers : urb[t] # "unused" => urb'[t] # "unused"
          <5>1. head \in 0..Count-1
            BY DEF BufferTypeOK
          <5> QED
            BY <3>2, <5>1, TaskCreated, TransferNumbers
        <4> QED
          BY <2>1, <3>1, <3>2, <4>1 DEF BufferTypeOK
      <3>3. CASE /\ slots' = [slots EXCEPT ![head] = None]
                 /\ active' = active - 1 /\ UNCHANGED usb
        <4>1. QuietUsb /\ slots' \in [0..Count-1 -> SlotValue]
          BY <3>3, UsbStays DEF BufferTypeOK, SlotValue
        <4> QED
          BY <2>1, <3>1, <3>3, <4>1 DEF QuietUsb, BufferTypeOK
      <3> QED
        BY <2>3, <3>2, <3>3 DEF CollectValue
    <2>4. CASE CollectError
      <3>1. QuietUsb /\ exc' \in {"error", "thrown"} /\ cl' \in Level
        BY <2>4, ExcCollected DEF CollectError, BufferTypeOK
      <3>2. slots' \in [0..Count-1 -> SlotValue] /\ active' = active - 1 /\ collected' = collected
        BY <2>4 DEF CollectError, BufferTypeOK, SlotValue
      <3> QED
        BY <2>1, <3>1, <3>2 DEF QuietUsb, BufferTypeOK
    <2> QED
      BY <1>4, <2>2, <2>3, <2>4, Collected
  <1>5. CASE CollectEnds
    BY <1>5, UsbStays DEF CollectEnds, QuietUsb, BufferTypeOK
  <1>6. CASE DropSlot
    <2>1. QuietUsb
      BY <1>6, WaitingTransfers, Discarded DEF DropSlot, BufferTypeOK
    <2>2. collected' \in Seq(Transfers)
      <3>1. (slots[head].k = "task" \/ slots[head].v = "ok") => slots[head].t \in Transfers
        BY SlotHolds DEF OrderInv, BufferTypeOK
      <3> QED
        BY <1>6, <3>1 DEF DropSlot, BufferTypeOK
    <2>3. head' \in 0..Count-1 /\ active' \in 0..Count /\ exc' \in {"none", "error", "thrown"}
      BY <1>6, HeadMoves DEF DropSlot, BufferTypeOK
    <2> QED
      BY <1>6, <2>1, <2>2, <2>3 DEF DropSlot, QuietUsb, BufferTypeOK
  <1>7. CASE DropEnds
    BY <1>7, UsbStays DEF DropEnds, QuietUsb, BufferTypeOK
  <1>8. CASE Kernel
    BY <1>8, Completed DEF Kernel, QuietUsb, BufferTypeOK
  <1>9. CASE DropBuffer
    BY <1>9, UsbStays DEF DropBuffer, QuietUsb, BufferTypeOK, Level, cl_none, cl_kill
  <1>10. ASSUME NEW l \in CancelLevels, CancelBuffer(l)
         PROVE  BufferTypeOK' /\ \A t \in Transfers : urb[t] # "unused" => urb'[t] # "unused"
    <2>1. l \in Level
      BY BufferLevelAssumption
    <2>2. QuietUsb
      BY <1>10, <2>1, ActiveSlots, WaitingTransfers, Cancelled DEF CancelBuffer, Cancel
    <2> QED
      BY <1>10, <2>1, <2>2
         DEF CancelBuffer, Cancel, MaxLevel, QuietUsb, BufferTypeOK, Level, cl_none, cl_kill
  <1>11. CASE UNCHANGED vars
    BY <1>11, UsbStays DEF QuietUsb, BufferTypeOK
  <1> QED
    BY <1>1, <1>2, <1>3, <1>4, <1>5, <1>6, <1>7, <1>8, <1>9, <1>10, <1>11 DEF Next, Runner

(* The phases.                                                               *)
LEMMA PhaseStep ==
  ASSUME BufferInv, [Next]_vars
  PROVE  PhaseInv'
  <1> USE DEF BufferInv
  <1>1. CASE UNCHANGED buffer
    BY <1>1 DEF PhaseInv
  <1>2. ASSUME NEW i \in 0..Count-1, CreateFirst(i)
        PROVE  PhaseInv'
    <2>1. /\ phase = "creating" /\ phase' \in {"creating", "constructing"}
          /\ UNCHANGED <<head, active, cl, exc, asked, collected, dropped>>
      BY <1>2 DEF CreateFirst
    <2>2. /\ \A j \in 0..Count-1 \ {i} : slots'[j] = slots[j]
          /\ slots'[i].k # "empty"
      BY <1>2, TaskCreated DEF CreateFirst
    <2>3. ASSUME NEW j \in 0..Count-1, NEW k \in 0..Count-1, j < k, slots'[j] = None
          PROVE  slots'[k] = None
      <3>1. j # i
        BY <2>2, <2>3 DEF None
      <3>2. slots[j] = None /\ slots[k] = None
        BY <2>1, <2>2, <2>3, <3>1 DEF PhaseInv
      <3>3. k # i
        <4>1. ~(j < i)
          BY <1>2, <3>2 DEF CreateFirst
        <4> QED
          BY <2>3, <4>1
      <3> QED
        BY <2>2, <3>2, <3>3
    <2> QED
      BY <2>1, <2>3 DEF PhaseInv
  <1>3. ASSUME NEW is \in SUBSET Active \ {{}}, FinishWait(is)
        PROVE  PhaseInv'
    BY <1>3 DEF FinishWait, PhaseInv
  <1>4. CASE Collect
    <2>1. /\ phase' = phase /\ phase \in {"constructing", "collecting"}
          /\ ~dropped /\ dropped' = dropped
      BY <1>4 DEF Collect, PhaseInv
    <2>2. active' < Count => cl' >= cl_quit
      <3>1. CASE CollectThrows
        BY <3>1, ExcCollected, <1>4, Collected
           DEF CollectThrows, Level, cl_none, cl_quit, cl_abort, cl_kill
      <3>2. CASE CollectValue
        BY <3>2 DEF CollectValue, BufferTypeOK, PhaseInv, Level, cl_none, cl_quit, cl_kill
      <3>3. CASE CollectError
        BY <3>3, ExcCollected
           DEF CollectError, BufferTypeOK, Level, cl_none, cl_quit, cl_abort, cl_kill
      <3> QED
        BY <1>4, <3>1, <3>2, <3>3, Collected
    <2>3. exc' # "none" => cl' >= cl_abort
      <3>1. CASE CollectThrows
        BY <3>1, ExcCollected, <1>4, Collected DEF CollectThrows
      <3>2. CASE CollectValue
        BY <3>2 DEF CollectValue, PhaseInv
      <3>3. CASE CollectError
        BY <3>3, ExcCollected DEF CollectError, BufferTypeOK
      <3> QED
        BY <1>4, <3>1, <3>2, <3>3, Collected
    <2> QED
      BY <2>1, <2>2, <2>3 DEF PhaseInv
  <1>5. CASE CollectEnds
    BY <1>5 DEF CollectEnds, PhaseInv
  <1>6. CASE DropSlot
    BY <1>6 DEF DropSlot, PhaseInv, cl_quit, cl_abort, cl_kill
  <1>7. CASE DropEnds
    BY <1>7 DEF DropEnds, PhaseInv
  <1>8. CASE DropBuffer
    BY <1>8 DEF DropBuffer, PhaseInv, cl_quit, cl_abort, cl_kill
  <1>9. ASSUME NEW l \in CancelLevels, CancelBuffer(l)
        PROVE  PhaseInv'
    <2>1. cl \in Int /\ cl' \in Int /\ cl' >= cl
      BY <1>9, BufferLevelAssumption
         DEF CancelBuffer, Cancel, MaxLevel, BufferTypeOK, Level, cl_none, cl_kill
    <2> QED
      BY <1>9, <2>1 DEF CancelBuffer, PhaseInv, cl_quit, cl_abort
  <1> QED
    BY <1>1, <1>2, <1>3, <1>4, <1>5, <1>6, <1>7, <1>8, <1>9 DEF Next, Runner, Kernel

(* As the head moves on, every slot but the last is the next one before.     *)
LEMMA SlotsMove ==
  ASSUME BufferInv, head' = Advance(head), NEW n \in 1..Count,
         \A i \in 0..Count-1 \ {head} : slots'[i] = slots[i]
  PROVE  \A j \in 0..n-2 : j + 1 \in 0..n-1 /\ Slot(j)' = Slot(j + 1)
  <1>1. ASSUME NEW j \in 0..n-2
        PROVE  j + 1 \in 0..n-1 /\ Slot(j)' = Slot(j + 1)
    <2>1. j \in 0..Count-2 /\ j + 1 \in 0..Count-1 /\ 0 \in 0..Count-1
      BY CountAssumption
    <2>2. At(j)' = At(j + 1) /\ At(j + 1) \in 0..Count-1
      BY <2>1, HeadMoves DEF BufferInv
    <2>3. At(j + 1) # head
      BY <2>1, HeadMoves, CountAssumption DEF BufferInv
    <2> QED
      BY <2>2, <2>3 DEF Slot
  <1> QED
    BY <1>1

(* What is appended comes last.                                              *)
LEMMA Appended ==
  ASSUME BufferTypeOK, NEW t \in Transfers, collected' = Append(collected, t)
  PROVE  /\ collected' \in Seq(Transfers)
         /\ DOMAIN collected' = DOMAIN collected \cup {Len(collected) + 1}
         /\ collected'[Len(collected) + 1] = t
         /\ \A n \in DOMAIN collected : n \in Nat /\ n < Len(collected) + 1
                                       /\ collected'[n] = collected[n]
  BY DEF BufferTypeOK

(* A slot is left behind, its transfer collected or not.                     *)
LEMMA OrderAdvances ==
  ASSUME BufferInv, BufferTypeOK',
         \A t \in Transfers : urb[t] # "unused" => urb'[t] # "unused",
         active \in 1..Count, head' = Advance(head), active' = active - 1,
         \A i \in 0..Count-1 \ {head} : slots'[i] = slots[i],
         slots'[head] \in {slots[head], None},
         \/ collected' = collected
         \/ slots[head].t \in Transfers /\ collected' = Append(collected, slots[head].t)
  PROVE  OrderInv'
  <1> USE DEF BufferInv
  <1>1. \A j \in 0..active'-1 : /\ j + 1 \in 0..active-1 /\ Slot(j)' = Slot(j + 1)
    BY SlotsMove
  <1>2. Slot(0) = slots[head] /\ 0 \in 0..active-1
    BY HeadMoves, CountAssumption DEF Slot
  <1>3. \A i \in 0..Count-1 : /\ slots[i].t \in Transfers \cup {0}
                              /\ slots'[i] = slots[i] \/ (slots'[i].t = 0 /\ slots'[i].v = "none")
    <2>1. None.t = 0 /\ None.v = "none"
      BY DEF None
    <2>2. \A i \in 0..Count-1 : slots[i].t \in Transfers \cup {0}
      BY SlotHolds
    <2>3. ASSUME NEW i \in 0..Count-1
          PROVE  slots'[i] = slots[i] \/ (slots'[i].t = 0 /\ slots'[i].v = "none")
      <3>1. slots'[i] = slots[i] \/ slots'[i] = None
        OBVIOUS
      <3>2. slots'[i] = None => slots'[i].t = 0 /\ slots'[i].v = "none"
        BY <2>1, Zenon
      <3> QED
        BY <3>1, <3>2, Zenon
    <2> QED
      BY <2>2, <2>3
  <1>4. /\ \A n \in DOMAIN collected' :
              \/ n \in DOMAIN collected /\ collected'[n] = collected[n]
              \/ collected'[n] = slots[head].t /\ slots[head].t \in Transfers
        /\ \A m, n \in DOMAIN collected' : m < n =>
              m \in DOMAIN collected /\ collected'[m] = collected[m]
    <2>1. CASE collected' = collected
      BY <2>1
    <2>2. CASE slots[head].t \in Transfers /\ collected' = Append(collected, slots[head].t)
      BY <2>2, Appended
    <2> QED
      BY <2>1, <2>2
  <1>5. \A j, k \in 0..active'-1 :
          j < k /\ Slot(j).t' # 0 /\ Slot(k).t' # 0 => Slot(j).t' < Slot(k).t'
    <2>1. SUFFICES ASSUME NEW j \in 0..active'-1, NEW k \in 0..active'-1, j < k,
                          Slot(j).t' # 0, Slot(k).t' # 0
                   PROVE  Slot(j).t' < Slot(k).t'
      OBVIOUS
    <2>2. j + 1 < k + 1
      BY <2>1, <1>1 DEF BufferTypeOK
    <2> QED
      BY <1>1, <2>1, <2>2 DEF OrderInv
  <1>6. \A n \in DOMAIN collected', j \in 0..active'-1 : Slot(j).t' # 0 => collected'[n] < Slot(j).t'
    <2>1. SUFFICES ASSUME NEW n \in DOMAIN collected', NEW j \in 0..active'-1, Slot(j).t' # 0
                   PROVE  collected'[n] < Slot(j).t'
      OBVIOUS
    <2>2. 0 < j + 1
      BY DEF BufferTypeOK
    <2>3. CASE n \in DOMAIN collected /\ collected'[n] = collected[n]
      BY <1>1, <2>1, <2>3 DEF OrderInv
    <2>4. CASE collected'[n] = slots[head].t /\ slots[head].t \in Transfers
      BY <1>1, <1>2, <2>1, <2>2, <2>4, TransferNumbers DEF OrderInv
    <2> QED
      BY <1>4, <2>3, <2>4
  <1>7. \A m, n \in DOMAIN collected' : m < n => collected'[m] < collected'[n]
    BY <1>2, <1>4, TransferNumbers DEF OrderInv
  <1>8. /\ \A n \in DOMAIN collected' : urb'[collected'[n]] # "unused"
        /\ \A i \in 0..Count-1 : slots'[i].t # 0 => urb'[slots'[i].t] # "unused"
        /\ \A i \in 0..Count-1 : slots'[i].v = "ok" => slots'[i].t # 0
    <2>1. \A n \in DOMAIN collected : collected[n] \in Transfers
      BY DEF BufferTypeOK
    <2>2. head \in 0..Count-1
      BY DEF BufferTypeOK
    <2> QED
      BY <1>3, <1>4, <2>1, <2>2, TransferNumbers DEF OrderInv
  <1> QED
    BY <1>5, <1>6, <1>7, <1>8 DEF OrderInv

(* The transfer of a slot that is filled is the last.                        *)
LEMMA OrderCreates ==
  ASSUME BufferInv, BufferTypeOK', NEW i \in 0..Count-1, CreateTask(i), active = Count,
         active' = active,
         \/ /\ head = 0 /\ head' = 0 /\ collected' = collected
            /\ \A j \in i+1..Count-1 : slots[j].t = 0
         \/ /\ i = head /\ head' = Advance(head)
            /\ slots[head].t \in Transfers /\ collected' = Append(collected, slots[head].t)
  PROVE  OrderInv'
  <1> USE DEF BufferInv
  <1> DEFINE t == slots'[i].t
  <1>1. /\ \A j \in 0..Count-1 \ {i} : slots'[j] = slots[j]
        /\ t \in Transfers \cup {0} /\ slots'[i].v # "ok"
        /\ t # 0 => urb'[t] # "unused"
        /\ t # 0 => \A u \in Transfers : urb[u] # "unused" => u < t
        /\ \A u \in Transfers : urb[u] # "unused" => urb'[u] # "unused"
    BY TaskCreated, TransferNumbers
  <1> HIDE DEF t
  <1>2. \A n \in DOMAIN collected : /\ collected[n] \in Transfers /\ urb[collected[n]] # "unused"
                                    /\ t # 0 => collected[n] < t
    <2>1. \A n \in DOMAIN collected : collected[n] \in Transfers
      BY DEF BufferTypeOK
    <2> QED
      BY <1>1, <2>1 DEF OrderInv
  <1>3. \A j \in 0..Count-1 : /\ slots[j].t \in Transfers \cup {0}
                              /\ t # 0 /\ slots[j].t # 0 => slots[j].t < t
    BY <1>1, SlotHolds DEF OrderInv
  <1>4. CASE /\ head = 0 /\ head' = 0 /\ collected' = collected
             /\ \A j \in i+1..Count-1 : slots[j].t = 0
    <2>1. \A j \in 0..Count-1 : Slot(j) = slots[j] /\ Slot(j)' = slots'[j]
      <3>1. \A j \in 0..Count-1 : (0 + j) % Count = j
        BY CountAssumption
      <3> QED
        BY <1>4, <3>1 DEF Slot, At
    <2>2. ASSUME NEW j \in 0..Count-1, NEW k \in 0..Count-1,
                 j < k, slots'[j].t # 0, slots'[k].t # 0
          PROVE  slots'[j].t < slots'[k].t
      <3>1. CASE j = i
        <4>1. k \in i+1..Count-1 /\ k # i
          BY <2>2, <3>1
        <4> QED
          BY <1>1, <1>4, <2>2, <4>1
      <3>2. CASE k = i
        BY <1>1, <1>3, <2>2, <3>2 DEF t
      <3>3. CASE j # i /\ k # i
        BY <1>1, <2>1, <2>2, <3>3 DEF OrderInv
      <3> QED
        BY <3>1, <3>2, <3>3
    <2>3. ASSUME NEW n \in DOMAIN collected, NEW j \in 0..Count-1, slots'[j].t # 0
          PROVE  collected[n] < slots'[j].t
      <3>1. CASE j = i
        BY <1>2, <2>3, <3>1 DEF t
      <3>2. CASE j # i
        BY <1>1, <2>1, <2>3, <3>2 DEF OrderInv
      <3> QED
        BY <3>1, <3>2
    <2>4. \A j \in 0..Count-1 : /\ slots'[j].t # 0 => urb'[slots'[j].t] # "unused"
                                /\ slots'[j].v = "ok" => slots'[j].t # 0
      BY <1>1, <1>3 DEF OrderInv, t
    <2>5. \A m, n \in DOMAIN collected : m < n => collected[m] < collected[n]
      BY DEF OrderInv
    <2> QED
      BY <1>1, <1>2, <1>4, <2>1, <2>2, <2>3, <2>4, <2>5 DEF OrderInv
  <1>5. CASE /\ i = head /\ head' = Advance(head)
             /\ slots[head].t \in Transfers /\ collected' = Append(collected, slots[head].t)
    <2>1. /\ \A j \in 0..Count-2 : j + 1 \in 0..Count-1 /\ Slot(j)' = Slot(j + 1)
          /\ Slot(Count - 1)' = slots'[head]
      <3>1. Count \in 1..Count
        BY CountAssumption
      <3>2. At(Count - 1)' = head
        BY <1>5, HeadMoves
      <3> QED
        BY <1>1, <1>5, <3>1, <3>2, SlotsMove DEF Slot
    <2>2. Slot(0) = slots[head] /\ 0 \in 0..Count-1
      BY HeadMoves, CountAssumption DEF Slot
    <2>3. \A j \in 0..Count-1 : j \in 0..Count-2 \/ j = Count - 1
      BY CountAssumption
    <2>4. \A j \in 0..Count-1 : /\ Slot(j).t \in Transfers \cup {0}
                                /\ t # 0 /\ Slot(j).t # 0 => Slot(j).t < t
      BY <1>3, HeadMoves DEF Slot
    <2>5. ASSUME NEW j \in 0..Count-1, NEW k \in 0..Count-1,
                 j < k, Slot(j).t' # 0, Slot(k).t' # 0
          PROVE  Slot(j).t' < Slot(k).t'
      <3>1. j \in 0..Count-2
        BY <2>5
      <3>2. CASE k = Count - 1
        BY <1>5, <2>1, <2>4, <2>5, <3>1, <3>2 DEF t
      <3>3. CASE k \in 0..Count-2
        <4>1. j + 1 < k + 1
          BY <2>5
        <4> QED
          BY <2>1, <2>5, <3>1, <3>3, <4>1 DEF OrderInv
      <3> QED
        BY <2>3, <3>2, <3>3
    <2>6. /\ \A n \in DOMAIN collected' :
                \/ n \in DOMAIN collected /\ collected'[n] = collected[n]
                \/ collected'[n] = slots[head].t
          /\ \A m, n \in DOMAIN collected' : m < n =>
                m \in DOMAIN collected /\ collected'[m] = collected[m]
      BY <1>5, Appended
    <2>7. /\ slots[head].t # 0 /\ urb'[slots[head].t] # "unused"
          /\ \A n \in DOMAIN collected : collected[n] < slots[head].t
      <3>1. slots[head].t # 0 /\ urb[slots[head].t] # "unused"
        BY <1>5, TransferNumbers DEF OrderInv
      <3> QED
        BY <1>1, <1>5, <2>2, <3>1 DEF OrderInv
    <2>8. ASSUME NEW n \in DOMAIN collected', NEW j \in 0..Count-1, Slot(j).t' # 0
          PROVE  collected'[n] < Slot(j).t'
      <3>1. CASE j = Count - 1
        BY <1>2, <1>3, <1>5, <2>1, <2>6, <2>7, <2>8, <3>1 DEF t
      <3>2. CASE j \in 0..Count-2
        <4>1. 0 < j + 1 /\ j + 1 \in 0..Count-1 /\ Slot(j)' = Slot(j + 1)
          BY <2>1, <3>2
        <4>2. slots[head].t < Slot(j).t'
          BY <2>2, <2>7, <2>8, <4>1 DEF OrderInv
        <4>3. \A m \in DOMAIN collected : collected[m] < Slot(j).t'
          BY <2>8, <4>1 DEF OrderInv
        <4> QED
          BY <2>6, <4>2, <4>3
      <3> QED
        BY <2>3, <3>1, <3>2
    <2>9. \A m, n \in DOMAIN collected' : m < n => collected'[m] < collected'[n]
      BY <2>6, <2>7 DEF OrderInv
    <2>10. \A n \in DOMAIN collected' : urb'[collected'[n]] # "unused"
      BY <1>1, <1>2, <2>6, <2>7
    <2>11. \A j \in 0..Count-1 : /\ slots'[j].t # 0 => urb'[slots'[j].t] # "unused"
                                 /\ slots'[j].v = "ok" => slots'[j].t # 0
      BY <1>1, <1>3 DEF OrderInv, t
    <2> QED
      BY <2>5, <2>8, <2>9, <2>10, <2>11 DEF OrderInv
  <1> QED
    BY <1>4, <1>5

(* The order.                                                                *)
LEMMA OrderStep ==
  ASSUME BufferInv, BufferTypeOK', [Next]_vars,
         \A t \in Transfers : urb[t] # "unused" => urb'[t] # "unused"
  PROVE  OrderInv'
  <1> USE DEF BufferInv
  <1>1. CASE UNCHANGED <<slots, head, active, collected>>
    <2>1. /\ \A n \in DOMAIN collected : collected[n] \in Transfers
          /\ \A i \in 0..Count-1 : slots[i].t # 0 => slots[i].t \in Transfers
      BY SlotHolds DEF BufferTypeOK
    <2>2. \A j \in 0..active-1 : Slot(j)' = Slot(j)
      BY <1>1 DEF Slot, At
    <2> QED
      BY <1>1, <2>1, <2>2 DEF OrderInv
  <1>2. ASSUME NEW i \in 0..Count-1, CreateFirst(i)
        PROVE  OrderInv'
    <2>1. /\ CreateTask(i) /\ phase = "creating" /\ slots[i] = None
          /\ UNCHANGED <<head, active, collected>>
      BY <1>2 DEF CreateFirst
    <2>2. \A j \in i+1..Count-1 : slots[j].t = 0
      <3>1. \A j \in i+1..Count-1 : j \in 0..Count-1 /\ slots[j] = None
        BY <2>1 DEF PhaseInv
      <3> QED
        BY <3>1, SlotHolds
    <2> QED
      BY <2>1, <2>2, OrderCreates DEF PhaseInv
  <1>3. ASSUME NEW is \in SUBSET Active \ {{}}, FinishWait(is)
        PROVE  OrderInv'
    <2>1. /\ UNCHANGED <<head, active, collected>>
          /\ \A i \in 0..Count-1 : /\ slots'[i].t = slots[i].t
                                   /\ slots[i].t # 0 => slots[i].t \in Transfers
                                   /\ slots'[i].v = "ok" => slots'[i].t # 0
      <3>1. UNCHANGED <<head, active, collected>>
        BY <1>3 DEF FinishWait
      <3>2. ASSUME NEW i \in 0..Count-1
            PROVE  /\ slots'[i].t = slots[i].t
                   /\ slots[i].t # 0 => slots[i].t \in Transfers
                   /\ slots'[i].v = "ok" => slots'[i].t # 0
        <4>1. CASE i \in is
          <5>1. /\ slots'[i] = Res(slots[i].t, status[slots[i].t])
                /\ slots[i].k = "task"
            BY <1>3, <4>1 DEF FinishWait
          <5> QED
            BY <5>1, SlotHolds, TransferNumbers DEF Res
        <4>2. CASE i \notin is
          <5>1. slots'[i] = slots[i]
            BY <1>3, <4>2 DEF FinishWait
          <5> QED
            BY <5>1, SlotHolds DEF OrderInv
        <4> QED
          BY <4>1, <4>2
      <3> QED
        BY <3>1, <3>2
    <2>2. \A j \in 0..active-1 : Slot(j).t' = Slot(j).t
      <3>1. \A j \in 0..active-1 : At(j) \in 0..Count-1 /\ At(j)' = At(j)
        BY <2>1, HeadMoves DEF At, BufferTypeOK
      <3> QED
        BY <2>1, <3>1 DEF Slot
    <2>3. \A n \in DOMAIN collected : collected[n] \in Transfers
      BY DEF BufferTypeOK
    <2> QED
      BY <2>1, <2>2, <2>3 DEF OrderInv
  <1>4. CASE Collect
    <2>1. /\ active \in 1..Count /\ head' = Advance(head) /\ head \in 0..Count-1
          /\ slots[head].v = "ok" => slots[head].t \in Transfers
      BY <1>4, Collected DEF BufferTypeOK
    <2>2. CASE CollectThrows
      <3>1. /\ active' = active - 1 /\ slots' = slots /\ slots[head].t \in Transfers
            /\ collected' = Append(collected, slots[head].t)
        BY <2>1, <2>2 DEF CollectThrows
      <3> QED
        BY <2>1, <3>1, OrderAdvances
    <2>3. CASE CollectValue
      <3>1. slots[head].t \in Transfers /\ collected' = Append(collected, slots[head].t)
        BY <2>1, <2>3 DEF CollectValue
      <3>2. CASE cl < cl_quit /\ CreateTask(head) /\ UNCHANGED active
        <4>1. active = Count
          BY <2>1, <3>2 DEF PhaseInv, BufferTypeOK, Level, cl_none, cl_quit, cl_kill
        <4> QED
          BY <2>1, <3>1, <3>2, <4>1, OrderCreates, Zenon
      <3>3. CASE slots' = [slots EXCEPT ![head] = None] /\ active' = active - 1
        <4>1. /\ \A i \in 0..Count-1 \ {head} : slots'[i] = slots[i]
              /\ slots'[head] = None
          BY <2>1, <3>3 DEF BufferTypeOK
        <4> QED
          BY <2>1, <3>1, <3>3, <4>1, OrderAdvances, Zenon
      <3> QED
        BY <2>3, <3>2, <3>3 DEF CollectValue
    <2>4. CASE CollectError
      <3>1. /\ \A i \in 0..Count-1 \ {head} : slots'[i] = slots[i]
            /\ slots'[head] = None /\ active' = active - 1 /\ collected' = collected
        BY <2>1, <2>4 DEF CollectError, BufferTypeOK
      <3> QED
        BY <2>1, <3>1, OrderAdvances
    <2> QED
      BY <1>4, <2>2, <2>3, <2>4, Collected
  <1>5. CASE DropSlot
    <2>1. /\ active \in 1..Count /\ head' = Advance(head) /\ active' = active - 1 /\ slots' = slots
      BY <1>5 DEF DropSlot, BufferTypeOK
    <2>2. \/ collected' = collected
          \/ slots[head].t \in Transfers /\ collected' = Append(collected, slots[head].t)
      <3>1. (slots[head].k = "task" \/ slots[head].v = "ok") => slots[head].t \in Transfers
        BY SlotHolds DEF OrderInv, BufferTypeOK
      <3> QED
        BY <1>5, <3>1 DEF DropSlot
    <2> QED
      BY <2>1, <2>2, OrderAdvances
  <1> QED
    BY <1>1, <1>2, <1>3, <1>4, <1>5
       DEF Next, Runner, Kernel, CollectEnds, DropEnds, DropBuffer, CancelBuffer

(* The device, as long as the task was not dropped.                          *)
LEMMA UsbStep ==
  ASSUME BufferInv, BufferTypeOK', [Next]_vars, ~dropped, ~dropped'
  PROVE  UsbInv'
  <1> USE DEF BufferInv
  <1> DEFINE Cut(ts) == /\ Discard(ts) /\ ts \subseteq Transfers
                        /\ UNCHANGED <<plugged, core>>
  <1>1. ASSUME NEW ts, Cut(ts)
        PROVE  UsbInv'
    <2>1. ASSUME NEW t \in Transfers
          PROVE  /\ urb'[t] = "kernel" => urb[t] = "kernel"
                 /\ urb'[t] = "completed" => urb[t] \in {"kernel", "completed"}
                 /\ urb'[t] = "unused" => urb[t] = "unused"
                 /\ urb'[t] \in {"completed", "reaped"} => outcome'[t] # "none"
      BY <1>1 DEF Discard, Held, UsbInv, BufferTypeOK, UsbTypeOK
    <2> HIDE DEF BufferInv
    <2>2. UsbInv
      BY DEF BufferInv
    <2>3. Held("kernel")' \cup Held("completed")' \subseteq Held("kernel") \cup Held("completed")
      BY <2>1 DEF Held
    <2> QED
      BY <1>1, <2>1, <2>2, <2>3 DEF UsbInv
  <1>2. CASE UNCHANGED usb
    BY <1>2 DEF UsbInv, Held
  <1>3. CASE HangUp
    BY <1>3 DEF HangUp, KillPendingUrbs, UsesFreed, UsbInv, Held, BufferTypeOK, UsbTypeOK
  <1>4. ASSUME NEW t \in Transfers, Reap(t)
        PROVE  UsbInv'
    <2>1. t \in pending /\ t \in context /\ t \notin done /\ outcome[t] # "none"
      BY <1>4 DEF Reap, UsbInv, Held
    <2>2. /\ urb' = [urb EXCEPT ![t] = "reaped"]
          /\ status' = [status EXCEPT ![t] = outcome[t]]
          /\ done' = done \cup {t}
          /\ pending' = pending \ {t}
          /\ UNCHANGED <<plugged, outcome, context, dispatch>>
      BY <1>4, <2>1 DEF Reap
    <2> QED
      BY <2>1, <2>2 DEF UsbInv, Held, BufferTypeOK, UsbTypeOK
  <1>5. ASSUME NEW t \in Transfers, Complete(t)
        PROVE  UsbInv'
    <2>1. /\ urb[t] = "kernel" /\ urb' = [urb EXCEPT ![t] = "completed"]
          /\ outcome'[t] # "none" /\ \A u \in Transfers \ {t} : outcome'[u] = outcome[u]
          /\ UNCHANGED <<plugged, core>>
      BY <1>5 DEF Complete, BufferTypeOK, UsbTypeOK
    <2> QED
      BY <2>1 DEF UsbInv, Held, BufferTypeOK, UsbTypeOK
  <1>6. CASE Unplug
    BY <1>6 DEF Unplug, UsbInv, Held
  <1>7. ASSUME NEW i \in 0..Count-1, CreateTask(i)
        PROVE  UsbInv'
    <2> DEFINE t == slots'[i].t
    <2>1. /\ t # 0 => t \in Transfers /\ urb[t] = "unused" /\ urb'[t] # "unused"
          /\ \A u \in Transfers : u # t => urb'[u] = urb[u]
          /\ UNCHANGED <<plugged, outcome, status, done, dispatch>>
          /\ \/ /\ t # 0 /\ plugged /\ urb'[t] = "kernel"
                /\ pending' = pending \cup {t} /\ context' = context \cup {t}
             \/ /\ UNCHANGED <<pending, context>>
                /\ t # 0 => urb'[t] = "refused"
      BY <1>7, TaskCreated
    <2> HIDE DEF t
    <2>2. CASE /\ t # 0 /\ plugged /\ urb'[t] = "kernel"
               /\ pending' = pending \cup {t} /\ context' = context \cup {t}
      BY <2>1, <2>2 DEF UsbInv, Held
    <2>3. CASE UNCHANGED <<pending, context>> /\ (t # 0 => urb'[t] = "refused")
      <3>1. \A u \in Transfers : urb'[u] = urb[u] \/ urb'[u] = "refused"
        BY <2>1, <2>3, TransferNumbers
      <3> QED
        BY <2>1, <2>3, <3>1 DEF UsbInv, Held
    <2> QED
      BY <2>1, <2>2, <2>3
  <1>8. ASSUME NEW ts \in SUBSET Transfers, NEW l \in Level, CancelTransfers(ts, l)
        PROVE  UsbInv'
    BY <1>1, <1>2, <1>8 DEF CancelTransfers
  <1>9. ASSUME NEW n \in 0..Count, NEW from, CollectExc(n, from)
        PROVE  UsbInv'
    <2>1. Waiting(ToSet(Window(head, n))) \in SUBSET Transfers
      BY WindowSlots, WaitingTransfers
    <2> QED
      BY <1>2, <1>8, <1>9, <2>1 DEF CollectExc, Cancel, Level, cl_none, cl_abort, cl_kill
  <1>10. ASSUME NEW is \in SUBSET Active \ {{}}, FinishWait(is)
         PROVE  UsbInv'
    BY <1>10 DEF FinishWait, FinishTransfers, UsbInv, Held
  <1>11. CASE Collect
    <2>1. active \in 1..Count /\ head \in 0..Count-1
      BY <1>11, Collected DEF BufferTypeOK
    <2>2. CASE CollectThrows
      BY <1>9, <2>1, <2>2 DEF CollectThrows
    <2>3. CASE CollectValue
      BY <1>2, <1>7, <2>1, <2>3 DEF CollectValue
    <2>4. CASE CollectError
      BY <1>9, <2>1, <2>4 DEF CollectError
    <2> QED
      BY <1>11, <2>2, <2>3, <2>4, Collected
  <1>12. ASSUME NEW l \in CancelLevels, CancelBuffer(l)
         PROVE  UsbInv'
    BY <1>8, <1>12, BufferLevelAssumption, ActiveSlots, WaitingTransfers DEF CancelBuffer, Cancel
  <1> HIDE DEF BufferInv
  <1>13. ~DropSlot
    BY DEF DropSlot, BufferInv, PhaseInv
  <1>14. CASE Dispatch
    BY <1>3, <1>4, <1>14 DEF Dispatch
  <1>15. CASE Kernel
    BY <1>5, <1>6, <1>15 DEF Kernel
  <1>16. ASSUME NEW i \in 0..Count-1, CreateFirst(i)
         PROVE  UsbInv'
    BY <1>7, <1>16 DEF CreateFirst
  <1> QED
    BY <1>2, <1>10, <1>11, <1>12, <1>13, <1>14, <1>15, <1>16
       DEF Next, Runner, CollectEnds, DropEnds, DropBuffer

(* A collected result leaves the slots.                                      *)
LEMMA ResultLeaves ==
  ASSUME BufferInv, SlotInv, BufferTypeOK',
         active \in 1..Count, head' = Advance(head), active' = active - 1,
         \A i \in 0..Count-1 \ {head} : slots'[i] = slots[i],
         slots'[head] \in {slots[head], None}, slots[head].k = "result",
         UNCHANGED <<status, pending, context>>,
         \/ slots[head].v # "ok" /\ collected' = collected
         \/ /\ slots[head].v = "ok" /\ slots[head].t \in Transfers
            /\ collected' = Append(collected, slots[head].t)
  PROVE  SlotInv'
  <1> USE DEF BufferInv
  <1>1. \A j \in 0..active'-1 : j + 1 \in 0..active-1 /\ Slot(j)' = Slot(j + 1)
    BY SlotsMove
  <1>2. Slot(0) = slots[head] /\ 0 \in 0..active-1 /\ head \in 0..Count-1
    BY HeadMoves, CountAssumption DEF Slot, BufferTypeOK
  <1>3. \A j \in 0..active-1 : j = 0 \/ \E i \in 0..active'-1 : j = i + 1
    <2>1. \A j \in 0..active-1 : j = 0 \/ (j - 1 \in 0..active'-1 /\ j = (j - 1) + 1)
      BY DEF BufferTypeOK
    <2> QED
      BY <2>1
  <1>4. \A i \in 0..Count-1 : slots'[i].k = "task" \/ slots'[i].v = "ok" \/ slots'[i] # None
                               => slots'[i] = slots[i]
    <2>1. None.k # "task" /\ None.v # "ok"
      BY DEF None
    <2> QED
      BY <2>1
  <1>5. \A i \in 0..Count-1 : slots'[i].k = "task" => i # head /\ slots'[i] = slots[i]
    BY <1>2, <1>4
  <1>6. /\ \A n \in DOMAIN collected' :
              \/ n \in DOMAIN collected /\ collected'[n] = collected[n]
              \/ collected'[n] = slots[head].t /\ slots[head].v = "ok"
        /\ \A n \in DOMAIN collected : n \in DOMAIN collected' /\ collected'[n] = collected[n]
        /\ slots[head].v = "ok" => \E n \in DOMAIN collected' : collected'[n] = slots[head].t
    <2>1. CASE slots[head].v # "ok" /\ collected' = collected
      BY <2>1
    <2>2. CASE /\ slots[head].v = "ok" /\ slots[head].t \in Transfers
               /\ collected' = Append(collected, slots[head].t)
      BY <2>2, Appended
    <2> QED
      BY <2>1, <2>2
  <1>7. \A i \in 0..Count-1 : slots'[i].k = "task" => slots'[i].t \in context'
    BY <1>5 DEF SlotInv
  <1>8. \A i, j \in 0..Count-1 :
          slots'[i].k = "task" /\ slots'[j].k = "task" /\ slots'[i].t = slots'[j].t => i = j
    BY <1>5 DEF SlotInv
  <1>9. ASSUME NEW t \in pending'
        PROVE  \E j \in 0..active'-1 : Slot(j).k' = "task" /\ Slot(j).t' = t
    <2>1. PICK j \in 0..active-1 : Slot(j).k = "task" /\ Slot(j).t = t
      BY <1>9 DEF SlotInv
    <2>2. PICK i \in 0..active'-1 : j = i + 1
      BY <1>2, <1>3, <2>1
    <2>3. Slot(i)' = Slot(j)
      BY <1>1, <2>2
    <2> QED
      BY <2>1, <2>3
  <1>10. \A i \in 0..Count-1 : slots'[i].v = "ok" => status'[slots'[i].t] = "ok"
    BY <1>4 DEF SlotInv
  <1>11. \A n \in DOMAIN collected' : status'[collected'[n]] = "ok"
    BY <1>2, <1>6 DEF SlotInv
  <1>12. ASSUME NEW t \in Transfers, status'[t] = "ok"
         PROVE  \/ \E n \in DOMAIN collected' : collected'[n] = t
                \/ \E j \in 0..active'-1 :
                      Slot(j).t' = t /\ (Slot(j).k' = "task" \/ Slot(j).v' = "ok")
    <2>1. CASE \E n \in DOMAIN collected : collected[n] = t
      BY <1>6, <2>1
    <2>2. CASE \E j \in 0..active-1 : Slot(j).t = t /\ (Slot(j).k = "task" \/ Slot(j).v = "ok")
      <3>1. PICK j \in 0..active-1 : Slot(j).t = t /\ (Slot(j).k = "task" \/ Slot(j).v = "ok")
        BY <2>2
      <3>2. CASE j = 0
        BY <1>2, <1>6, <3>1, <3>2
      <3>3. CASE j # 0
        <4>1. PICK i \in 0..active'-1 : j = i + 1
          BY <1>3, <3>3
        <4>2. Slot(i)' = Slot(j)
          BY <1>1, <4>1
        <4> QED
          BY <3>1, <4>2
      <3> QED
        BY <3>2, <3>3
    <2> QED
      BY <1>12, <2>1, <2>2 DEF SlotInv
  <1> QED
    BY <1>7, <1>8, <1>9, <1>10, <1>11, <1>12 DEF SlotInv

(* When all slots are in use, each is one of those counted from the head.    *)
LEMMA EverySlot ==
  ASSUME NEW h \in 0..Count-1, NEW i \in 0..Count-1
  PROVE  \E j \in 0..Count-1 : (h + j) % Count = i
  <1> DEFINE j == IF i >= h THEN i - h ELSE i - h + Count
  <1>1. j \in 0..Count-1
    BY CountAssumption
  <1>2. (h + j) % Count = IF h + j < Count THEN h + j ELSE h + j - Count
    <2> HIDE DEF j
    <2> QED
      BY <1>1, Round
  <1>3. (IF h + j < Count THEN h + j ELSE h + j - Count) = i
    BY CountAssumption
  <1> HIDE DEF j
  <1> QED
    BY <1>1, <1>2, <1>3

(* A slot is filled again.                                                   *)
LEMMA SlotFilled ==
  ASSUME BufferInv, UsbInv, SlotInv, BufferTypeOK', NEW i \in 0..Count-1, CreateTask(i),
         active = Count, active' = active,
         \/ slots[i].k = "empty" /\ collected' = collected
         \/ /\ slots[i].k = "result" /\ slots[i].v = "ok" /\ slots[i].t \in Transfers
            /\ collected' = Append(collected, slots[i].t)
  PROVE  SlotInv'
  <1> USE DEF BufferInv
  <1> DEFINE t == slots'[i].t
  <1>1. /\ \A j \in 0..Count-1 \ {i} : slots'[j] = slots[j]
        /\ slots'[i].v # "ok" /\ status' = status
        /\ \/ /\ slots'[i].k = "task" /\ t \notin context
              /\ pending' = pending \cup {t} /\ context' = context \cup {t}
           \/ /\ slots'[i].k # "task" /\ UNCHANGED <<pending, context>>
    BY TaskCreated DEF UsbInv
  <1> HIDE DEF t
  <1>2. /\ \A n \in DOMAIN collected' :
              \/ n \in DOMAIN collected /\ collected'[n] = collected[n]
              \/ collected'[n] = slots[i].t /\ slots[i].v = "ok"
        /\ \A n \in DOMAIN collected : n \in DOMAIN collected' /\ collected'[n] = collected[n]
        /\ slots[i].v = "ok" => \E n \in DOMAIN collected' : collected'[n] = slots[i].t
    <2>1. CASE slots[i].k = "empty" /\ collected' = collected
      BY <2>1, SlotHolds
    <2>2. CASE /\ slots[i].v = "ok" /\ slots[i].t \in Transfers
               /\ collected' = Append(collected, slots[i].t)
      BY <2>2, Appended
    <2> QED
      BY <2>1, <2>2
  <1>3. slots[i].k # "task"
    OBVIOUS
  <1>4. \A j \in 0..active-1 : At(j) \in 0..Count-1
    BY HeadMoves
  <1>5. /\ \A k \in 0..Count-1 : \E j \in 0..active'-1 : Slot(j)' = slots'[k]
        /\ \A j \in 0..active-1 : \E k \in 0..Count-1 : Slot(j) = slots[k]
    <2>1. head' \in 0..Count-1
      BY DEF BufferTypeOK
    <2>2. \A k \in 0..Count-1 : \E j \in 0..Count-1 : At(j)' = k
      BY <2>1, EverySlot DEF At
    <2> QED
      BY <1>4, <2>2 DEF Slot
  <1>6. \A k \in 0..Count-1 : slots'[k].k = "task" => slots'[k].t \in context'
    BY <1>1 DEF SlotInv, t
  <1>7. ASSUME NEW j \in 0..Count-1, NEW k \in 0..Count-1,
               slots'[j].k = "task", slots'[k].k = "task", slots'[j].t = slots'[k].t
        PROVE  j = k
    BY <1>1, <1>7 DEF SlotInv, t
  <1>8. ASSUME NEW u \in pending'
        PROVE  \E j \in 0..active'-1 : Slot(j).k' = "task" /\ Slot(j).t' = u
    <2>1. \E k \in 0..Count-1 : slots'[k].k = "task" /\ slots'[k].t = u
      <3>1. CASE u \in pending
        <4>1. PICK j \in 0..active-1 : Slot(j).k = "task" /\ Slot(j).t = u
          BY <3>1 DEF SlotInv
        <4>2. PICK k \in 0..Count-1 : Slot(j) = slots[k]
          BY <1>5
        <4>3. slots[k].k = "task" /\ slots[k].t = u
          BY <4>1, <4>2
        <4> QED
          BY <1>1, <1>3, <4>3
      <3>2. CASE u = t /\ slots'[i].k = "task"
        BY <3>2 DEF t
      <3> QED
        BY <1>1, <1>8, <3>1, <3>2
    <2>2. PICK k \in 0..Count-1 : slots'[k].k = "task" /\ slots'[k].t = u
      BY <2>1
    <2>3. PICK j \in 0..active'-1 : Slot(j)' = slots'[k]
      BY <1>5
    <2> QED
      BY <2>2, <2>3
  <1>9. \A k \in 0..Count-1 : slots'[k].v = "ok" => status'[slots'[k].t] = "ok"
    BY <1>1 DEF SlotInv
  <1>10. \A n \in DOMAIN collected' : status'[collected'[n]] = "ok"
    BY <1>1, <1>2 DEF SlotInv
  <1>11. ASSUME NEW u \in Transfers, status'[u] = "ok"
         PROVE  \/ \E n \in DOMAIN collected' : collected'[n] = u
                \/ \E j \in 0..active'-1 :
                      Slot(j).t' = u /\ (Slot(j).k' = "task" \/ Slot(j).v' = "ok")
    <2>1. CASE \E n \in DOMAIN collected : collected[n] = u
      BY <1>2, <2>1
    <2>2. CASE \E j \in 0..active-1 : Slot(j).t = u /\ (Slot(j).k = "task" \/ Slot(j).v = "ok")
      <3>1. PICK j \in 0..active-1 : Slot(j).t = u /\ (Slot(j).k = "task" \/ Slot(j).v = "ok")
        BY <2>2
      <3>2. PICK k \in 0..Count-1 : Slot(j) = slots[k]
        BY <1>5
      <3>3. CASE k = i
        BY <1>2, <1>3, <3>1, <3>2, <3>3
      <3>4. CASE k # i
        <4>1. slots'[k] = Slot(j)
          BY <1>1, <3>2, <3>4
        <4>2. PICK m \in 0..active'-1 : Slot(m)' = slots'[k]
          BY <1>5
        <4>3. Slot(m)' = Slot(j)
          BY <4>1, <4>2
        <4> QED
          BY <3>1, <4>3
      <3> QED
        BY <3>3, <3>4
    <2> QED
      BY <1>1, <1>11, <2>1, <2>2 DEF SlotInv
  <1> QED
    BY <1>6, <1>7, <1>8, <1>9, <1>10, <1>11 DEF SlotInv

(* The slots, as long as the task was not dropped.                           *)
LEMMA SlotStep ==
  ASSUME BufferInv, BufferTypeOK', [Next]_vars, ~dropped, ~dropped'
  PROVE  SlotInv'
  <1> USE DEF BufferInv
  <1>1. CASE UNCHANGED <<slots, head, active, collected, status, pending, context>>
    BY <1>1 DEF SlotInv, Slot, At
  <1>2. CASE Dispatch /\ UNCHANGED buffer
    <2>1. ASSUME NEW t \in Transfers
          PROVE  /\ status[t] = "ok" => status'[t] = "ok"
                 /\ status'[t] = "ok" => status[t] = "ok" \/ t \in pending
      <3>1. CASE HangUp
        BY <3>1 DEF HangUp, KillPendingUrbs, UsesFreed, UsbInv, BufferTypeOK, UsbTypeOK
      <3>2. ASSUME NEW u \in Transfers, Reap(u)
            PROVE  /\ status[t] = "ok" => status'[t] = "ok"
                   /\ status'[t] = "ok" => status[t] = "ok" \/ t \in pending
        <4>1. u \in pending /\ u \in context /\ status[u] = "none"
          BY <3>2 DEF Reap, UsbInv, Held
        <4> QED
          BY <3>2, <4>1 DEF Reap, BufferTypeOK, UsbTypeOK
      <3> QED
        BY <1>2, <3>1, <3>2 DEF Dispatch
    <2>2. pending' \subseteq pending /\ context' = context
      BY <1>2 DEF Dispatch, HangUp, KillPendingUrbs, UsesFreed, Reap
    <2>3. \A i \in 0..Count-1 : slots[i].v = "ok" => slots[i].t \in Transfers
      BY SlotHolds DEF OrderInv
    <2>4. \A n \in DOMAIN collected : collected[n] \in Transfers
      BY DEF BufferTypeOK
    <2>5. /\ UNCHANGED <<slots, active, collected>>
          /\ \A j \in 0..active-1 : Slot(j)' = Slot(j)
      BY <1>2 DEF Slot, At
    <2> QED
      BY <2>1, <2>2, <2>3, <2>4, <2>5 DEF SlotInv
  <1>3. ASSUME NEW i \in 0..Count-1, CreateFirst(i)
        PROVE  SlotInv'
    <2>1. slots[i].k = "empty"
      BY <1>3 DEF CreateFirst, None
    <2> QED
      BY <1>3, <2>1, SlotFilled DEF CreateFirst, PhaseInv
  <1>4. ASSUME NEW is \in SUBSET Active \ {{}}, FinishWait(is)
        PROVE  SlotInv'
    <2>1. /\ is \in SUBSET (0..Count-1) /\ \A i \in is : slots[i].k = "task"
          /\ Waiting(is) \subseteq done
          /\ context' = context \ Waiting(is)
          /\ UNCHANGED <<status, pending, head, active, collected>>
      BY <1>4, ActiveSlots DEF FinishWait, FinishTransfers
    <2>2. /\ \A i \in is : slots[i].t \in Waiting(is)
          /\ \A t \in Waiting(is) : \E i \in is : slots[i].t = t
      BY <2>1, WaitingTransfers
    <2>3. ASSUME NEW i \in is
          PROVE  /\ slots'[i].t = slots[i].t /\ slots'[i].k = "result"
                 /\ slots'[i].v = status[slots[i].t]
      <3>1. slots'[i] = Res(slots[i].t, status[slots[i].t])
        BY <1>4, <2>1 DEF FinishWait
      <3> QED
        BY <3>1 DEF Res
    <2>4. \A i \in 0..Count-1 \ is : slots'[i] = slots[i]
      BY <1>4 DEF FinishWait
    <2>5. \A j \in 0..active-1 : At(j) \in 0..Count-1 /\ At(j)' = At(j)
      BY <2>1, HeadMoves DEF At, BufferTypeOK
    <2>6. \A i \in 0..Count-1 : slots'[i].k = "task" => i \notin is /\ slots'[i] = slots[i]
      BY <2>3, <2>4
    <2>7. \A i \in 0..Count-1 : slots'[i].k = "task" => slots'[i].t \in context'
      BY <2>1, <2>2, <2>6 DEF SlotInv
    <2>8. \A i, j \in 0..Count-1 :
            slots'[i].k = "task" /\ slots'[j].k = "task" /\ slots'[i].t = slots'[j].t => i = j
      BY <2>6 DEF SlotInv
    <2>9. ASSUME NEW t \in pending'
          PROVE  \E j \in 0..active'-1 : Slot(j).k' = "task" /\ Slot(j).t' = t
      <3>1. PICK j \in 0..active-1 : Slot(j).k = "task" /\ Slot(j).t = t
        BY <2>1, <2>9 DEF SlotInv
      <3>2. t \notin done
        BY <2>1, <2>9 DEF UsbInv
      <3>3. At(j) \notin is
        BY <2>1, <2>2, <3>1, <3>2 DEF Slot
      <3>4. Slot(j)' = Slot(j)
        BY <2>4, <2>5, <3>3 DEF Slot
      <3> QED
        BY <2>1, <3>1, <3>4
    <2>10. \A i \in 0..Count-1 : slots'[i].v = "ok" => status'[slots'[i].t] = "ok"
      BY <2>1, <2>3, <2>4 DEF SlotInv
    <2>11. ASSUME NEW t \in Transfers, status'[t] = "ok", NEW j \in 0..active-1,
                  Slot(j).t = t, Slot(j).k = "task" \/ Slot(j).v = "ok"
           PROVE  Slot(j).t' = t /\ (Slot(j).k' = "task" \/ Slot(j).v' = "ok")
      <3>1. CASE At(j) \in is
        BY <2>1, <2>3, <2>5, <2>11, <3>1 DEF Slot
      <3>2. CASE At(j) \notin is
        BY <2>4, <2>5, <2>11, <3>2 DEF Slot
      <3> QED
        BY <3>1, <3>2
    <2>12. ASSUME NEW t \in Transfers, status'[t] = "ok"
           PROVE  \/ \E n \in DOMAIN collected' : collected'[n] = t
                  \/ \E j \in 0..active'-1 :
                        Slot(j).t' = t /\ (Slot(j).k' = "task" \/ Slot(j).v' = "ok")
      BY <2>1, <2>11, <2>12 DEF SlotInv
    <2>13. \A n \in DOMAIN collected' : status'[collected'[n]] = "ok"
      BY <2>1 DEF SlotInv
    <2> QED
      BY <2>7, <2>8, <2>9, <2>10, <2>12, <2>13 DEF SlotInv
  <1>5. CASE Collect
    <2>1. /\ active \in 1..Count /\ head' = Advance(head) /\ head \in 0..Count-1
          /\ slots[head].k = "result"
          /\ slots[head].v = "ok" => slots[head].t \in Transfers
      BY <1>5, Collected DEF BufferTypeOK
    <2>2. ASSUME NEW n \in 0..Count, NEW from, CollectExc(n, from)
          PROVE  UNCHANGED <<status, pending, context>>
      BY <2>2 DEF CollectExc, Cancel, CancelTransfers
    <2>3. CASE CollectThrows
      <3>1. /\ active' = active - 1 /\ slots' = slots /\ slots[head].v = "ok"
            /\ slots[head].t \in Transfers
            /\ collected' = Append(collected, slots[head].t)
            /\ CollectExc(active - 1, "thrown")
        BY <2>1, <2>3 DEF CollectThrows
      <3>2. UNCHANGED <<status, pending, context>>
        BY <2>1, <2>2, <3>1
      <3> QED
        BY <2>1, <3>1, <3>2, ResultLeaves
    <2>4. CASE CollectValue
      <3>1. /\ slots[head].v = "ok" /\ slots[head].t \in Transfers
            /\ collected' = Append(collected, slots[head].t)
        BY <2>1, <2>4 DEF CollectValue
      <3>2. CASE cl < cl_quit /\ CreateTask(head) /\ UNCHANGED active
        <4>1. active = Count
          BY <2>1, <3>2 DEF PhaseInv, BufferTypeOK, Level, cl_none, cl_quit, cl_kill
        <4> QED
          BY <2>1, <3>1, <3>2, <4>1, SlotFilled
      <3>3. CASE slots' = [slots EXCEPT ![head] = None] /\ active' = active - 1 /\ UNCHANGED usb
        <4>1. /\ \A i \in 0..Count-1 \ {head} : slots'[i] = slots[i]
              /\ slots'[head] = None /\ UNCHANGED <<status, pending, context>>
          BY <2>1, <3>3 DEF BufferTypeOK
        <4> QED
          BY <2>1, <3>1, <3>3, <4>1, ResultLeaves
      <3> QED
        BY <2>4, <3>2, <3>3 DEF CollectValue
    <2>5. CASE CollectError
      <3>1. /\ \A i \in 0..Count-1 \ {head} : slots'[i] = slots[i]
            /\ slots'[head] = None /\ active' = active - 1 /\ collected' = collected
            /\ slots[head].v # "ok" /\ CollectExc(active, "error")
        BY <2>1, <2>5 DEF CollectError, BufferTypeOK
      <3>2. UNCHANGED <<status, pending, context>>
        BY <2>1, <2>2, <3>1
      <3> QED
        BY <2>1, <3>1, <3>2, ResultLeaves
    <2> QED
      BY <1>5, <2>3, <2>4, <2>5, Collected
  <1> HIDE DEF BufferInv
  <1>6. ~DropSlot
    BY DEF DropSlot, BufferInv, PhaseInv
  <1> QED
    BY <1>1, <1>2, <1>3, <1>4, <1>5, <1>6
       DEF Next, Runner, Kernel, Complete, Unplug, CollectEnds, DropEnds, DropBuffer,
           CancelBuffer, Cancel, CancelTransfers
-----------------------------------------------------------------------------
(* The invariant is established.                                            *)
LEMMA BufferInitInv == BufferInit => BufferInv
  <1> SUFFICES ASSUME BufferInit PROVE BufferInv
    OBVIOUS
  <1>1. BufferTypeOK
    <2>1. UsbTypeOK
      BY DEF BufferInit, UsbInit, UsbTypeOK
    <2>2. slots \in [0..Count-1 -> SlotValue]
      BY DEF BufferInit, SlotValue
    <2>3. head \in 0..Count-1 /\ active \in 0..Count /\ cl \in Level /\ asked \in Level
      BY CountAssumption DEF BufferInit, Level, cl_none, cl_kill
    <2>4. collected \in Seq(Transfers)
      BY DEF BufferInit
    <2> QED
      BY <2>1, <2>2, <2>3, <2>4 DEF BufferInit, BufferTypeOK
  <1>2. \A i \in 0..Count-1 : slots[i] = None /\ slots[i].t = 0 /\ slots[i].k = "empty"
                            /\ slots[i].v = "none"
    BY <1>1, SlotHolds DEF BufferInit
  <1>3. \A j \in 0..active-1 : Slot(j).t = 0
    BY <1>1, <1>2, HeadMoves DEF Slot, BufferInit
  <1>4. DOMAIN collected = {}
    BY DEF BufferInit
  <1>5. PhaseInv
    BY <1>2 DEF BufferInit, PhaseInv
  <1>6. OrderInv
    BY <1>2, <1>3, <1>4 DEF OrderInv
  <1>7. UsbInv
    BY DEF BufferInit, UsbInit, UsbInv, Held
  <1>8. SlotInv
    BY <1>2, <1>4 DEF BufferInit, UsbInit, SlotInv
  <1> QED
    BY <1>1, <1>5, <1>6, <1>7, <1>8 DEF BufferInv

(* Every step keeps the invariant.                                          *)
LEMMA BufferStep == BufferInv /\ [Next]_vars => BufferInv'
  <1> SUFFICES ASSUME BufferInv, [Next]_vars PROVE BufferInv'
    OBVIOUS
  <1>1. BufferTypeOK' /\ \A t \in Transfers : urb[t] # "unused" => urb'[t] # "unused"
    BY TypeStep
  <1>2. PhaseInv'
    BY PhaseStep
  <1>3. OrderInv'
    BY <1>1, OrderStep
  <1>4. dropped => dropped'
    BY DEF Next, Runner, Kernel, CreateFirst, FinishWait, Collect, CollectEnds, DropSlot, DropEnds,
           DropBuffer, CancelBuffer
  <1>5. ~dropped' => UsbInv' /\ SlotInv'
    BY <1>1, <1>4, UsbStep, SlotStep
  <1> QED
    BY <1>1, <1>2, <1>3, <1>5 DEF BufferInv

(* The invariant always holds.                                              *)
LEMMA BufferInvariance == Spec => []BufferInv
  BY BufferInitInv, BufferStep, PTL DEF Spec

(* Unless the task is dropped, the loop finds what it reaps among the pending *)
(* transfers, with a context that is allocated and not set, and a slot never  *)
(* waits for a context that is gone; however many slots and transfers there   *)
(* are, whenever the device goes away and whoever cancels                     *)
(* (linux_usb_device.cpp:200-209, double_buffer_task.hpp:69-82).              *)
THEOREM ContextsOutliveUrbs == Spec => []ContextOutlivesUrb
  <1>1. BufferInv => ContextOutlivesUrb
    <2> SUFFICES ASSUME BufferInv, ~dropped PROVE Outlived
      BY DEF ContextOutlivesUrb
    <2>1. UsbInv /\ SlotInv
      BY DEF BufferInv
    <2>2. Waiting(0..Count-1) \subseteq context
      BY <2>1 DEF SlotInv, Waiting
    <2> QED
      BY <2>1, <2>2 DEF UsbInv, Outlived
  <1> QED
    BY <1>1, BufferInvariance, PTL

(* Results are collected in the order of the transfers, none twice, and when  *)
(* the task ends without having been dropped every transfer that succeeded    *)
(* has been collected (double_buffer_task.hpp:69-124).                        *)
THEOREM ResultsInOrder == Spec => []CollectedInOrder
  <1>1. BufferInv => CollectedInOrder
    <2> SUFFICES ASSUME BufferInv PROVE CollectedInOrder
      OBVIOUS
    <2>1. collected \in Seq(Transfers)
      BY DEF BufferInv, BufferTypeOK
    <2>2. \A i, j \in DOMAIN collected : i < j => collected[i] < collected[j]
      BY DEF BufferInv, OrderInv
    <2>3. ASSUME phase = "ended", ~dropped
          PROVE  ToSet(collected) = {t \in Transfers : status[t] = "ok"}
      <3>1. active = 0 /\ SlotInv
        BY <2>3 DEF BufferInv, PhaseInv
      <3>2. ToSet(collected) = {collected[n] : n \in DOMAIN collected}
        BY DEF ToSet
      <3>3. \A n \in DOMAIN collected : collected[n] \in Transfers /\ status[collected[n]] = "ok"
        BY <2>1, <3>1 DEF SlotInv
      <3>4. \A t \in Transfers : status[t] = "ok" => \E n \in DOMAIN collected : collected[n] = t
        BY <3>1 DEF SlotInv
      <3> QED
        BY <3>2, <3>3, <3>4
    <2> QED
      BY <2>2, <2>3 DEF CollectedInOrder
  <1> QED
    BY <1>1, BufferInvariance, PTL
=============================================================================
