---------------------------- MODULE DoubleBuffer ----------------------------
(***************************************************************************)
(* double_buffer over the transfers of a USB device: Count transfers are kept *)
(* going, their results are collected in the order they were started and     *)
(* each one that is collected is replaced by a new one.  The first failure,  *)
(* of a transfer or of collect_fn, cancels the others and becomes the result.*)
(*                                                                         *)
(* The constructor, finish_wait and cancel_and_wait are loops over the slots *)
(* that call create_fn and collect_fn; here an iteration is a step, and while *)
(* they run nothing else does on the runner's thread: only the kernel.       *)
(***************************************************************************)
EXTENDS UsbDevice, Sequences, SequencesExt

CONSTANTS
    Count,       \* of slots
    CancelLevels \* the levels the task is cancelled with

ASSUME CountAssumption == Count \in Nat \ {0}
ASSUME BufferLevelAssumption == CancelLevels \subseteq Level

VARIABLES
    slots,     \* m_tasks
    head,      \* m_head
    active,    \* m_active_tasks
    cl,        \* m_cl
    exc,       \* m_exc: none, or where it came from
    phase,     \* what the runner's thread is doing with the task
    asked,     \* the highest level the task was cancelled with (history)
    collected, \* what collect_fn was called with (history)
    dropped    \* by cancel_and_wait (history)

buffer == <<slots, head, active, cl, exc, phase, asked, collected, dropped>>
vars   == <<usb, buffer>>

None      == [k |-> "empty", t |-> 0, v |-> "none"]
Wait(t)   == [k |-> "task", t |-> t, v |-> "none"]
Res(t, v) == [k |-> "result", t |-> t, v |-> v]

(* The slots still in use, in order, from the head.                          *)
(* Mutant: a slot is skipped.                                                *)
AdvanceTwice(i) == (i + 2) % Count
Advance(i) == (i + 1) % Count
Window(i, n) == [j \in 1..n |-> (i + j - 1) % Count]
Active == ToSet(Window(head, active))
Waiting(is) == {slots[i].t : i \in {i \in is : slots[i].k = "task"}}

BufferInit ==
    /\ UsbInit
    /\ slots = [i \in 0..Count-1 |-> None]
    /\ head = 0 /\ active = Count
    /\ cl = cl_none /\ exc = "none" /\ phase = "creating"
    /\ asked = cl_none /\ collected = <<>> /\ dropped = FALSE
-----------------------------------------------------------------------------
(* create_task(i): a transfer, or create_fn throws.                          *)
CreateTask(i) ==
    \/ \E t \in Transfers :
          /\ \A u \in Transfers : urb[u] = "unused" <=> u >= t
          /\ AsyncTransfer(t)
          /\ slots' = [slots EXCEPT ![i] =
                          IF urb'[t] = "kernel" THEN Wait(t) ELSE Res(t, "failed")]
    \/ /\ slots' = [slots EXCEPT ![i] = Res(0, "failed")]
       /\ UNCHANGED usb

(* The constructor fills the slots one by one and then collects.             *)
CreateFirst(i) ==
    /\ phase = "creating"
    /\ slots[i] = None /\ \A j \in 0..i-1 : slots[j] # None
    /\ CreateTask(i)
    /\ phase' = IF i = Count - 1 THEN "constructing" ELSE phase
    /\ UNCHANGED <<head, active, cl, exc, asked, collected, dropped>>

Cancel(is, l) ==
    /\ cl' = MaxLevel(cl, l)
    /\ CancelTransfers(Waiting(is), l)

CancelBuffer(l) ==
    /\ phase = "idle"
    /\ Cancel(Active, l)
    /\ asked' = MaxLevel(asked, l)
    /\ UNCHANGED <<slots, head, active, exc, phase, collected, dropped>>

(* cancel_and_wait goes through the slots, too: what is there is collected,   *)
(* the rest is given up.  When collect_fn throws here the code asks a value    *)
(* for its exception; it is taken not to.  head and active, which nobody reads *)
(* any more, are where the loop is.                                          *)
DropBuffer ==
    /\ phase = "idle" /\ phase' = "dropping"
    /\ cl' = cl_kill /\ dropped' = TRUE
    /\ UNCHANGED <<usb, slots, head, active, exc, asked, collected>>

DropSlot ==
    /\ phase = "dropping" /\ active > 0
    /\ LET slot   == slots[head]
           result == IF slot.k = "task" THEN Ended(slot.t) ELSE slot.v
       IN  /\ collected' = IF result = "ok" THEN Append(collected, slot.t) ELSE collected
           /\ exc' = IF exc = "none" /\ result # "ok" THEN "error" ELSE exc
    /\ EndTransfers(Waiting({head}))
    /\ head' = Advance(head) /\ active' = active - 1
    /\ UNCHANGED <<slots, cl, phase, asked, dropped>>

DropEnds ==
    /\ phase = "dropping" /\ active = 0 /\ phase' = "ended"
    /\ UNCHANGED <<usb, slots, head, active, cl, exc, asked, collected, dropped>>

(* The transfers whose promises were set when prepare_wait asked.            *)
FinishWait(is) ==
    /\ phase = "idle"
    /\ \A i \in is : slots[i].k = "task"
    /\ FinishTransfers(Waiting(is))
    /\ slots' = [i \in 0..Count-1 |->
                    IF i \in is THEN Res(slots[i].t, status[slots[i].t]) ELSE slots[i]]
    /\ phase' = "collecting"
    /\ UNCHANGED <<head, active, cl, exc, asked, collected, dropped>>

(* The first exception cancels what is left of the n slots from the head on. *)
CollectExc(n, from) ==
    IF exc = "none"
    THEN exc' = from /\ Cancel(ToSet(Window(head, n)), cl_abort)
    ELSE UNCHANGED <<exc, cl, usb>>

(* collect_fn throws.  The count is lowered before the others are cancelled, *)
(* so the last of them is not.                                               *)
CollectThrows ==
    /\ slots[head].v = "ok"
    /\ collected' = Append(collected, slots[head].t)
    /\ active' = active - 1
    /\ CollectExc(active - 1, "thrown")
    /\ UNCHANGED slots

CollectValue ==
    /\ slots[head].v = "ok"
    /\ collected' = Append(collected, slots[head].t)
    /\ IF cl < cl_quit
       THEN CreateTask(head) /\ UNCHANGED active
       ELSE /\ slots' = [slots EXCEPT ![head] = None]
            /\ active' = active - 1
            /\ UNCHANGED usb
    /\ UNCHANGED <<cl, exc>>

CollectError ==
    /\ slots[head].v = "failed"
    /\ CollectExc(active, "error")
    /\ slots' = [slots EXCEPT ![head] = None]
    /\ active' = active - 1
    /\ UNCHANGED collected

HasResult == active > 0 /\ slots[head].k = "result"

Collect ==
    /\ phase \in {"constructing", "collecting"} /\ HasResult
    /\ CollectThrows \/ CollectValue \/ CollectError
    /\ head' = Advance(head)
    /\ UNCHANGED <<phase, asked, dropped>>

(* Only finish_wait looks at what is left: the constructor returns a task in *)
(* any case.                                                                 *)
CollectEnds ==
    /\ phase \in {"constructing", "collecting"} /\ ~HasResult
    /\ phase' = IF phase = "collecting" /\ active = 0 THEN "ended" ELSE "idle"
    /\ UNCHANGED <<usb, slots, head, active, cl, exc, asked, collected, dropped>>
-----------------------------------------------------------------------------
Between == phase \in {"idle", "ended"}

Runner ==
    \/ Between /\ Dispatch /\ UNCHANGED buffer
    \/ \E i \in 0..Count-1 : CreateFirst(i)
    \/ \E is \in SUBSET Active \ {{}} : FinishWait(is)
    \/ Collect \/ CollectEnds
    \/ DropSlot \/ DropEnds

Kernel == (\E t \in Transfers : Complete(t) \/ Unplug) /\ UNCHANGED buffer

Next ==
    \/ Runner \/ Kernel \/ DropBuffer
    \/ \E l \in CancelLevels : CancelBuffer(l)

Spec == BufferInit /\ [][Next]_vars

(* The runner's thread goes on: every ready task gets its finish_wait.       *)
FairSpec ==
    /\ Spec
    /\ WF_vars(Between /\ Dispatch /\ UNCHANGED buffer)
    /\ WF_vars(\E is \in SUBSET Active \ {{}} : FinishWait(is))
    /\ WF_vars(\/ Collect \/ CollectEnds \/ DropSlot \/ DropEnds
               \/ \E i \in 0..Count-1 : CreateFirst(i))
-----------------------------------------------------------------------------
SlotValue == {None} \cup {Wait(t) : t \in Transfers}
                    \cup {Res(t, v) : t \in Transfers \cup {0}, v \in {"ok", "failed"}}

BufferTypeOK ==
    /\ UsbTypeOK
    /\ slots \in [0..Count-1 -> SlotValue]
    /\ head \in 0..Count-1 /\ active \in 0..Count /\ cl \in Level /\ asked \in Level
    /\ exc \in {"none", "error", "thrown"}
    /\ phase \in {"creating", "constructing", "idle", "collecting", "dropping", "ended"}
    /\ dropped \in BOOLEAN /\ collected \in Seq(Transfers)

(* While the dispatch loop runs it finds every URB it will reap among the     *)
(* pending ones, with its context allocated; a context is set once; and a     *)
(* slot that waits has a context to wait for.  It takes a cancel, the kernel  *)
(* and the loop to break it (linux_usb_context.cpp:47-49,                     *)
(* linux_usb_device.cpp:200-209).                                            *)
Outlived ==
    /\ dispatch # "undefined"
    /\ pending \subseteq context \ done
    /\ dispatch = "polling" => Held("kernel") \cup Held("completed") \subseteq pending
    /\ phase # "ended" => Waiting(0..Count-1) \subseteq context

ContextOutlivesUrb == ~dropped => Outlived

(* "Cancels the task [...] and synchronously waits for it to complete"       *)
(* (task_base.hpp:26): after cancel_and_wait the kernel and the loop have     *)
(* nothing of the task's any more.                                           *)
CancelWaits == dispatch # "undefined"

(* The results are collected in the order the transfers were started, each   *)
(* at most once, and when the task has ended every transfer whose result was  *)
(* a value has been collected, failures and cancels notwithstanding           *)
(* (double_buffer_task.hpp:87-124, 31-58).                                   *)
CollectedInOrder ==
    /\ \A i, j \in DOMAIN collected : i < j => collected[i] < collected[j]
    /\ phase = "ended" /\ ~dropped => ToSet(collected) = {t \in Transfers : status[t] = "ok"}

(* Once it was cancelled at cl_abort, once a transfer has failed, or once the *)
(* device is gone, the task ends: the discarded URBs are reaped, or the loop  *)
(* gives them up, and their slots are collected.  Not if the constructor was  *)
(* left with nothing to wait for (double_buffer_task.hpp:18-21 does not tell), *)
(* nor on account of collect_fn having thrown (line 103 spares the last slot). *)
Doomed == asked >= cl_abort \/ exc = "error" \/ ~plugged
CancelledBufferEnds == (phase = "idle" /\ active > 0 /\ Doomed) ~> phase = "ended"
=============================================================================
