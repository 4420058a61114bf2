------------------------------ MODULE UsbDevice ------------------------------
(***************************************************************************)
(* A usb_device_core on Linux.  async_transfer allocates a urb_context, puts *)
(* it among pending_urbs and submits its URB; the task waits for the promise *)
(* in the context.  The dispatch loop, another task of the runner, waits for *)
(* the descriptor, reaps one URB at a time and sets the promise, finding the *)
(* context through the URB's usercontext.  When the device goes away it sets *)
(* the promises of everything pending and ends.                              *)
(*                                                                         *)
(* A URB belongs to the kernel until it is reaped, and the kernel acts       *)
(* concurrently with everything here.  Buffers and lengths are left out.     *)
(***************************************************************************)
EXTENDS CancelLevel, FiniteSets

CONSTANT Transfers  \* the transfers that may be started, in this order

ASSUME TransfersAssumption == IsFiniteSet(Transfers) /\ Transfers = 1..Cardinality(Transfers)

VARIABLES
    plugged,  \* the device is there
    urb,      \* where the URB of each transfer is
    outcome,  \* the status the kernel has completed it with
    status,   \* urb.status, in the context
    done,     \* the contexts whose promise is set
    pending,  \* core.pending_urbs
    context,  \* the contexts that are allocated
    dispatch  \* the dispatch loop

kernel == <<plugged, urb, outcome>>
core   == <<status, done, pending, context, dispatch>>
usb    == <<kernel, core>>

UsbTypeOK ==
    /\ plugged \in BOOLEAN
    /\ urb \in [Transfers -> {"unused", "refused", "kernel", "completed", "reaped"}]
    /\ outcome \in [Transfers -> {"none", "ok", "failed"}]
    /\ status \in [Transfers -> {"none", "ok", "failed"}]
    /\ done \subseteq Transfers /\ pending \subseteq Transfers /\ context \subseteq Transfers
    /\ dispatch \in {"polling", "ended", "undefined"}

UsbInit ==
    /\ plugged = TRUE /\ dispatch = "polling"
    /\ urb = [t \in Transfers |-> "unused"]
    /\ outcome = [t \in Transfers |-> "none"]
    /\ status = [t \in Transfers |-> "none"]
    /\ done = {} /\ pending = {} /\ context = {}

Held(s) == {t \in Transfers : urb[t] = s}
-----------------------------------------------------------------------------
(* The kernel.                                                               *)
Complete(t) ==
    /\ urb[t] = "kernel"
    /\ urb' = [urb EXCEPT ![t] = "completed"]
    /\ \E o \in IF plugged THEN {"ok", "failed"} ELSE {"failed"} :
          outcome' = [outcome EXCEPT ![t] = o]
    /\ UNCHANGED <<plugged, core>>

Unplug ==
    /\ plugged /\ plugged' = FALSE
    /\ UNCHANGED <<urb, outcome, core>>
-----------------------------------------------------------------------------
(* bulk_read and its like: the context is pending before the URB is           *)
(* submitted, and gone when the URB is refused.                              *)
AsyncTransfer(t) ==
    /\ \/ /\ plugged
          /\ urb' = [urb EXCEPT ![t] = "kernel"]
          /\ pending' = pending \cup {t}
          /\ context' = context \cup {t}
       \/ /\ urb' = [urb EXCEPT ![t] = "refused"]
          /\ UNCHANGED <<pending, context>>
    /\ UNCHANGED <<plugged, outcome, status, done, dispatch>>

(* USBDEVFS_DISCARDURB returns when the URB is complete.                     *)
Discard(ts) ==
    LET cut == ts \cap Held("kernel")
    IN  /\ urb' = [t \in Transfers |-> IF t \in cut THEN "completed" ELSE urb[t]]
        /\ outcome' = [t \in Transfers |-> IF t \in cut THEN "failed" ELSE outcome[t]]

(* The canceller says it has seen to the level, whichever it is, so the       *)
(* promise is never let go of.                                               *)
CancelTransfers(ts, cl) ==
    /\ IF cl >= cl_abort THEN Discard(ts) ELSE UNCHANGED <<urb, outcome>>
    /\ UNCHANGED <<plugged, core>>

(* The transfers are waited for no longer; their contexts are freed.         *)
EndTransfers(ts) ==
    /\ Discard(ts)
    /\ context' = context \ ts
    /\ UNCHANGED <<plugged, status, done, pending, dispatch>>

(* What promise_task::cancel_and_wait, and the continuation, make of it.     *)
Ended(t) == IF t \in done THEN status[t] ELSE "cancelled"

FinishTransfers(ts) ==
    /\ ts \subseteq done
    /\ context' = context \ ts
    /\ UNCHANGED <<kernel, status, done, pending, dispatch>>
-----------------------------------------------------------------------------
(* A context that is gone is written to: the rest is anybody's guess.        *)
UsesFreed ==
    /\ dispatch' = "undefined"
    /\ UNCHANGED <<kernel, status, done, pending, context>>

(* Mutant: the context stays pending.                                        *)
ReapKeeps(t) ==
    /\ dispatch = "polling" /\ urb[t] = "completed"
    /\ IF t \in context
       THEN /\ urb' = [urb EXCEPT ![t] = "reaped"]
            /\ status' = [status EXCEPT ![t] = outcome[t]]
            /\ done' = done \cup {t}
            /\ UNCHANGED <<plugged, outcome, pending, context, dispatch>>
       ELSE UsesFreed

(* POLLOUT: one URB is reaped and the loop goes on.                          *)
Reap(t) ==
    /\ dispatch = "polling" /\ urb[t] = "completed"
    /\ IF t \in context
       THEN /\ urb' = [urb EXCEPT ![t] = "reaped"]
            /\ status' = [status EXCEPT ![t] = outcome[t]]
            /\ done' = done \cup {t}
            /\ pending' = pending \ {t}
            /\ UNCHANGED <<plugged, outcome, context, dispatch>>
       ELSE UsesFreed

(* Mutant: the promises are not set.                                         *)
KillForgets ==
    /\ status' = [t \in Transfers |-> IF t \in pending THEN "failed" ELSE status[t]]
    /\ pending' = {}
    /\ UNCHANGED done

KillPendingUrbs ==
    /\ status' = [t \in Transfers |-> IF t \in pending THEN "failed" ELSE status[t]]
    /\ done' = done \cup pending
    /\ pending' = {}

(* No POLLOUT but a hangup, or a URB that can't be reaped once the device is *)
(* gone (some kernels refuse that): the loop fails and ends.                 *)
HangUp ==
    /\ dispatch = "polling" /\ ~plugged
    /\ IF pending \subseteq context
       THEN /\ KillPendingUrbs
            /\ dispatch' = "ended"
            /\ UNCHANGED <<kernel, context>>
       ELSE UsesFreed

Dispatch == HangUp \/ \E t \in Transfers : Reap(t)
=============================================================================
