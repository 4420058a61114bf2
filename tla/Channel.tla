------------------------------ MODULE Channel ------------------------------
(***************************************************************************)
(* channel<T, Capacity> and the tasks of its blocked operations, driven by   *)
(* the rounds of a runner: every task's prepare_wait in turn, then either    *)
(* finish_wait of those that called set_finished or a poll.  The values move *)
(* in prepare_wait, the operations complete in finish_wait, and in between   *)
(* the continuations of other tasks may send, receive, cancel and destroy.   *)
(*                                                                         *)
(* Everything runs on the thread of one runner: a channel has no lock.       *)
(***************************************************************************)
EXTENDS RingBuffer, FiniteSets

CONSTANTS
    Receives,  \* the calls of receive()
    MaxHandles \* bound on the copies of the channel object

(* A value stands for the call of send() that carries it.                    *)
ASSUME ReceivesAssumption == Receives \cap (Value \cup {Raw}) = {}
ASSUME HandlesAssumption == MaxHandles \in Nat \ {0}

VARIABLES
    state,   \* what became of each operation
    got,     \* the value a receive has taken out of the buffer
    handles, \* how many channel objects there are
    refs,    \* m_refcount of the shared_circular_buffer
    freed,   \* the buffer has been deleted
    phase,   \* where the runner is in its round
    todo     \* the tasks its current loop has left

round == <<phase, todo>>
chan  == <<ring, state, got, handles, refs, freed, round>>

Ops == Value \cup Receives

(* waiting: blocked.  cut: cancelled, m_buffer is 0.  moved: prepare_wait    *)
(* has moved the value.  moved_cut: cancelled after that.                    *)
Pending == {"waiting", "cut", "moved", "moved_cut"}
OpState == {"new", "done", "failed", "dropped"} \cup Pending

ChannelInit ==
    /\ RingInit
    /\ state = [o \in Ops |-> "new"]
    /\ got = [r \in Receives |-> Raw]
    /\ handles = 1 /\ refs = 1 /\ freed = FALSE
    /\ phase = "calls" /\ todo = {}

Holding(o) == state[o] \in {"waiting", "moved"}

Addref  == refs' = refs + 1 /\ UNCHANGED freed
Release == refs' = refs - 1 /\ freed' = (freed \/ refs = 1)

(* Code that calls into the channel runs in the continuations of tasks.      *)
Calling == phase \in {"calls", "finish"}
-----------------------------------------------------------------------------
(* The channel object.                                                       *)
CopyChannel ==
    /\ Calling /\ handles \in 1 .. MaxHandles - 1
    /\ handles' = handles + 1
    /\ Addref
    /\ UNCHANGED <<ring, state, got, round>>

DestroyChannel ==
    /\ Calling /\ handles > 0
    /\ handles' = handles - 1
    /\ Release
    /\ UNCHANGED <<ring, state, got, round>>

(* A send completes at once when there is room, even if others are waiting.  *)
SendNow(v) ==
    /\ Calling /\ handles > 0 /\ state[v] = "new" /\ ~full
    /\ PushBack(v)
    /\ state' = [state EXCEPT ![v] = "done"]
    /\ UNCHANGED <<got, handles, refs, freed, round>>

SendLater(v) ==
    /\ Calling /\ handles > 0 /\ state[v] = "new" /\ full
    /\ state' = [state EXCEPT ![v] = "waiting"]
    /\ Addref
    /\ UNCHANGED <<ring, got, handles, round>>

(* Mutant: the value is read and left in the buffer.                         *)
ReceivePeek(r) ==
    /\ Calling /\ handles > 0 /\ state[r] = "new" /\ ~empty
    /\ got' = [got EXCEPT ![r] = front]
    /\ state' = [state EXCEPT ![r] = "done"]
    /\ UNCHANGED <<ring, handles, refs, freed, round>>

(* Mutant: the newest value is taken.                                        *)
ReceiveNewest(r) ==
    /\ Calling /\ handles > 0 /\ state[r] = "new" /\ ~empty
    /\ LET last == IF m_last = 0 THEN Capacity - 1 ELSE m_last - 1
       IN /\ got' = [got EXCEPT ![r] = m_value[last]]
          /\ m_value' = [m_value EXCEPT ![last] = Raw]
          /\ m_last' = last
    /\ m_size' = m_size - 1
    /\ state' = [state EXCEPT ![r] = "done"]
    /\ UNCHANGED <<m_first, handles, refs, freed, round>>

ReceiveNow(r) ==
    /\ Calling /\ handles > 0 /\ state[r] = "new" /\ ~empty
    /\ got' = [got EXCEPT ![r] = front]
    /\ PopFront
    /\ state' = [state EXCEPT ![r] = "done"]
    /\ UNCHANGED <<handles, refs, freed, round>>

ReceiveLater(r) ==
    /\ Calling /\ handles > 0 /\ state[r] = "new" /\ empty
    /\ state' = [state EXCEPT ![r] = "waiting"]
    /\ Addref
    /\ UNCHANGED <<ring, got, handles, round>>
-----------------------------------------------------------------------------
(* Mutant: the reference is given back but the pointer is kept.              *)
CancelKeeps(o) ==
    /\ Calling /\ Holding(o)
    /\ Release
    /\ UNCHANGED <<ring, state, got, handles, round>>

(* cancel() at cl_abort or above; below that it does nothing.                *)
Cancel(o) ==
    /\ Calling /\ Holding(o)
    /\ state' = [state EXCEPT ![o] = IF @ = "waiting" THEN "cut" ELSE "moved_cut"]
    /\ Release
    /\ UNCHANGED <<ring, got, handles, round>>

(* cancel_and_wait, then the destruction of the task: it leaves the round.   *)
CancelAndWait(o) ==
    /\ Calling /\ state[o] \in Pending
    /\ IF Holding(o) THEN Release ELSE UNCHANGED <<refs, freed>>
    /\ state' = [state EXCEPT ![o] = "dropped"]
    /\ todo' = todo \ {o}
    /\ UNCHANGED <<ring, got, handles, phase>>
-----------------------------------------------------------------------------
(* The round.                                                                *)
StartRound ==
    /\ phase = "calls"
    /\ phase' = "prepare"
    /\ todo' = {o \in Ops : state[o] \in Pending}
    /\ UNCHANGED <<ring, state, got, handles, refs, freed>>

PrepareSend(v) ==
    /\ phase = "prepare" /\ v \in todo
    /\ todo' = todo \ {v}
    /\ IF state[v] = "waiting" /\ ~full
       THEN PushBack(v) /\ state' = [state EXCEPT ![v] = "moved"]
       ELSE UNCHANGED <<ring, state>>
    /\ UNCHANGED <<got, handles, refs, freed, phase>>

(* Mutant: a receive waits for room, like a send.                            *)
PrepareReceiveRoom(r) ==
    /\ phase = "prepare" /\ r \in todo
    /\ todo' = todo \ {r}
    /\ IF state[r] = "waiting" /\ ~empty /\ ~full
       THEN /\ got' = [got EXCEPT ![r] = front]
            /\ PopFront
            /\ state' = [state EXCEPT ![r] = "moved"]
       ELSE UNCHANGED <<ring, state, got>>
    /\ UNCHANGED <<handles, refs, freed, phase>>

PrepareReceive(r) ==
    /\ phase = "prepare" /\ r \in todo
    /\ todo' = todo \ {r}
    /\ IF state[r] = "waiting" /\ ~empty
       THEN /\ got' = [got EXCEPT ![r] = front]
            /\ PopFront
            /\ state' = [state EXCEPT ![r] = "moved"]
       ELSE UNCHANGED <<ring, state, got>>
    /\ UNCHANGED <<handles, refs, freed, phase>>

(* Those that called set_finished are finished; with none, the runner polls. *)
Finished == {o \in Ops : state[o] \in Pending \ {"waiting"}}

(* Mutant: a value that has been moved is not a reason to go on.             *)
EndPrepareCut ==
    /\ phase = "prepare" /\ todo = {}
    /\ LET cut == {o \in Ops : state[o] \in {"cut", "moved_cut"}}
       IN /\ phase' = IF cut = {} THEN "poll" ELSE "finish"
          /\ todo' = cut
    /\ UNCHANGED <<ring, state, got, handles, refs, freed>>

EndPrepare ==
    /\ phase = "prepare" /\ todo = {}
    /\ phase' = IF Finished = {} THEN "poll" ELSE "finish"
    /\ todo' = Finished
    /\ UNCHANGED <<ring, state, got, handles, refs, freed>>

(* A descriptor of some other task is ready and its continuation runs.       *)
PollReturns ==
    /\ phase = "poll"
    /\ phase' = "calls"
    /\ UNCHANGED <<ring, state, got, handles, refs, freed, todo>>

(* finish_wait, and the destruction of the task that is now a result.  A     *)
(* receive that has its value keeps it when it is cancelled; a send does not *)
(* know any more.                                                            *)
FinishSend(v) ==
    /\ phase = "finish" /\ v \in todo
    /\ todo' = todo \ {v}
    /\ state' = [state EXCEPT ![v] = IF @ = "moved" THEN "done" ELSE "failed"]
    /\ IF Holding(v) THEN Release ELSE UNCHANGED <<refs, freed>>
    /\ UNCHANGED <<ring, got, handles, phase>>

(* Mutant: a receive looks at m_buffer, like a send.                         *)
FinishReceiveCut(r) ==
    /\ phase = "finish" /\ r \in todo
    /\ todo' = todo \ {r}
    /\ state' = [state EXCEPT ![r] = IF @ = "moved" THEN "done" ELSE "failed"]
    /\ IF Holding(r) THEN Release ELSE UNCHANGED <<refs, freed>>
    /\ UNCHANGED <<ring, got, handles, phase>>

FinishReceive(r) ==
    /\ phase = "finish" /\ r \in todo
    /\ todo' = todo \ {r}
    /\ state' = [state EXCEPT ![r] = IF @ = "cut" THEN "failed" ELSE "done"]
    /\ IF Holding(r) THEN Release ELSE UNCHANGED <<refs, freed>>
    /\ UNCHANGED <<ring, got, handles, phase>>

EndFinish ==
    /\ phase = "finish" /\ todo = {}
    /\ phase' = "calls"
    /\ UNCHANGED <<ring, state, got, handles, refs, freed, todo>>
-----------------------------------------------------------------------------
Calls ==
    \/ CopyChannel \/ DestroyChannel
    \/ \E v \in Value : SendNow(v) \/ SendLater(v)
    \/ \E r \in Receives : ReceiveNow(r) \/ ReceiveLater(r)
    \/ \E o \in Ops : Cancel(o) \/ CancelAndWait(o)

Round ==
    \/ StartRound \/ EndPrepare \/ EndFinish
    \/ \E v \in Value : PrepareSend(v) \/ FinishSend(v)
    \/ \E r \in Receives : PrepareReceive(r) \/ FinishReceive(r)

ChannelNext == Calls \/ Round \/ PollReturns
ChannelSpec == ChannelInit /\ [][ChannelNext]_chan

(* The runner goes through its rounds; nothing makes a poll return.          *)
FairChannelSpec == ChannelSpec /\ WF_chan(Round)
-----------------------------------------------------------------------------
ChannelTypeOK ==
    /\ RingTypeOK
    /\ state \in [Ops -> OpState]
    /\ got \in [Receives -> Value \cup {Raw}]
    /\ handles \in 0 .. MaxHandles
    /\ refs \in Nat /\ freed \in BOOLEAN
    /\ phase \in {"calls", "prepare", "finish", "poll"}
    /\ todo \subseteq Ops

Buffered == {m_value[i] : i \in Index} \ {Raw}
Takers(v) == {r \in Receives : got[r] = v}

(* A value is in one place: a send that is still blocked, or was cancelled   *)
(* while it was, has put it nowhere; one that has completed has put it in    *)
(* the buffer or with exactly one receive, and never in both.                *)
Conserved ==
    /\ \A v \in Value :
        /\ Cardinality(Takers(v)) <= 1
        /\ v \in Buffered => Takers(v) = {}
        /\ state[v] \in {"new", "waiting", "cut"} => v \notin Buffered /\ Takers(v) = {}
        /\ state[v] \in {"done", "moved"} => v \in Buffered \/ Takers(v) # {}
    /\ Cardinality(Buffered) = m_size

(* A receive that completes has a value, one that is told of its             *)
(* cancellation has not swallowed one.                                       *)
ReceiveTellsTruth ==
    \A r \in Receives :
        /\ state[r] = "done" => got[r] # Raw
        /\ state[r] = "failed" => got[r] = Raw

(* The buffer lives exactly as long as somebody has a reference to it: the   *)
(* channel objects and the tasks that are not cancelled.                     *)
BufferOutlivesUsers ==
    /\ refs = handles + Cardinality({o \in Ops : Holding(o)})
    /\ freed <=> refs = 0

(* The runner does not go to sleep over a receive that could take a value or *)
(* a send that would find room: both would wait for an unrelated descriptor. *)
NoMissedRendezvous ==
    phase = "poll" =>
        /\ ~empty => \A r \in Receives : state[r] # "waiting"
        /\ ~full => \A v \in Value : state[v] # "waiting"

(* A sender and a receiver that are both blocked do not stay so.             *)
NoStandoff ==
    \A v \in Value, r \in Receives :
        state[v] = "waiting" /\ state[r] = "waiting" ~> state[v] # "waiting" \/ state[r] # "waiting"
=============================================================================
