---------------------------- MODULE AsyncRunner ----------------------------
(***************************************************************************)
(* yb::async_runner on Linux: one dispatch thread polls the tasks posted by *)
(* any number of client threads.  A client gets an async_future for a       *)
(* promise that it shares with the runner's lists by reference count.       *)
(*                                                                         *)
(* Threads: one client per promise (it posts the task and owns the future), *)
(* the dispatch thread (impl::run), the thread that destroys the runner,    *)
(* and the environment that makes file descriptors ready.                   *)
(*                                                                         *)
(* The two std::lists are sets here: the order in which a round visits the  *)
(* promises is left open, which allows every order the code can have.       *)
(***************************************************************************)
EXTENDS CancelLevel

CONSTANTS
    Promises,      \* the async_promise objects that may be created
    CancelLevels,  \* the levels clients pass to cancel() and wait()
    StopLevel,     \* the level at which a task gives up its wait
    Continuations, \* what an ended wait may be followed by, besides a result
    RunMayThrow,   \* whether impl::run may leave by an exception
    Free           \* the value of an unlocked mutex

ASSUME LevelAssumption ==
    /\ CancelLevels \subseteq Level \ {cl_none}
    /\ StopLevel \in Level \ {cl_none}
ASSUME ContinuationAssumption == Continuations \subseteq {"waiting", "ready"}
ASSUME ThrowAssumption == RunMayThrow \in BOOLEAN
ASSUME FreeAssumption == Free \notin Promises

VARIABLES
    mutex,       \* async_runner::impl::mutex: its owner, or Free
    event,       \* control_event is readable
    stopped,     \* async_runner::impl::stopped
    promises,    \* the promises the dispatch thread works on
    newPromises, \* the promises submitted and not yet taken over
    instant,     \* the promises whose task had its result when it was posted
    refs,        \* m_refcount
    freed,       \* promises deleted by release()
    finished,    \* m_finished
    req,         \* m_request_cl
    applied,     \* m_applied_cl
    stubborn,    \* promises whose task waits anew after it was told to give up
    task,        \* m_task
    ready,       \* promises whose task's file descriptor is ready
    cpc,         \* program counters of the clients
    dpc,         \* program counter of the dispatch thread
    todo,        \* promises the current loop of the dispatch thread has left
    cur,         \* the promise that loop is at
    mpc          \* program counter of the thread that destroys the runner

shared == <<mutex, event, stopped>>
lists  == <<promises, newPromises, instant>>
counts == <<refs, freed>>
levels == <<req, applied, stubborn>>
local  == <<dpc, todo, cur>>
vars   == <<shared, lists, counts, levels, finished, task, ready, cpc, local, mpc>>

(* A waiting task polls a descriptor; a ready one calls set_finished in      *)
(* prepare_wait; of a cancelled one the current wait ends at its next        *)
(* finish_wait, and its continuation sees the cancellation.                  *)
Result    == {"value", "aborted"}
Live      == {"waiting", "ready", "cancelled"}
TaskState == {"none"} \cup Live \cup Result

Critical == {"submitting", "addref", "unlock", "signal_cancel", "signal_wait"}
Handle   == {"unlock", "holding", "signal_cancel", "signal_wait", "wait", "blocked", "got"}
ClientPC == {"idle", "submitting", "addref", "gone"} \cup Handle

InCancel   == {"do_cancel", "mark_applied"}
InFinish   == {"finish", "mark_finished", "erase"}
DispatchPC == {"check", "cancel", "poll", "splice", "exited"}
                \cup InCancel \cup InFinish
MainPC     == {"running", "signalling", "joining", "destroying", "destroyed"}

Listed == promises \cup newPromises
-----------------------------------------------------------------------------
Init ==
    /\ mutex = Free /\ event = FALSE /\ stopped = FALSE
    /\ promises = {} /\ newPromises = {} /\ instant = {}
    /\ refs = [p \in Promises |-> 0] /\ freed = {}
    /\ finished = [p \in Promises |-> FALSE]
    /\ req = [p \in Promises |-> cl_none] /\ applied = [p \in Promises |-> cl_none]
    /\ stubborn = {}
    /\ task = [p \in Promises |-> "none"]
    /\ ready = {}
    /\ cpc = [p \in Promises |-> "idle"]
    /\ dpc = "check" /\ todo = {} /\ cur = Free
    /\ mpc = "running"

(* async_promise_base::release on behalf of the last step of a client or of  *)
(* the erasure of a list element.                                            *)
Release(p) ==
    /\ refs' = [refs EXCEPT ![p] = @ - 1]
    /\ freed' = IF refs[p] = 1 THEN freed \cup {p} ELSE freed
-----------------------------------------------------------------------------
(* Posting.  The runner outlives every call made on it: see Stop.            *)

(* The task already has its result: the promise never enters a list.         *)
PostResult(p) ==
    /\ cpc[p] = "idle" /\ mpc = "running"
    /\ instant' = instant \cup {p}
    /\ refs' = [refs EXCEPT ![p] = 2]
    /\ task' = [task EXCEPT ![p] = "value"]
    /\ finished' = [finished EXCEPT ![p] = TRUE]
    /\ cpc' = [cpc EXCEPT ![p] = "holding"]
    /\ UNCHANGED <<shared, promises, newPromises, freed, levels, ready, local, mpc>>

(* An allocation fails: post() returns a future that holds the exception.    *)
PostThrows(p) ==
    /\ cpc[p] = "idle" /\ mpc = "running"
    /\ cpc' = [cpc EXCEPT ![p] = "gone"]
    /\ UNCHANGED <<shared, lists, counts, levels, finished, task, ready, local, mpc>>

(* The promise is allocated with one reference and submit_context locks.     *)
SubmitContext(p) ==
    /\ cpc[p] = "idle" /\ mpc = "running"
    /\ mutex = Free
    /\ mutex' = p
    /\ refs' = [refs EXCEPT ![p] = 1]
    /\ cpc' = [cpc EXCEPT ![p] = "submitting"]
    /\ UNCHANGED <<event, stopped, lists, freed, levels, finished, task, ready, local, mpc>>

(* Mutant: the submit_context is left before the future is made.             *)
SubmitUnlocks(p) ==
    /\ cpc[p] = "submitting"
    /\ \E s \in {"waiting", "ready"} : task' = [task EXCEPT ![p] = s]
    /\ newPromises' = newPromises \cup {p}
    /\ event' = TRUE
    /\ mutex' = Free
    /\ cpc' = [cpc EXCEPT ![p] = "addref"]
    /\ UNCHANGED <<stopped, promises, instant, counts, levels, finished, ready, local, mpc>>

(* Mutant: submit() does not signal.                                         *)
SubmitSilently(p) ==
    /\ cpc[p] = "submitting"
    /\ \E s \in {"waiting", "ready"} : task' = [task EXCEPT ![p] = s]
    /\ newPromises' = newPromises \cup {p}
    /\ cpc' = [cpc EXCEPT ![p] = "addref"]
    /\ UNCHANGED <<shared, promises, instant, counts, levels, finished, ready, local, mpc>>

(* The promise's first reference now belongs to the list.                    *)
Submit(p) ==
    /\ cpc[p] = "submitting"
    /\ \E s \in {"waiting", "ready"} : task' = [task EXCEPT ![p] = s]
    /\ newPromises' = newPromises \cup {p}
    /\ event' = TRUE
    /\ cpc' = [cpc EXCEPT ![p] = "addref"]
    /\ UNCHANGED <<mutex, stopped, promises, instant, counts, levels, finished, ready, local, mpc>>

FutureAddref(p) ==
    /\ cpc[p] = "addref"
    /\ refs' = [refs EXCEPT ![p] = @ + 1]
    /\ cpc' = [cpc EXCEPT ![p] = "unlock"]
    /\ UNCHANGED <<shared, lists, freed, levels, finished, task, ready, local, mpc>>

SubmitUnlock(p) ==
    /\ cpc[p] = "unlock"
    /\ mutex' = Free
    /\ cpc' = [cpc EXCEPT ![p] = "holding"]
    /\ UNCHANGED <<event, stopped, lists, counts, levels, finished, task, ready, local, mpc>>
-----------------------------------------------------------------------------
(* The future.  cancel() raises the request and signals under the runner's   *)
(* mutex, but the dispatch thread reads the request without it: two steps.   *)

CancelRequest(p, cl, next) ==
    /\ cpc[p] = "holding"
    /\ mutex = Free
    /\ mutex' = p
    /\ req' = [req EXCEPT ![p] = MaxLevel(@, cl)]
    /\ cpc' = [cpc EXCEPT ![p] = next]
    /\ UNCHANGED <<event, stopped, lists, counts, applied, stubborn, finished, task, ready, local, mpc>>

FutureCancel(p) == \E cl \in CancelLevels : CancelRequest(p, cl, "signal_cancel")

(* wait(cl), and the destructor and the assignment, which wait with cl_kill. *)
FutureWaitCancel(p) == \E cl \in CancelLevels \cup {cl_kill} : CancelRequest(p, cl, "signal_wait")

CancelSignal(p) ==
    /\ cpc[p] \in {"signal_cancel", "signal_wait"}
    /\ event' = TRUE
    /\ mutex' = Free
    /\ cpc' = [cpc EXCEPT ![p] = IF @ = "signal_cancel" THEN "holding" ELSE "wait"]
    /\ UNCHANGED <<stopped, lists, counts, levels, finished, task, ready, local, mpc>>

(* wait(cl_none), which get() and run() use.                                 *)
FutureWait(p) ==
    /\ cpc[p] = "holding"
    /\ cpc' = [cpc EXCEPT ![p] = "wait"]
    /\ UNCHANGED <<shared, lists, counts, levels, finished, task, ready, local, mpc>>

(* pthread_cond_wait may return for no reason.                               *)
SpuriousWakeup(p) ==
    /\ cpc[p] = "blocked"
    /\ cpc' = [cpc EXCEPT ![p] = "wait"]
    /\ UNCHANGED <<shared, lists, counts, levels, finished, task, ready, local, mpc>>

(* One pass of the loop around pthread_cond_wait.                            *)
WaitFinished(p) ==
    /\ cpc[p] = "wait"
    /\ cpc' = [cpc EXCEPT ![p] = IF finished[p] THEN "got" ELSE "blocked"]
    /\ UNCHANGED <<shared, lists, counts, levels, finished, task, ready, local, mpc>>

(* The result has been read; the future gives its reference back.            *)
FutureRelease(p) ==
    /\ cpc[p] = "got"
    /\ Release(p)
    /\ cpc' = [cpc EXCEPT ![p] = "gone"]
    /\ UNCHANGED <<shared, lists, levels, finished, task, ready, local, mpc>>

(* Mutant: detach() forgets to release.                                      *)
DetachKeeps(p) ==
    /\ cpc[p] = "holding"
    /\ cpc' = [cpc EXCEPT ![p] = "gone"]
    /\ UNCHANGED <<shared, lists, counts, levels, finished, task, ready, local, mpc>>

(* Mutant: detach() releases but keeps the pointer.                          *)
DetachTwice(p) ==
    /\ cpc[p] = "holding"
    /\ Release(p)
    /\ UNCHANGED <<shared, lists, levels, finished, task, ready, cpc, local, mpc>>

FutureDetach(p) ==
    /\ cpc[p] = "holding"
    /\ Release(p)
    /\ cpc' = [cpc EXCEPT ![p] = "gone"]
    /\ UNCHANGED <<shared, lists, levels, finished, task, ready, local, mpc>>
-----------------------------------------------------------------------------
(* The dispatch thread.                                                      *)

CheckStopped ==
    /\ dpc = "check"
    /\ IF stopped
       THEN dpc' = "exited" /\ UNCHANGED todo
       ELSE dpc' = "cancel" /\ todo' = promises
    /\ UNCHANGED <<shared, lists, counts, levels, finished, task, ready, cpc, cur, mpc>>

(* perform_pending_cancels reads m_request_cl three times, without the mutex *)
(* cancel() writes it under: to compare, to cancel, to remember.             *)
ComparePending(p) ==
    /\ dpc = "cancel" /\ p \in todo
    /\ todo' = todo \ {p}
    /\ IF req[p] > applied[p]
       THEN dpc' = "do_cancel" /\ cur' = p
       ELSE UNCHANGED <<dpc, cur>>
    /\ UNCHANGED <<shared, lists, counts, levels, finished, task, ready, cpc, mpc>>

(* Mutant: a task gives up only above its level.                             *)
DoCancelAbove(p) ==
    /\ dpc = "do_cancel" /\ cur = p
    /\ dpc' = "mark_applied"
    /\ IF req[p] > StopLevel
       THEN task' = [task EXCEPT ![p] = "cancelled"] /\ stubborn' = stubborn \ {p}
       ELSE UNCHANGED <<task, stubborn>>
    /\ UNCHANGED <<shared, lists, counts, req, applied, finished, ready, cpc, todo, cur, mpc>>

DoCancel(p) ==
    /\ dpc = "do_cancel" /\ cur = p
    /\ dpc' = "mark_applied"
    /\ IF req[p] >= StopLevel
       THEN task' = [task EXCEPT ![p] = "cancelled"] /\ stubborn' = stubborn \ {p}
       ELSE UNCHANGED <<task, stubborn>>
    /\ UNCHANGED <<shared, lists, counts, req, applied, finished, ready, cpc, todo, cur, mpc>>

MarkApplied(p) ==
    /\ dpc = "mark_applied" /\ cur = p
    /\ applied' = [applied EXCEPT ![p] = req[p]]
    /\ dpc' = "cancel"
    /\ UNCHANGED <<shared, lists, counts, req, stubborn, finished, task, ready, cpc, todo, cur, mpc>>

(* Mutant: the control event is drained on the way into poll().              *)
PrepareDrains ==
    /\ dpc = "cancel" /\ todo = {}
    /\ LET done == {p \in promises : task[p] \in {"ready", "cancelled"}}
       IN IF done = {} THEN dpc' = "poll" /\ event' = FALSE /\ UNCHANGED todo
                       ELSE dpc' = "finish" /\ todo' = done /\ UNCHANGED event
    /\ UNCHANGED <<mutex, stopped, lists, counts, levels, finished, task, ready, cpc, cur, mpc>>

(* prepare_wait of every promise: if some task called set_finished, those    *)
(* tasks are finished in this round, else the thread polls.                  *)
Prepare ==
    /\ dpc = "cancel" /\ todo = {}
    /\ LET done == {p \in promises : task[p] \in {"ready", "cancelled"}}
       IN IF done = {} THEN dpc' = "poll" /\ UNCHANGED todo
                       ELSE dpc' = "finish" /\ todo' = done
    /\ UNCHANGED <<shared, lists, counts, levels, finished, task, ready, cpc, cur, mpc>>

(* clear(), prepare_wait() and push_back() may throw std::bad_alloc, which   *)
(* dispatch_thread swallows.                                                 *)
RunThrows ==
    /\ RunMayThrow /\ dpc = "cancel" /\ todo = {}
    /\ dpc' = "exited"
    /\ UNCHANGED <<shared, lists, counts, levels, finished, task, ready, cpc, todo, cur, mpc>>

(* poll returns with control_event readable: it is read first, and the       *)
(* descriptors of the tasks are not looked at.                               *)
ReadControlEvent ==
    /\ dpc = "poll" /\ event
    /\ event' = FALSE
    /\ dpc' = "splice"
    /\ UNCHANGED <<mutex, stopped, lists, counts, levels, finished, task, ready, cpc, todo, cur, mpc>>

Splice ==
    /\ dpc = "splice" /\ mutex = Free
    /\ promises' = promises \cup newPromises
    /\ newPromises' = {}
    /\ dpc' = "check"
    /\ UNCHANGED <<shared, instant, counts, levels, finished, task, ready, cpc, todo, cur, mpc>>

(* One ready descriptor is selected.                                         *)
PollReady(p) ==
    /\ dpc = "poll" /\ ~event
    /\ p \in promises /\ p \in ready /\ task[p] = "waiting"
    /\ todo' = {p}
    /\ dpc' = "finish"
    /\ UNCHANGED <<shared, lists, counts, levels, finished, task, ready, cpc, cur, mpc>>

(* What the wait that has ended may give: a task that was told to give up    *)
(* ends with the cancellation, or with the value a continuation made of it.  *)
Outcomes(p) == IF task[p] = "cancelled" \/ p \in stubborn THEN Result ELSE {"value"}

(* Mutant: finish_wait returns true whatever has_result() says.              *)
FinishAlways(p) ==
    /\ dpc = "finish" /\ p \in todo
    /\ todo' = todo \ {p}
    /\ ready' = ready \ {p}
    /\ \/ \E r \in Outcomes(p) : task' = [task EXCEPT ![p] = r] /\ UNCHANGED stubborn
       \/ /\ \E s \in Continuations : task' = [task EXCEPT ![p] = s]
          /\ stubborn' = IF task[p] = "cancelled" THEN stubborn \cup {p} ELSE stubborn
    /\ cur' = p
    /\ dpc' = "mark_finished"
    /\ UNCHANGED <<shared, lists, counts, req, applied, finished, cpc, mpc>>

(* finish_wait of one selected task: a result, or the task its continuation  *)
(* returned, which waits anew.  That task knows nothing of a level that was  *)
(* delivered to the wait before it, and m_applied_cl keeps the level from    *)
(* being delivered twice: it has become stubborn.                            *)
FinishTask(p) ==
    /\ dpc = "finish" /\ p \in todo
    /\ todo' = todo \ {p}
    /\ ready' = ready \ {p}
    /\ \/ /\ \E r \in Outcomes(p) : task' = [task EXCEPT ![p] = r]
          /\ cur' = p
          /\ dpc' = "mark_finished"
          /\ UNCHANGED stubborn
       \/ /\ \E s \in Continuations : task' = [task EXCEPT ![p] = s]
          /\ stubborn' = IF task[p] = "cancelled" THEN stubborn \cup {p} ELSE stubborn
          /\ UNCHANGED <<cur, dpc>>
    /\ UNCHANGED <<shared, lists, counts, req, applied, finished, cpc, mpc>>

FinishDone ==
    /\ dpc = "finish" /\ todo = {}
    /\ dpc' = "check"
    /\ UNCHANGED <<shared, lists, counts, levels, finished, task, ready, cpc, todo, cur, mpc>>

(* Mutant: mark_finished does not wake anybody.                              *)
MarkSilently(p) ==
    /\ dpc = "mark_finished" /\ cur = p
    /\ finished' = [finished EXCEPT ![p] = TRUE]
    /\ dpc' = "erase"
    /\ UNCHANGED <<shared, lists, counts, levels, task, ready, cpc, todo, cur, mpc>>

(* mark_finished wakes the client out of pthread_cond_wait.                  *)
MarkFinished(p) ==
    /\ dpc = "mark_finished" /\ cur = p
    /\ finished' = [finished EXCEPT ![p] = TRUE]
    /\ cpc' = [cpc EXCEPT ![p] = IF @ = "blocked" THEN "wait" ELSE @]
    /\ dpc' = "erase"
    /\ UNCHANGED <<shared, lists, counts, levels, task, ready, todo, cur, mpc>>

(* Erasing the list element destroys its parallel_promise, which releases.   *)
Erase(p) ==
    /\ dpc = "erase" /\ cur = p
    /\ promises' = promises \ {p}
    /\ Release(p)
    /\ dpc' = "finish"
    /\ UNCHANGED <<shared, newPromises, instant, levels, finished, task, ready, cpc, todo, cur, mpc>>
-----------------------------------------------------------------------------
(* Destroying the runner.  Futures call into it, so the program destroys it  *)
(* only when no future is left and nobody is posting.                        *)

Stop ==
    /\ mpc = "running"
    /\ \A p \in Promises : cpc[p] \in {"idle", "gone"}
    /\ stopped' = TRUE
    /\ mpc' = "signalling"
    /\ UNCHANGED <<mutex, event, lists, counts, levels, finished, task, ready, cpc, local>>

(* Mutant: the dispatch thread is told to stop but not woken.                *)
StopSilently ==
    /\ mpc = "signalling"
    /\ mpc' = "joining"
    /\ UNCHANGED <<shared, lists, counts, levels, finished, task, ready, cpc, local>>

StopSignal ==
    /\ mpc = "signalling"
    /\ event' = TRUE
    /\ mpc' = "joining"
    /\ UNCHANGED <<mutex, stopped, lists, counts, levels, finished, task, ready, cpc, local>>

Join ==
    /\ mpc = "joining" /\ dpc = "exited"
    /\ mpc' = "destroying"
    /\ UNCHANGED <<shared, lists, counts, levels, finished, task, ready, cpc, local>>

(* The lists release what they still hold: detached tasks, which ~task       *)
(* cancels and waits for on this thread.                                     *)
DestroyLists ==
    /\ mpc = "destroying"
    /\ refs' = [p \in Promises |-> IF p \in Listed THEN refs[p] - 1 ELSE refs[p]]
    /\ freed' = freed \cup {p \in Listed : refs[p] = 1}
    /\ task' = [p \in Promises |->
                  IF p \in Listed /\ refs[p] = 1 /\ task[p] \in Live THEN "aborted" ELSE task[p]]
    /\ promises' = {} /\ newPromises' = {}
    /\ mpc' = "destroyed"
    /\ UNCHANGED <<shared, instant, levels, finished, ready, cpc, local>>

(* Nothing is left to do: keeps the end of the program from being a deadlock. *)
Terminated == mpc = "destroyed" /\ UNCHANGED vars
-----------------------------------------------------------------------------
(* The environment: the descriptor of a listed, waiting task becomes ready.  *)
MakeReady(p) ==
    /\ p \in Listed \ ready /\ task[p] = "waiting"
    /\ ready' = ready \cup {p}
    /\ UNCHANGED <<shared, lists, counts, levels, finished, task, cpc, local, mpc>>

Post(p)   == PostResult(p) \/ PostThrows(p) \/ SubmitContext(p)
(* The rest of a call that has begun: a client does not stop inside one.     *)
Proceed(p) == \/ Submit(p) \/ FutureAddref(p) \/ SubmitUnlock(p)
              \/ CancelSignal(p) \/ WaitFinished(p) \/ FutureRelease(p)
Use(p)    == FutureCancel(p) \/ FutureWaitCancel(p) \/ FutureWait(p) \/ FutureDetach(p)
Client(p) == Post(p) \/ Proceed(p) \/ Use(p) \/ SpuriousWakeup(p)

CancelStep(p) == ComparePending(p) \/ DoCancel(p) \/ MarkApplied(p)
FinishStep(p) == PollReady(p) \/ FinishTask(p) \/ MarkFinished(p) \/ Erase(p)
Dispatch ==
    \/ CheckStopped \/ Prepare \/ ReadControlEvent \/ Splice \/ FinishDone
    \/ \E p \in Promises : CancelStep(p) \/ FinishStep(p)

Destroy == Stop \/ StopSignal \/ Join \/ DestroyLists

Next ==
    \/ \E p \in Promises : Client(p) \/ MakeReady(p)
    \/ Dispatch \/ RunThrows \/ Destroy \/ Terminated

Spec == Init /\ [][Next]_vars
-----------------------------------------------------------------------------
(* Every thread that is inside a call keeps running; the mutex is granted to *)
(* a thread that waits for it again and again.  Nothing says that a          *)
(* descriptor becomes ready, that a client posts, or that it uses or drops   *)
(* its future.                                                               *)
Fairness ==
    /\ \A p \in Promises : WF_vars(Proceed(p))
    /\ WF_vars(Dispatch) /\ SF_vars(Splice)
    /\ WF_vars(StopSignal \/ Join \/ DestroyLists)

FairSpec == Spec /\ Fairness
-----------------------------------------------------------------------------
(* Types.  m_refcount never goes below zero, which release() assumes.        *)
TypeOK ==
    /\ mutex \in Promises \cup {Free}
    /\ event \in BOOLEAN /\ stopped \in BOOLEAN
    /\ promises \subseteq Promises /\ newPromises \subseteq Promises /\ instant \subseteq Promises
    /\ refs \in [Promises -> Nat] /\ freed \subseteq Promises
    /\ finished \in [Promises -> BOOLEAN]
    /\ req \in [Promises -> Level] /\ applied \in [Promises -> Level]
    /\ stubborn \subseteq Promises
    /\ task \in [Promises -> TaskState]
    /\ ready \subseteq Promises
    /\ cpc \in [Promises -> ClientPC]
    /\ dpc \in DispatchPC /\ todo \subseteq Promises
    /\ cur \in Promises \cup {Free}
    /\ mpc \in MainPC

(* The references of a promise: its place in a list (or in the submit that   *)
(* is about to put it there), its future, and the one that post() leaves     *)
(* behind when the task already had a result, which nobody gives back.       *)
Owners(p) ==
    (IF p \in Listed \/ cpc[p] = "submitting" THEN 1 ELSE 0)
    + (IF cpc[p] \in Handle THEN 1 ELSE 0)
    + (IF p \in instant THEN 1 ELSE 0)

(* No promise is used after release() has deleted it: not by its client in   *)
(* any step of post(), cancel(), wait() or the destructor, and not by the    *)
(* dispatch thread, which still touches it after it has marked it finished.  *)
NoUseAfterFree ==
    \A p \in freed :
        /\ p \notin Listed
        /\ cpc[p] \notin Handle \cup {"submitting", "addref"}
        /\ dpc \in InCancel \cup {"mark_finished", "erase"} => cur # p

(* When the runner is gone every promise that ever was in its lists is       *)
(* deleted, whoever let go of it last: the client or the dispatch thread.    *)
EveryPromiseReleased ==
    mpc = "destroyed" => \A p \in Promises \ instant : task[p] # "none" => p \in freed

(* The dispatch thread never sleeps in poll() over work it was told of: a    *)
(* submission, a cancel request or the request to stop has the event set, or *)
(* the thread that made it is about to set it.                               *)
NoLostWakeup ==
    dpc = "poll" /\ ~event =>
        /\ newPromises = {}
        /\ \A p \in promises : req[p] > applied[p] => cpc[p] \in {"signal_cancel", "signal_wait"}
        /\ stopped => mpc = "signalling"

(* A level remembered as applied has been delivered: a task that was told to *)
(* give up is not left in a wait that was never told, unless it began that   *)
(* wait afterwards.  perform_pending_cancels reads the request again after   *)
(* it has cancelled, so this takes clients that use one level only: see the  *)
(* README for what two levels do.                                            *)
AppliedIsDelivered ==
    \A p \in promises \ stubborn : applied[p] >= StopLevel => task[p] # "waiting"

(* A client that destroys its future, or waits with the level its task gives *)
(* up at, gets through, whatever the other tasks and clients do, or its task *)
(* was told and went on with a new wait.  Such a task (stream_device::run in *)
(* its write_loop is one) holds the client for as long as that wait takes.   *)
KillEndsWait ==
    \A p \in Promises :
        cpc[p] = "signal_wait" /\ req[p] >= StopLevel ~> cpc[p] = "gone" \/ p \in stubborn

(* A submitted task is taken over by the dispatch thread, however busy the   *)
(* descriptors of the other tasks keep it.                                   *)
SubmissionTakenOver ==
    \A p \in Promises : p \in newPromises ~> p \in promises \/ mpc # "running"

(* The destructor of the runner returns.                                     *)
StopEnds == mpc = "signalling" ~> mpc = "destroyed"

(* The refinement of AsyncFuture.                                            *)
PhaseOf(t) == IF t \in Live THEN "pending" ELSE t
OwnerOf(c) == IF c \in {"idle", "submitting"} THEN "none"
              ELSE IF c = "got" THEN "returned"
              ELSE IF c = "gone" THEN "closed" ELSE "held"

Future == INSTANCE AsyncFuture WITH
    phase <- [p \in Promises |-> PhaseOf(task[p])],
    owner <- [p \in Promises |-> OwnerOf(cpc[p])],
    asked <- req,
    open  <- mpc # "destroyed"

(* The runner keeps what AsyncFuture promises the holder of a future: wait() *)
(* returns only with a result, a task is aborted only when its client asked  *)
(* for it, and destroying the runner leaves no task pending.                 *)
ImplementsFuture == Future!FutureSpec
=============================================================================
