----------------------------- MODULE SyncRunner -----------------------------
(***************************************************************************)
(* sync_runner: posted tasks hang, behind promises, in one parallel          *)
(* composition, and a client that waits for a result drives all of them:     *)
(* a round prepares the tree, and finishes what is done already, or what a   *)
(* poll says is ready, one descriptor after the other with the mementos of   *)
(* the one preparation.                                                      *)
(***************************************************************************)
EXTENDS TaskTree, FiniteSets

CONSTANTS
    Promises,    \* the tasks that may be posted
    Tokens,      \* the cancellation tokens in them
    Start(_),    \* the task of a promise as it is posted
    Levels,      \* the levels clients cancel with
    Stubborn,    \* the promises whose task goes on after it was cancelled
    NoPromise    \* what no promise is

ASSUME LevelsAssumption == Levels \subseteq Level \ {cl_none}
ASSUME NoPromiseAssumption == NoPromise \notin Promises

VARIABLES
    tree,   \* m_parallel_tasks
    result, \* the result of a promise, NoResult before it has one
    held,   \* what became of the future: "none", "held", "gone"
    turn,   \* the promise a try_run waits for, or NoPromise
    polled, \* m_pollfds of the round
    todo,   \* the items with revents that have not been finished yet
    asked,  \* the promises that were cancelled at cl_abort or above (history)
    view    \* each promise's task or result, without mementos (history)

store  == <<tree, result, view>>
round  == <<turn, polled, todo>>
runner == <<store, held, round, asked>>

NoResult == Raised("not yet")

RunnerInit ==
    /\ tree = Empty
    /\ result = [p \in Promises |-> NoResult]
    /\ held = [p \in Promises |-> "none"]
    /\ turn = NoPromise
    /\ polled = <<>> /\ todo = {}
    /\ asked = {}
    /\ view = [p \in Promises |-> Empty]

(* The promise_tasks in a tree, and what is to be seen of promise p.         *)
Boxes(t) == {n \in Nodes(t) : n.k = "promise"}
TaskOf(t, p) == (CHOOSE n \in Boxes(t) : n.p = p).t
View(t, res, p) ==
    IF res[p] # NoResult THEN Result(res[p])
    ELSE IF \E n \in Boxes(t) : n.p = p THEN Strip(TaskOf(t, p)) ELSE Empty

Become(t, res) ==
    /\ tree' = t
    /\ result' = res
    /\ view' = [p \in Promises |-> View(t, res, p)]

InRound == todo # {}
Idle    == ~InRound /\ turn = NoPromise
Driving == ~InRound /\ turn # NoPromise /\ result[turn] = NoResult
-----------------------------------------------------------------------------
(* post: a task that has its result is never put into the tree.              *)
Post(p) ==
    /\ Idle /\ held[p] = "none"
    /\ held' = [held EXCEPT ![p] = "held"]
    /\ LET t == Built(Start(p)) IN
        IF HasTask(t)
        THEN Become(Join(tree, Promise(p, t)), result)
        ELSE Become(tree, [result EXCEPT ![p] = t.r])
    /\ UNCHANGED <<round, asked>>

(* sync_future::cancel, also from a continuation.                            *)
CancelFuture(p) ==
    /\ held[p] = "held" /\ result[p] = NoResult
    /\ \E cl \in Levels :
        /\ Become(Put(tree, p, Cancel(TaskOf(tree, p), cl)), result)
        /\ asked' = IF cl >= cl_abort THEN asked \cup {p} ELSE asked
    /\ UNCHANGED <<held, round>>

FireToken(id) ==
    /\ \E cl \in Levels : Become(Fire(tree, id, cl), result)
    /\ UNCHANGED <<held, round, asked>>

(* ~sync_future: the task is gone and its promise_task stays in the tree,    *)
(* with a promise that is never polled and never finished again.             *)
DropFuture(p) ==
    /\ Idle /\ held[p] = "held"
    /\ held' = [held EXCEPT ![p] = "gone"]
    /\ IF result[p] # NoResult THEN UNCHANGED store
       ELSE LET r == CancelAndWait(TaskOf(tree, p)) IN
            Become(Put(tree, p, Result(r)), [result EXCEPT ![p] = r])
    /\ UNCHANGED <<round, asked>>

(* detach: the task goes on whenever someone else drives the runner.         *)
DetachFuture(p) ==
    /\ Idle /\ held[p] = "held"
    /\ held' = [held EXCEPT ![p] = "gone"]
    /\ UNCHANGED <<store, round, asked>>

(* The runner is destroyed and with it whatever is left in its tree.         *)
DestroyRunner ==
    /\ Idle /\ tree # Empty
    /\ \A p \in Promises : held[p] # "none"
    /\ Become(Empty, [p \in Promises |->
                        IF HasTask(view[p]) THEN CancelAndWait(view[p]) ELSE result[p]])
    /\ UNCHANGED <<held, round, asked>>

TryRun(p) ==
    /\ Idle /\ held[p] = "held" /\ result[p] = NoResult
    /\ turn' = p
    /\ UNCHANGED <<store, held, polled, todo, asked>>

Return ==
    /\ ~InRound /\ turn # NoPromise /\ result[turn] # NoResult
    /\ turn' = NoPromise
    /\ UNCHANGED <<store, held, polled, todo, asked>>
-----------------------------------------------------------------------------
(* What the round has prepared is of no use after it.                        *)
FinishTree(t, sel, last) ==
    LET given == Delivered(t, sel) IN
    Become(IF last THEN Strip(Finish(t, sel)) ELSE Finish(t, sel),
           [p \in Promises |-> IF \E d \in given : d[1] = p
                               THEN (CHOOSE d \in given : d[1] = p)[2]
                               ELSE result[p]])

(* poll_one, when some task is done: those are finished and nothing is       *)
(* polled.                                                                   *)
FinishDone ==
    /\ Driving
    /\ LET prep == Prepare(tree, NoContext) IN
        /\ prep.ctx.done # 0
        /\ FinishTree(prep.t, Finished, TRUE)
    /\ UNCHANGED <<held, round, asked>>

(* poll_one, when none is: poll returns with some of the descriptors.        *)
Poll ==
    /\ Driving
    /\ LET prep == Prepare(tree, NoContext) IN
        /\ prep.ctx.done = 0
        /\ tree' = prep.t
        /\ polled' = prep.ctx.fds
        /\ todo' \in SUBSET (DOMAIN prep.ctx.fds) \ {{}}
    /\ UNCHANGED <<result, view, held, turn, asked>>

(* The loop over the items that have revents.                                *)
FinishItem ==
    /\ InRound
    /\ LET i == CHOOSE i \in todo : \A j \in todo : i <= j IN
        /\ todo' = todo \ {i}
        /\ polled' = IF todo' = {} THEN <<>> ELSE polled
        /\ FinishTree(tree, Selected(i), todo = {i})
    /\ UNCHANGED <<held, turn, asked>>

Round == FinishDone \/ Poll \/ FinishItem

Next ==
    \/ \E p \in Promises :
          Post(p) \/ CancelFuture(p) \/ DropFuture(p) \/ DetachFuture(p) \/ TryRun(p)
    \/ \E id \in Tokens : FireToken(id)
    \/ DestroyRunner \/ Return \/ Round

Spec == RunnerInit /\ [][Next]_runner

(* try_run goes on, and a descriptor that is polled becomes ready: this is   *)
(* WF_runner(Round), with the states that enable Round written out.          *)
Progress == []<>~(InRound \/ Driving) \/ []<><<Round>>_runner
FairSpec == Spec /\ Progress
-----------------------------------------------------------------------------
(* Every task behaves as it would alone: a descriptor that is ready, or a    *)
(* cancel, reaches the waits it is for and no others, and what is joined     *)
(* goes on when all of it is done.                                           *)
Alone == INSTANCE TaskSet WITH tasks <- view
ImplementsTaskSet == Alone!SetSpec

(* The mementos of the preparation go on leading every item that is still to *)
(* be finished to the one wait that put it there, however the tree has       *)
(* changed since.                                                            *)
ItemsReachTheirWaits ==
    \A i \in todo : Reached(tree, Selected(i)) = {polled[i]}

(* A client that cancels at cl_abort and waits gets its result, whatever the *)
(* descriptors do, unless the task is one that goes on.                      *)
AbortEndsTask ==
    \A p \in Promises \ Stubborn :
        turn = p /\ p \in asked ~> result[p] # NoResult
=============================================================================
