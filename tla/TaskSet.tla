------------------------------ MODULE TaskSet ------------------------------
(***************************************************************************)
(* What a runner promises of the tasks that are posted to it: each one is on *)
(* its own.  A task waits for the descriptors at its leaves; some of them    *)
(* become ready, or are given up after a cancel, and exactly those leaves    *)
(* have a result.  There are no rounds, no contexts and no tree that holds   *)
(* the tasks together.  SyncRunner implements this specification.            *)
(***************************************************************************)
EXTENDS TaskTree

CONSTANTS
    Promises,
    Tokens,
    Start(_)   \* the task of a promise as it is posted

VARIABLE tasks \* the task of each promise, stripped of mementos

(* A task when its leaves for the descriptors fs have their results.         *)
RECURSIVE Settle(_, _)
Settle(t, fs) ==
    CASE t.k = "fd" ->
            IF t.fd \in fs THEN FdFinish(t) ELSE t
      [] t.k = "par" -> Collapse(t, Settle(t.l, fs), Settle(t.r, fs))
      [] t.k \in Nested -> Replace(t, Settle(t.t, fs))
      [] OTHER -> t

Waits(p) == {n.fd : n \in Leaves(tasks[p])}

SetInit == tasks = [p \in Promises |-> Empty]

Posted(p) ==
    /\ tasks[p] = Empty
    /\ tasks' = [tasks EXCEPT ![p] = Built(Start(p))]

CancelledAt(p, cl) == tasks' = [tasks EXCEPT ![p] = Cancel(@, cl)]

Fired(id, cl) == tasks' = [p \in Promises |-> Fire(tasks[p], id, cl)]

(* Every task's own waits, any of them.                                      *)
Settled ==
    /\ DOMAIN tasks' = Promises
    /\ \A p \in Promises :
          \E fs \in SUBSET Waits(p) : tasks'[p] = Settle(tasks[p], fs)

(* A future, or the runner, is destroyed.                                    *)
Abandoned ==
    /\ DOMAIN tasks' = Promises
    /\ \A p \in Promises :
          \/ tasks'[p] = tasks[p]
          \/ HasTask(tasks[p]) /\ tasks'[p] = Result(CancelAndWait(tasks[p]))

SetNext ==
    \/ \E p \in Promises : Posted(p) \/ \E cl \in Level : CancelledAt(p, cl)
    \/ \E id \in Tokens, cl \in Level : Fired(id, cl)
    \/ Settled \/ Abandoned

SetSpec == SetInit /\ [][SetNext]_tasks
=============================================================================
