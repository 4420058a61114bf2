------------------------------ MODULE TaskTree ------------------------------
(***************************************************************************)
(* task<T> and the tasks it is composed of: waiting for a descriptor,        *)
(* sequence, parallel composition, loop, level upgrade, cancellation token.  *)
(* A task is a tree; what the virtual functions of task_base do to it is     *)
(* defined by recursion on the tree.                                         *)
(*                                                                         *)
(* A result is an exception or a value, of which only a count of bytes is    *)
(* kept.  A descriptor stands for the one wait for it.  Continuations and    *)
(* the bodies of loops are closures, to which Then and Body give a meaning.  *)
(***************************************************************************)
EXTENDS CancelLevel, Sequences

CONSTANTS
    Fds,             \* the descriptors
    GiveUp,          \* the level at which the canceller of a descriptor gives up
    Moves,           \* the value a wait for a descriptor brings, in bytes
    Then(_, _),      \* the task a continuation returns for a result
    Body(_, _, _, _) \* the task t a loop's body returns for a result, the loop's
                     \* state and a level, and the state st it leaves

ASSUME GiveUpAssumption == GiveUp \in [Fds -> Level \ {cl_none}]
ASSUME MovesAssumption == Moves \in [Fds -> Nat]

Value(v)        == [exc |-> "none", v |-> v]
Raised(e)       == [exc |-> e, v |-> 0]
Done            == Value(0)
Cancelled       == Raised("task_cancelled")
HasException(r) == r.exc # "none"

(* Where a branch's waits are in the preparation context.                    *)
NoMemento == [first |-> 0, last |-> 0, done |-> 0]

Empty         == [k |-> "empty"]
Result(r)     == [k |-> "result", r |-> r]
Fd(f)         == [k |-> "fd", fd |-> f, on |-> TRUE]
Seq2(t, next) == [k |-> "seq", t |-> t, next |-> next]
Par(l, r)     == [k |-> "par", l |-> l, r |-> r, lm |-> NoMemento, rm |-> NoMemento]
Loop(t, body, st) ==
    [k |-> "loop", t |-> t, body |-> body, st |-> st, level |-> cl_none]
Upgrade(t, from, to, catch) ==
    [k |-> "upgrade", t |-> t, from |-> from, to |-> to, catch |-> catch]
Token(id, t, catch) == [k |-> "token", id |-> id, t |-> t, catch |-> catch]
Promise(p, t) == [k |-> "promise", p |-> p, t |-> t]

(* abort_on and finish_on.                                                   *)
AbortOn(t, cl)  == Upgrade(t, cl, cl_abort, FALSE)
FinishOn(t, cl) == Upgrade(t, cl, cl_abort, TRUE)

HasTask(t) == t.k \notin {"empty", "result"}
Nested     == {"seq", "loop", "upgrade", "token", "promise"}

(* operator|: what has no task left is dropped, and its exception with it.   *)
Join(l, r) ==
    IF ~HasTask(l) THEN r
    ELSE IF ~HasTask(r) THEN l
    ELSE Par(l, r)

(* What is to follow: always (continue_with), or only a value, an exception  *)
(* being passed on (then and ignore_result).                                 *)
Always(f)  == [f |-> f, onlyValue |-> FALSE]
OnValue(f) == [f |-> f, onlyValue |-> TRUE]

(* task_cancelled is caught by finish_on and finishable.                     *)
Caught(t, r) == IF t.catch /\ r = Cancelled THEN Done ELSE r
-----------------------------------------------------------------------------
(* cancel: the level goes down the tree, to what waits now.  A descriptor's  *)
(* canceller says whether the wait goes on; only a loop remembers the level. *)
FdCancel(t, cl) == [t EXCEPT !.on = @ /\ cl < GiveUp[t.fd]]

(* Mutant: an upgrade passes on only what it upgrades.                       *)
UpgradeOnly(t, cl)  == IF cl >= t.from /\ cl < t.to THEN t.to ELSE cl_none
UpgradeLevel(t, cl) == IF cl >= t.from /\ cl < t.to THEN t.to ELSE cl

LoopCancel(t, cl) == [t EXCEPT !.level = MaxLevel(@, cl)]

RECURSIVE Cancel(_, _)
Cancel(t, cl) ==
    CASE t.k = "fd" -> FdCancel(t, cl)
      [] t.k = "par" -> [t EXCEPT !.l = Cancel(@, cl), !.r = Cancel(@, cl)]
      [] t.k = "loop" -> [LoopCancel(t, cl) EXCEPT !.t = Cancel(@, cl)]
      [] t.k = "upgrade" -> [t EXCEPT !.t = Cancel(@, UpgradeLevel(t, cl))]
      [] t.k \in {"seq", "token", "promise"} -> [t EXCEPT !.t = Cancel(@, cl)]
      [] OTHER -> t

(* The functions that make tasks do nothing to a result, or go straight on   *)
(* with it: Built is what they make of a tree as it is written down.         *)
RECURSIVE Built(_)
Continue(next, r) ==
    IF next.onlyValue /\ HasException(r) THEN Result(r) ELSE Built(Then(next.f, r))
Follow(t, next) == IF t.k = "result" THEN Continue(next, t.r) ELSE Seq2(t, next)

(* loop, and finish_wait of a loop: the body is invoked until it waits or    *)
(* ends the loop.                                                            *)
RECURSIVE LoopFinish(_)
LoopFinish(t) ==
    LET b == Body(t.body, t.t.r, t.st, t.level) IN
    IF t.t.k # "result" THEN t
    ELSE IF HasException(t.t.r) THEN t.t
    ELSE IF b.t = Empty THEN Result(Done)
    ELSE LoopFinish([t EXCEPT !.t = Built(b.t), !.st = b.st])
LoopOn(t, body, st) == LoopFinish(Loop(t, body, st))

Built(t) ==
    CASE t.k = "seq" -> Follow(Built(t.t), t.next)
      [] t.k = "par" -> Join(Built(t.l), Built(t.r))
      [] t.k = "loop" -> LoopOn(Built(t.t), t.body, t.st)
      [] t.k \in {"upgrade", "token"} ->
            LET n == Built(t.t) IN IF HasTask(n) THEN [t EXCEPT !.t = n] ELSE n
      [] OTHER -> t
-----------------------------------------------------------------------------
(* cancel_and_wait: the task is driven to its end without a runner, and its  *)
(* continuations with it.                                                    *)
RECURSIVE CancelAndWait(_)
FdEnd(t)  == IF t.on /\ cl_kill < GiveUp[t.fd] THEN Value(Moves[t.fd]) ELSE Cancelled
SeqEnd(t) == CancelAndWait(Continue(t.next, CancelAndWait(t.t)))
LoopEnd(t) ==
    LET r == CancelAndWait(t.t)
        b == Body(t.body, r, t.st, cl_kill)
    IN  IF HasException(r) THEN r
        ELSE IF b.t = Empty THEN Done
        ELSE CancelAndWait([t EXCEPT !.t = Built(b.t), !.st = b.st])
TokenEnd(t) == Caught(t, CancelAndWait(t.t))

CancelAndWait(t) ==
    CASE t.k = "fd" -> FdEnd(t)
      [] t.k = "result" -> t.r
      [] t.k = "par" -> Done
      [] t.k = "seq" -> SeqEnd(t)
      [] t.k = "loop" -> LoopEnd(t)
      [] t.k = "upgrade" -> CancelAndWait(t.t)
      [] t.k = "token" -> TokenEnd(t)
-----------------------------------------------------------------------------
(* The context a round prepares: what to poll, and how many tasks are done.  *)
NoContext == [fds |-> <<>>, done |-> 0]

(* Mutant: the first item a branch adds is taken for its sibling's.          *)
MementoShifted(from, to) ==
    [first |-> Len(from.fds) + 1, last |-> Len(to.fds) + 1, done |-> to.done - from.done]

(* task_wait_memento_builder: what was added between two checkpoints.        *)
Memento(from, to) ==
    [first |-> Len(from.fds), last |-> Len(to.fds), done |-> to.done - from.done]

FdPrepare(t, ctx) ==
    IF t.on THEN [ctx EXCEPT !.fds = Append(@, t.fd)] ELSE [ctx EXCEPT !.done = @ + 1]

RECURSIVE Prepare(_, _)
ParPrepare(t, ctx) ==
    LET l == Prepare(t.l, ctx)
        r == Prepare(t.r, l.ctx)
    IN  [t |-> [t EXCEPT !.l = l.t, !.lm = Memento(ctx, l.ctx),
                         !.r = r.t, !.rm = Memento(l.ctx, r.ctx)],
         ctx |-> r.ctx]

Prepare(t, ctx) ==
    CASE t.k = "fd" -> [t |-> t, ctx |-> FdPrepare(t, ctx)]
      [] t.k = "par" -> ParPrepare(t, ctx)
      [] t.k \in Nested ->
            LET n == Prepare(t.t, ctx) IN [t |-> [t EXCEPT !.t = n.t], ctx |-> n.ctx]
      [] OTHER -> [t |-> t, ctx |-> ctx]

(* task_wait_finalization_context: finished tasks, or one item of the poll.  *)
Finished    == [done |-> TRUE, item |-> 0]
Selected(i) == [done |-> FALSE, item |-> i - 1]

Contains(sel, m) ==
    \/ sel.done /\ m.done # 0
    \/ ~sel.done /\ m.first <= sel.item /\ sel.item < m.last
-----------------------------------------------------------------------------
(* finish_wait of each kind of task, when the one task it is made of has     *)
(* become n.                                                                 *)
FdFinish(t) == Result(IF t.on THEN Value(Moves[t.fd]) ELSE Cancelled)

Within(t, n)        == [t EXCEPT !.t = n]
SeqFinish(t, n)     == IF n.k = "result" THEN Continue(t.next, n.r) ELSE Within(t, n)
UpgradeFinish(t, n) == IF n.k = "result" THEN Result(Caught(t, n.r)) ELSE Within(t, n)
TokenFinish(t, n)   == IF n.k = "result" THEN Result(Caught(t, n.r)) ELSE Within(t, n)
PromiseFinish(t, n) == IF n.k = "result" THEN Result(Done) ELSE Within(t, n)

Replace(t, n) ==
    CASE t.k = "loop" -> LoopFinish(Within(t, n))
      [] t.k = "seq" -> SeqFinish(t, n)
      [] t.k = "upgrade" -> UpgradeFinish(t, n)
      [] t.k = "token" -> TokenFinish(t, n)
      [] t.k = "promise" -> PromiseFinish(t, n)

(* Mutant: a composition is over when one of its branches is.                *)
CollapseEarly(t, l, r) ==
    IF ~HasTask(l) \/ ~HasTask(r) THEN Result(Done) ELSE [t EXCEPT !.l = l, !.r = r]

(* A branch that is done leaves the list and its result is dropped; one that *)
(* is left alone takes the place of the composition.                         *)
Collapse(t, l, r) ==
    CASE l.k = "result" /\ r.k = "result" -> Result(Done)
      [] l.k = "result" /\ r.k # "result" -> r
      [] l.k # "result" /\ r.k = "result" -> l
      [] OTHER -> [t EXCEPT !.l = l, !.r = r]

(* The mementos lead to the tasks that were selected.                        *)
RECURSIVE Finish(_, _)
Finish(t, sel) ==
    CASE t.k = "fd" -> FdFinish(t)
      [] t.k = "par" ->
            Collapse(t, IF Contains(sel, t.lm) THEN Finish(t.l, sel) ELSE t.l,
                        IF Contains(sel, t.rm) THEN Finish(t.r, sel) ELSE t.r)
      [] t.k \in Nested -> Replace(t, Finish(t.t, sel))

(* The descriptors an item leads to.                                         *)
RECURSIVE Reached(_, _)
Reached(t, sel) ==
    CASE t.k = "fd" -> {t.fd}
      [] t.k = "par" -> (IF Contains(sel, t.lm) THEN Reached(t.l, sel) ELSE {})
                   \cup (IF Contains(sel, t.rm) THEN Reached(t.r, sel) ELSE {})
      [] t.k \in Nested -> Reached(t.t, sel)
      [] OTHER -> {}

(* The results a finish_wait gives to promises.                              *)
RECURSIVE Delivered(_, _)
Delivered(t, sel) ==
    CASE t.k = "promise" ->
            LET n == Finish(t.t, sel) IN IF n.k = "result" THEN {<<t.p, n.r>>} ELSE {}
      [] t.k = "par" -> (IF Contains(sel, t.lm) THEN Delivered(t.l, sel) ELSE {})
                   \cup (IF Contains(sel, t.rm) THEN Delivered(t.r, sel) ELSE {})
      [] OTHER -> {}
-----------------------------------------------------------------------------
(* The subtrees of a tree, and a change of some of them.                     *)
RECURSIVE Nodes(_)
Nodes(t) ==
    {t} \cup (CASE t.k = "par" -> Nodes(t.l) \cup Nodes(t.r)
                [] t.k \in Nested -> Nodes(t.t)
                [] OTHER -> {})

RECURSIVE Strip(_)
Strip(t) ==
    CASE t.k = "par" -> Par(Strip(t.l), Strip(t.r))
      [] t.k \in Nested -> [t EXCEPT !.t = Strip(@)]
      [] OTHER -> t

Leaves(t) == {n \in Nodes(t) : n.k = "fd"}

(* cancellation_token::cancel of the token id.                               *)
RECURSIVE Fire(_, _, _)
Fire(t, id, cl) ==
    CASE t.k = "token" /\ t.id = id -> [t EXCEPT !.t = Cancel(@, cl)]
      [] t.k = "par" -> [t EXCEPT !.l = Fire(@, id, cl), !.r = Fire(@, id, cl)]
      [] t.k \in Nested /\ ~(t.k = "token" /\ t.id = id) -> [t EXCEPT !.t = Fire(@, id, cl)]
      [] OTHER -> t

(* The task of promise p with n in its place.                                *)
RECURSIVE Put(_, _, _)
Put(t, p, n) ==
    CASE t.k = "promise" /\ t.p = p -> [t EXCEPT !.t = n]
      [] t.k = "par" -> [t EXCEPT !.l = Put(@, p, n), !.r = Put(@, p, n)]
      [] OTHER -> t
=============================================================================
