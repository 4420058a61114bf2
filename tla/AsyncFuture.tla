---------------------------- MODULE AsyncFuture ----------------------------
(***************************************************************************)
(* What async_runner promises the holder of an async_future, with no thread, *)
(* list, mutex or event in sight: a posted task stays pending until it has a *)
(* result, it is aborted only on request, waiting returns only once there is *)
(* a result, and a runner that is gone leaves nothing pending.               *)
(* AsyncRunner implements this specification.                                *)
(***************************************************************************)
EXTENDS CancelLevel

CONSTANTS Promises, StopLevel

VARIABLES
    phase, \* what became of the posted task
    owner, \* what its client has of the future
    asked, \* the highest level the client has cancelled it with
    open   \* the runner exists

fvars == <<phase, owner, asked, open>>

Outcome == {"value", "aborted"}

FutureInit ==
    /\ phase = [p \in Promises |-> "none"]
    /\ owner = [p \in Promises |-> "none"]
    /\ asked = [p \in Promises |-> cl_none]
    /\ open = TRUE

(* post(): the task is running, or already has its result, or post() failed. *)
Posted(p) ==
    /\ open /\ owner[p] = "none"
    /\ owner' = [owner EXCEPT ![p] = "held"]
    /\ \E s \in {"pending", "value"} : phase' = [phase EXCEPT ![p] = s]
    /\ UNCHANGED <<asked, open>>

PostFailed(p) ==
    /\ open /\ owner[p] = "none"
    /\ owner' = [owner EXCEPT ![p] = "closed"]
    /\ UNCHANGED <<phase, asked, open>>

Asked(p) ==
    /\ open /\ owner[p] = "held"
    /\ \E cl \in Level : asked' = [asked EXCEPT ![p] = MaxLevel(@, cl)]
    /\ UNCHANGED <<phase, owner, open>>

Resolved(p) ==
    /\ open /\ phase[p] = "pending"
    /\ \/ phase' = [phase EXCEPT ![p] = "value"]
       \/ asked[p] >= StopLevel /\ phase' = [phase EXCEPT ![p] = "aborted"]
    /\ UNCHANGED <<owner, asked, open>>

(* wait() and the destructor of the future return.                           *)
Returned(p) ==
    /\ open /\ owner[p] = "held" /\ phase[p] \in Outcome
    /\ owner' = [owner EXCEPT ![p] = "returned"]
    /\ UNCHANGED <<phase, asked, open>>

Closed(p) ==
    /\ open /\ owner[p] = "returned"
    /\ owner' = [owner EXCEPT ![p] = "closed"]
    /\ UNCHANGED <<phase, asked, open>>

(* detach(): the task goes on without a client.                              *)
Detached(p) ==
    /\ open /\ owner[p] = "held"
    /\ owner' = [owner EXCEPT ![p] = "closed"]
    /\ UNCHANGED <<phase, asked, open>>

(* The runner is destroyed: detached tasks are aborted.                      *)
Destroyed ==
    /\ open /\ \A p \in Promises : owner[p] \in {"none", "closed"}
    /\ open' = FALSE
    /\ phase' = [p \in Promises |-> IF phase[p] = "pending" THEN "aborted" ELSE phase[p]]
    /\ UNCHANGED <<owner, asked>>

FutureStep(p) ==
    \/ Posted(p) \/ PostFailed(p) \/ Asked(p) \/ Resolved(p)
    \/ Returned(p) \/ Closed(p) \/ Detached(p)
FutureNext == Destroyed \/ \E p \in Promises : FutureStep(p)
FutureSpec == FutureInit /\ [][FutureNext]_fvars
=============================================================================
