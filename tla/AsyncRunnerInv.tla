-------------------------- MODULE AsyncRunnerInv ---------------------------
(***************************************************************************)
(* The inductive invariant of AsyncRunner, which TLC checks and              *)
(* AsyncRunnerProofs proves.                                                 *)
(***************************************************************************)
EXTENDS AsyncRunner

Signalling == {"signal_cancel", "signal_wait"}

(* The mutex and the program counters agree on who is inside it.             *)
LockInv == \A p \in Promises : cpc[p] \in Critical <=> mutex = p

(* Who may be in the lists, and what the dispatch thread holds on to.  A     *)
(* promise whose client is still between submit() and the end of the         *)
(* submit_context cannot have been taken over.                               *)
ListInv ==
    /\ promises \cap newPromises = {}
    /\ \A p \in Listed : p \notin instant /\ cpc[p] \notin {"idle", "submitting"}
    /\ \A p \in Promises : cpc[p] \in {"addref", "unlock"} => p \in newPromises
    /\ \A p \in instant : cpc[p] \notin {"idle", "submitting"}
    /\ dpc \in {"cancel"} \cup InCancel \cup InFinish => todo \subseteq promises
    /\ dpc \in InCancel \cup {"mark_finished", "erase"} => cur \in promises
    /\ dpc \in {"mark_finished", "erase"} => cur \notin todo

(* A task lives exactly as long as its promise is listed, but for the moment *)
(* between its result and the erasure; finished means it has its result.     *)
TaskInv ==
    /\ \A p \in Promises : task[p] = "none" => cpc[p] \in {"idle", "submitting", "gone"}
    /\ \A p \in Promises : cpc[p] \in {"idle", "submitting"} => task[p] = "none"
    /\ \A p \in Promises : task[p] \in Live => p \in Listed
    /\ \A p \in Listed :
          task[p] \in Live \/ (dpc \in {"mark_finished", "erase"} /\ cur = p /\ task[p] \in Result)
    /\ dpc \in {"mark_finished", "erase"} => task[cur] \in Result
    /\ \A p \in Promises : finished[p] => task[p] \in Result
    /\ \A p \in Promises : cpc[p] = "got" => finished[p]
    /\ \A p \in Promises : task[p] = "cancelled" \/ p \in stubborn => req[p] >= StopLevel

(* The runner is destroyed after its clients and its thread are done.        *)
MainInv ==
    /\ mpc # "running" => \A p \in Promises : cpc[p] \in {"idle", "gone"}
    /\ mpc \in {"destroying", "destroyed"} => dpc = "exited"
    /\ mpc = "destroyed" => Listed = {}
    /\ stopped <=> mpc # "running"

(* Every reference is accounted for, and a promise is deleted exactly when   *)
(* the last one is gone.                                                     *)
RefInv ==
    \A p \in Promises :
        /\ refs[p] = Owners(p)
        /\ p \in freed <=> task[p] # "none" /\ refs[p] = 0

(* Where news may be while the event is not set: with the thread that is     *)
(* about to set it, or ahead of the dispatch thread in its current round.    *)
Ahead(p) ==
    \/ dpc \in {"splice", "check", "exited"} \cup InFinish
    \/ dpc \in {"cancel"} \cup InCancel /\ p \in todo
    \/ dpc \in InCancel /\ cur = p
WakeInv ==
    ~event =>
        /\ newPromises # {} => dpc \in {"splice", "exited"}
        /\ \A p \in promises : req[p] > applied[p] => cpc[p] \in Signalling \/ Ahead(p)
        /\ stopped => mpc = "signalling" \/ dpc \in {"splice", "check", "exited"}

(* With one level in use a request that was seen stays what it was: what is  *)
(* remembered as applied is what has been delivered.                         *)
DeliverInv ==
    /\ \A p \in Promises : req[p] \in {cl_none, cl_kill} /\ applied[p] \in {cl_none, cl_kill}
    /\ \A p \in Promises : task[p] = "none" => applied[p] = cl_none
    /\ \A p \in Promises :
          applied[p] = cl_kill => task[p] \notin {"waiting", "ready"} \/ p \in stubborn
    /\ dpc \in InCancel => req[cur] = cl_kill
    /\ dpc = "mark_applied" => task[cur] = "cancelled"

IInv == TypeOK /\ LockInv /\ ListInv /\ TaskInv /\ MainInv /\ RefInv
=============================================================================
