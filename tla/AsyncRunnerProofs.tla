------------------------- MODULE AsyncRunnerProofs -------------------------
(***************************************************************************)
(* Proofs about AsyncRunner, for every set of promises, every set of levels  *)
(* and whether or not the dispatch thread may leave by an exception.         *)
(*                                                                           *)
(* IInv (AsyncRunnerInv) is inductive.  Each conjunct has a lemma that says  *)
(* a step keeps it, with one case per action that touches its variables.     *)
(***************************************************************************)
EXTENDS AsyncRunnerInv, TLAPS

USE DEF vars, shared, lists, counts, levels, local

(* The maximum of two levels is one.                                        *)
LEMMA MaxLevelType ==
  ASSUME NEW a \in Level, NEW b \in Level
  PROVE  MaxLevel(a, b) \in Level /\ MaxLevel(a, b) >= a
BY DEF MaxLevel, Level, cl_none, cl_kill

(* The maximum is at least each of the two.                                 *)
LEMMA LevelOrder ==
  ASSUME NEW a \in Level, NEW b \in Level, NEW c \in Level, a >= b, b >= c
  PROVE  a >= c
BY DEF Level, cl_none, cl_kill

(* A level is at least itself.                                              *)
LEMMA LevelReflexive == \A a \in Level : a >= a
BY DEF Level, cl_none, cl_kill

(* The lowest and the highest level.                                        *)
LEMMA KillIsLevel == cl_kill \in Level /\ cl_none \in Level
BY DEF Level, cl_none, cl_kill

(* Whoever is about to release has a reference to give back.                 *)
LEMMA RefsPositive ==
  ASSUME TypeOK, RefInv
  PROVE  /\ \A p \in Listed : refs[p] >= 1
         /\ \A p \in Promises : cpc[p] \in Handle => refs[p] >= 1
BY DEF TypeOK, RefInv, Owners, Listed

(* The invariant is established.                                            *)
LEMMA InitIInv == Init => IInv /\ WakeInv
<1> SUFFICES ASSUME Init PROVE IInv /\ WakeInv
  OBVIOUS
<1> USE DEF Init, Listed, Handle, Critical
<1>1. TypeOK
  BY KillIsLevel DEF TypeOK, TaskState, ClientPC, DispatchPC, MainPC
<1>2. LockInv /\ ListInv /\ MainInv /\ WakeInv
  BY FreeAssumption DEF LockInv, ListInv, MainInv, WakeInv, InCancel, InFinish
<1>3. TaskInv
  BY DEF TaskInv, Live, Result
<1>4. RefInv
  BY DEF RefInv, Owners
<1> QED
  BY <1>1, <1>2, <1>3, <1>4 DEF IInv

(* Types: the only arithmetic is that a reference given back was there.      *)
LEMMA TypeStep ==
  ASSUME TypeOK, ListInv, RefInv, [Next]_vars
  PROVE  TypeOK'
<1> USE DEF TypeOK, Result, Live, TaskState, Critical, Handle, ClientPC, InCancel, InFinish,
           DispatchPC, MainPC
<1>1. ASSUME NEW p \in Promises, PostResult(p) PROVE TypeOK'
  BY <1>1, LevelAssumption, ContinuationAssumption DEF PostResult
<1>2. ASSUME NEW p \in Promises, PostThrows(p) PROVE TypeOK'
  BY <1>2, LevelAssumption, ContinuationAssumption DEF PostThrows
<1>3. ASSUME NEW p \in Promises, SubmitContext(p) PROVE TypeOK'
  BY <1>3, LevelAssumption, ContinuationAssumption DEF SubmitContext
<1>4. ASSUME NEW p \in Promises, Submit(p) PROVE TypeOK'
  BY <1>4, LevelAssumption, ContinuationAssumption DEF Submit
<1>5. ASSUME NEW p \in Promises, FutureAddref(p) PROVE TypeOK'
  BY <1>5, LevelAssumption, ContinuationAssumption DEF FutureAddref
<1>6. ASSUME NEW p \in Promises, SubmitUnlock(p) PROVE TypeOK'
  BY <1>6, LevelAssumption, ContinuationAssumption DEF SubmitUnlock
<1>7. ASSUME NEW p \in Promises, FutureCancel(p) PROVE TypeOK'
  <2> PICK cl \in Level : CancelRequest(p, cl, "signal_cancel")
    BY <1>7, LevelAssumption, KillIsLevel DEF FutureCancel
  <2> QED
    BY MaxLevelType DEF CancelRequest
<1>8. ASSUME NEW p \in Promises, FutureWaitCancel(p) PROVE TypeOK'
  <2> PICK cl \in Level : CancelRequest(p, cl, "signal_wait")
    BY <1>8, LevelAssumption, KillIsLevel DEF FutureWaitCancel
  <2> QED
    BY MaxLevelType DEF CancelRequest
<1>9. ASSUME NEW p \in Promises, CancelSignal(p) PROVE TypeOK'
  BY <1>9, LevelAssumption, ContinuationAssumption DEF CancelSignal
<1>10. ASSUME NEW p \in Promises, FutureWait(p) PROVE TypeOK'
  BY <1>10, LevelAssumption, ContinuationAssumption DEF FutureWait
<1>11. ASSUME NEW p \in Promises, SpuriousWakeup(p) PROVE TypeOK'
  BY <1>11, LevelAssumption, ContinuationAssumption DEF SpuriousWakeup
<1>12. ASSUME NEW p \in Promises, WaitFinished(p) PROVE TypeOK'
  BY <1>12, LevelAssumption, ContinuationAssumption DEF WaitFinished
<1>13. ASSUME NEW p \in Promises, FutureRelease(p) PROVE TypeOK'
  <2>1. refs[p] >= 1
    BY <1>13, RefsPositive DEF FutureRelease, Handle
  <2> QED
    BY <1>13, <2>1 DEF FutureRelease, Release
<1>14. ASSUME NEW p \in Promises, FutureDetach(p) PROVE TypeOK'
  <2>1. refs[p] >= 1
    BY <1>14, RefsPositive DEF FutureDetach, Handle
  <2> QED
    BY <1>14, <2>1 DEF FutureDetach, Release
<1>15. ASSUME NEW p \in Promises, ComparePending(p) PROVE TypeOK'
  BY <1>15, LevelAssumption, ContinuationAssumption DEF ComparePending
<1>16. ASSUME NEW p \in Promises, DoCancel(p) PROVE TypeOK'
  BY <1>16, LevelAssumption, ContinuationAssumption DEF DoCancel
<1>17. ASSUME NEW p \in Promises, MarkApplied(p) PROVE TypeOK'
  BY <1>17, LevelAssumption, ContinuationAssumption DEF MarkApplied
<1>18. ASSUME NEW p \in Promises, PollReady(p) PROVE TypeOK'
  BY <1>18, LevelAssumption, ContinuationAssumption DEF PollReady
<1>19. ASSUME NEW p \in Promises, FinishTask(p) PROVE TypeOK'
  BY <1>19, LevelAssumption, ContinuationAssumption DEF FinishTask, Outcomes
<1>20. ASSUME NEW p \in Promises, MarkFinished(p) PROVE TypeOK'
  BY <1>20, LevelAssumption, ContinuationAssumption DEF MarkFinished
<1>21. ASSUME NEW p \in Promises, Erase(p) PROVE TypeOK'
  <2>1. refs[p] >= 1
    BY <1>21, RefsPositive DEF Erase, ListInv, Listed
  <2> QED
    BY <1>21, <2>1 DEF Erase, Release
<1>22. ASSUME NEW p \in Promises, MakeReady(p) PROVE TypeOK'
  BY <1>22, LevelAssumption, ContinuationAssumption DEF MakeReady
<1>23. CASE CheckStopped
  BY <1>23, LevelAssumption, ContinuationAssumption DEF CheckStopped
<1>24. CASE Prepare
  BY <1>24, LevelAssumption, ContinuationAssumption DEF Prepare
<1>25. CASE RunThrows
  BY <1>25, LevelAssumption, ContinuationAssumption DEF RunThrows
<1>26. CASE ReadControlEvent
  BY <1>26, LevelAssumption, ContinuationAssumption DEF ReadControlEvent
<1>27. CASE Splice
  BY <1>27, LevelAssumption, ContinuationAssumption DEF Splice
<1>28. CASE FinishDone
  BY <1>28, LevelAssumption, ContinuationAssumption DEF FinishDone
<1>29. CASE Stop
  BY <1>29, LevelAssumption, ContinuationAssumption DEF Stop
<1>30. CASE StopSignal
  BY <1>30, LevelAssumption, ContinuationAssumption DEF StopSignal
<1>31. CASE Join
  BY <1>31, LevelAssumption, ContinuationAssumption DEF Join
<1>32. CASE DestroyLists
  <2>1. refs' \in [Promises -> Nat]
    BY <1>32, RefsPositive DEF DestroyLists
  <2> QED
    BY <1>32, <2>1 DEF DestroyLists, Listed
<1>33. CASE UNCHANGED <<vars>>
  BY <1>33
<1> QED
  BY <1>1, <1>2, <1>3, <1>4, <1>5, <1>6, <1>7, <1>8, <1>9, <1>10, <1>11,
     <1>12, <1>13, <1>14, <1>15, <1>16, <1>17, <1>18, <1>19, <1>20, <1>21,
     <1>22, <1>23, <1>24, <1>25, <1>26, <1>27, <1>28, <1>29, <1>30, <1>31,
     <1>32, <1>33 DEF Next, Client, Post, Proceed, Use, Dispatch, CancelStep,
     FinishStep, Destroy, Terminated

(* The mutex is held by the client whose program counter says so.            *)
LEMMA LockStep ==
  ASSUME TypeOK, LockInv, [Next]_vars
  PROVE  LockInv'
<1> USE DEF TypeOK, LockInv, Critical, Handle, ClientPC
<1>1. ASSUME NEW p \in Promises, PostResult(p) PROVE LockInv'
  BY <1>1, FreeAssumption DEF PostResult
<1>2. ASSUME NEW p \in Promises, PostThrows(p) PROVE LockInv'
  BY <1>2, FreeAssumption DEF PostThrows
<1>3. ASSUME NEW p \in Promises, SubmitContext(p) PROVE LockInv'
  BY <1>3, FreeAssumption DEF SubmitContext
<1>4. ASSUME NEW p \in Promises, Submit(p) PROVE LockInv'
  BY <1>4, FreeAssumption DEF Submit
<1>5. ASSUME NEW p \in Promises, FutureAddref(p) PROVE LockInv'
  BY <1>5, FreeAssumption DEF FutureAddref
<1>6. ASSUME NEW p \in Promises, SubmitUnlock(p) PROVE LockInv'
  BY <1>6, FreeAssumption DEF SubmitUnlock
<1>7. ASSUME NEW p \in Promises, FutureCancel(p) PROVE LockInv'
  BY <1>7, FreeAssumption DEF FutureCancel, CancelRequest
<1>8. ASSUME NEW p \in Promises, FutureWaitCancel(p) PROVE LockInv'
  BY <1>8, FreeAssumption DEF FutureWaitCancel, CancelRequest
<1>9. ASSUME NEW p \in Promises, CancelSignal(p) PROVE LockInv'
  BY <1>9, FreeAssumption DEF CancelSignal
<1>10. ASSUME NEW p \in Promises, FutureWait(p) PROVE LockInv'
  BY <1>10, FreeAssumption DEF FutureWait
<1>11. ASSUME NEW p \in Promises, SpuriousWakeup(p) PROVE LockInv'
  BY <1>11, FreeAssumption DEF SpuriousWakeup
<1>12. ASSUME NEW p \in Promises, WaitFinished(p) PROVE LockInv'
  BY <1>12, FreeAssumption DEF WaitFinished
<1>13. ASSUME NEW p \in Promises, FutureRelease(p) PROVE LockInv'
  BY <1>13, FreeAssumption DEF FutureRelease, Release
<1>14. ASSUME NEW p \in Promises, FutureDetach(p) PROVE LockInv'
  BY <1>14, FreeAssumption DEF FutureDetach, Release
<1>15. ASSUME NEW p \in Promises, MarkFinished(p) PROVE LockInv'
  BY <1>15, FreeAssumption DEF MarkFinished
<1>16. CASE UNCHANGED <<mutex, cpc>>
  BY <1>16
<1> QED
  BY <1>1, <1>2, <1>3, <1>4, <1>5, <1>6, <1>7, <1>8, <1>9, <1>10, <1>11,
     <1>12, <1>13, <1>14, <1>15, <1>16 DEF Next, Client, Post, Proceed, Use,
     Dispatch, CancelStep, FinishStep, Destroy, ComparePending, DoCancel,
     MarkApplied, PollReady, FinishTask, Erase, MakeReady, CheckStopped,
     Prepare, RunThrows, ReadControlEvent, Splice, FinishDone, Stop,
     StopSignal, Join, DestroyLists, Terminated, Release

(* The lists: only Submit adds to them and only Splice, which needs the      *)
(* mutex, takes from one to the other.                                       *)
LEMMA ListStep ==
  ASSUME TypeOK, LockInv, ListInv, TaskInv, MainInv, [Next]_vars
  PROVE  ListInv'
<1> USE DEF TypeOK, LockInv, ListInv, TaskInv, MainInv, Listed,
           Result, Live, TaskState, Critical, Handle, ClientPC, InCancel, InFinish,
           DispatchPC, MainPC
<1>1. ASSUME NEW p \in Promises, PostResult(p) PROVE ListInv'
  BY <1>1, FreeAssumption DEF PostResult
<1>2. ASSUME NEW p \in Promises, PostThrows(p) PROVE ListInv'
  BY <1>2, FreeAssumption DEF PostThrows
<1>3. ASSUME NEW p \in Promises, SubmitContext(p) PROVE ListInv'
  BY <1>3, FreeAssumption DEF SubmitContext
<1>4. ASSUME NEW p \in Promises, Submit(p) PROVE ListInv'
  BY <1>4, FreeAssumption DEF Submit
<1>5. ASSUME NEW p \in Promises, FutureAddref(p) PROVE ListInv'
  BY <1>5, FreeAssumption DEF FutureAddref
<1>6. ASSUME NEW p \in Promises, SubmitUnlock(p) PROVE ListInv'
  BY <1>6, FreeAssumption DEF SubmitUnlock
<1>7. ASSUME NEW p \in Promises, FutureCancel(p) PROVE ListInv'
  BY <1>7, FreeAssumption DEF FutureCancel, CancelRequest
<1>8. ASSUME NEW p \in Promises, FutureWaitCancel(p) PROVE ListInv'
  BY <1>8, FreeAssumption DEF FutureWaitCancel, CancelRequest
<1>9. ASSUME NEW p \in Promises, CancelSignal(p) PROVE ListInv'
  BY <1>9, FreeAssumption DEF CancelSignal
<1>10. ASSUME NEW p \in Promises, FutureWait(p) PROVE ListInv'
  BY <1>10, FreeAssumption DEF FutureWait
<1>11. ASSUME NEW p \in Promises, SpuriousWakeup(p) PROVE ListInv'
  BY <1>11, FreeAssumption DEF SpuriousWakeup
<1>12. ASSUME NEW p \in Promises, WaitFinished(p) PROVE ListInv'
  BY <1>12, FreeAssumption DEF WaitFinished
<1>13. ASSUME NEW p \in Promises, FutureRelease(p) PROVE ListInv'
  BY <1>13, FreeAssumption DEF FutureRelease, Release
<1>14. ASSUME NEW p \in Promises, FutureDetach(p) PROVE ListInv'
  BY <1>14, FreeAssumption DEF FutureDetach, Release
<1>15. ASSUME NEW p \in Promises, ComparePending(p) PROVE ListInv'
  BY <1>15, FreeAssumption DEF ComparePending
<1>16. ASSUME NEW p \in Promises, DoCancel(p) PROVE ListInv'
  BY <1>16, FreeAssumption DEF DoCancel
<1>17. ASSUME NEW p \in Promises, MarkApplied(p) PROVE ListInv'
  BY <1>17, FreeAssumption DEF MarkApplied
<1>18. ASSUME NEW p \in Promises, PollReady(p) PROVE ListInv'
  BY <1>18, FreeAssumption DEF PollReady
<1>19. ASSUME NEW p \in Promises, FinishTask(p) PROVE ListInv'
  BY <1>19, FreeAssumption DEF FinishTask, Outcomes
<1>20. ASSUME NEW p \in Promises, MarkFinished(p) PROVE ListInv'
  BY <1>20, FreeAssumption DEF MarkFinished
<1>21. ASSUME NEW p \in Promises, Erase(p) PROVE ListInv'
  BY <1>21, FreeAssumption DEF Erase, Release
<1>22. CASE CheckStopped
  BY <1>22, FreeAssumption DEF CheckStopped
<1>23. CASE Prepare
  BY <1>23, FreeAssumption DEF Prepare
<1>24. CASE RunThrows
  BY <1>24, FreeAssumption DEF RunThrows
<1>25. CASE ReadControlEvent
  BY <1>25, FreeAssumption DEF ReadControlEvent
<1>26. CASE Splice
  BY <1>26, FreeAssumption DEF Splice
<1>27. CASE FinishDone
  BY <1>27, FreeAssumption DEF FinishDone
<1>28. CASE DestroyLists
  BY <1>28, FreeAssumption DEF DestroyLists
<1>29. CASE UNCHANGED <<lists, cpc, task, local>>
  BY <1>29
<1> QED
  BY <1>1, <1>2, <1>3, <1>4, <1>5, <1>6, <1>7, <1>8, <1>9, <1>10, <1>11,
     <1>12, <1>13, <1>14, <1>15, <1>16, <1>17, <1>18, <1>19, <1>20, <1>21,
     <1>22, <1>23, <1>24, <1>25, <1>26, <1>27, <1>28, <1>29 DEF Next, Client,
     Post, Proceed, Use, Dispatch, CancelStep, FinishStep, Destroy, MakeReady,
     Stop, StopSignal, Join, Terminated

(* Tasks: a future is only told of a result that is there.                   *)
LEMMA TaskStep ==
  ASSUME TypeOK, LockInv, ListInv, TaskInv, MainInv, RefInv, [Next]_vars
  PROVE  TaskInv'
<1> USE DEF TypeOK, LockInv, ListInv, TaskInv, MainInv, Listed,
           Result, Live, TaskState, Critical, Handle, ClientPC, InCancel, InFinish,
           DispatchPC, MainPC
<1>1. ASSUME NEW p \in Promises, PostResult(p) PROVE TaskInv'
  BY <1>1, FreeAssumption, ContinuationAssumption DEF PostResult
<1>2. ASSUME NEW p \in Promises, PostThrows(p) PROVE TaskInv'
  BY <1>2, FreeAssumption, ContinuationAssumption DEF PostThrows
<1>3. ASSUME NEW p \in Promises, SubmitContext(p) PROVE TaskInv'
  BY <1>3, FreeAssumption, ContinuationAssumption DEF SubmitContext
<1>4. ASSUME NEW p \in Promises, Submit(p) PROVE TaskInv'
  BY <1>4, FreeAssumption, ContinuationAssumption DEF Submit
<1>5. ASSUME NEW p \in Promises, FutureAddref(p) PROVE TaskInv'
  BY <1>5, FreeAssumption, ContinuationAssumption DEF FutureAddref
<1>6. ASSUME NEW p \in Promises, SubmitUnlock(p) PROVE TaskInv'
  BY <1>6, FreeAssumption, ContinuationAssumption DEF SubmitUnlock
<1>7. ASSUME NEW p \in Promises, FutureCancel(p) PROVE TaskInv'
  <2> PICK cl \in Level : CancelRequest(p, cl, "signal_cancel")
    BY <1>7, LevelAssumption, KillIsLevel DEF FutureCancel
  <2>1. \A q \in Promises : req'[q] \in Level /\ req'[q] >= req[q]
    BY MaxLevelType, LevelReflexive DEF CancelRequest
  <2>2. \A q \in Promises : req[q] >= StopLevel => req'[q] >= StopLevel
    BY <2>1, LevelOrder, LevelAssumption
  <2> QED
    BY <2>2 DEF CancelRequest
<1>8. ASSUME NEW p \in Promises, FutureWaitCancel(p) PROVE TaskInv'
  <2> PICK cl \in Level : CancelRequest(p, cl, "signal_wait")
    BY <1>8, LevelAssumption, KillIsLevel DEF FutureWaitCancel
  <2>1. \A q \in Promises : req'[q] \in Level /\ req'[q] >= req[q]
    BY MaxLevelType, LevelReflexive DEF CancelRequest
  <2>2. \A q \in Promises : req[q] >= StopLevel => req'[q] >= StopLevel
    BY <2>1, LevelOrder, LevelAssumption
  <2> QED
    BY <2>2 DEF CancelRequest
<1>9. ASSUME NEW p \in Promises, CancelSignal(p) PROVE TaskInv'
  BY <1>9, FreeAssumption, ContinuationAssumption DEF CancelSignal
<1>10. ASSUME NEW p \in Promises, FutureWait(p) PROVE TaskInv'
  BY <1>10, FreeAssumption, ContinuationAssumption DEF FutureWait
<1>11. ASSUME NEW p \in Promises, SpuriousWakeup(p) PROVE TaskInv'
  BY <1>11, FreeAssumption, ContinuationAssumption DEF SpuriousWakeup
<1>12. ASSUME NEW p \in Promises, WaitFinished(p) PROVE TaskInv'
  BY <1>12, FreeAssumption, ContinuationAssumption DEF WaitFinished
<1>13. ASSUME NEW p \in Promises, FutureRelease(p) PROVE TaskInv'
  BY <1>13, FreeAssumption, ContinuationAssumption DEF FutureRelease, Release
<1>14. ASSUME NEW p \in Promises, FutureDetach(p) PROVE TaskInv'
  BY <1>14, FreeAssumption, ContinuationAssumption DEF FutureDetach, Release
<1>15. ASSUME NEW p \in Promises, ComparePending(p) PROVE TaskInv'
  BY <1>15, FreeAssumption, ContinuationAssumption DEF ComparePending
<1>16. ASSUME NEW p \in Promises, DoCancel(p) PROVE TaskInv'
  BY <1>16, FreeAssumption, ContinuationAssumption DEF DoCancel
<1>17. ASSUME NEW p \in Promises, MarkApplied(p) PROVE TaskInv'
  BY <1>17, FreeAssumption, ContinuationAssumption DEF MarkApplied
<1>18. ASSUME NEW p \in Promises, PollReady(p) PROVE TaskInv'
  BY <1>18, FreeAssumption, ContinuationAssumption DEF PollReady
<1>19. ASSUME NEW p \in Promises, FinishTask(p) PROVE TaskInv'
  BY <1>19, FreeAssumption, ContinuationAssumption DEF FinishTask, Outcomes
<1>20. ASSUME NEW p \in Promises, MarkFinished(p) PROVE TaskInv'
  BY <1>20, FreeAssumption, ContinuationAssumption DEF MarkFinished
<1>21. ASSUME NEW p \in Promises, Erase(p) PROVE TaskInv'
  BY <1>21, FreeAssumption, ContinuationAssumption DEF Erase, Release
<1>22. CASE CheckStopped
  BY <1>22, FreeAssumption, ContinuationAssumption DEF CheckStopped
<1>23. CASE Prepare
  BY <1>23, FreeAssumption, ContinuationAssumption DEF Prepare
<1>24. CASE RunThrows
  BY <1>24, FreeAssumption, ContinuationAssumption DEF RunThrows
<1>25. CASE ReadControlEvent
  BY <1>25, FreeAssumption, ContinuationAssumption DEF ReadControlEvent
<1>26. CASE Splice
  BY <1>26, FreeAssumption, ContinuationAssumption DEF Splice
<1>27. CASE FinishDone
  BY <1>27, FreeAssumption, ContinuationAssumption DEF FinishDone
<1>28. CASE DestroyLists
  <2>1. \A p \in Listed : task[p] \in Live /\ refs[p] = 1
    BY <1>28 DEF DestroyLists, RefInv, Owners
  <2> QED
    BY <1>28, <2>1 DEF DestroyLists
<1>29. CASE UNCHANGED <<promises, newPromises, cpc, task, finished, req, stubborn, local>>
  BY <1>29
<1> QED
  BY <1>1, <1>2, <1>3, <1>4, <1>5, <1>6, <1>7, <1>8, <1>9, <1>10, <1>11,
     <1>12, <1>13, <1>14, <1>15, <1>16, <1>17, <1>18, <1>19, <1>20, <1>21,
     <1>22, <1>23, <1>24, <1>25, <1>26, <1>27, <1>28, <1>29 DEF Next, Client,
     Post, Proceed, Use, Dispatch, CancelStep, FinishStep, Destroy, MakeReady,
     Stop, StopSignal, Join, Terminated

(* The end of the runner.                                                    *)
LEMMA MainStep ==
  ASSUME TypeOK, ListInv, MainInv, [Next]_vars
  PROVE  MainInv'
<1> USE DEF TypeOK, ListInv, MainInv, Listed,
           Result, Live, TaskState, Critical, Handle, ClientPC, InCancel, InFinish,
           DispatchPC, MainPC
<1>1. ASSUME NEW p \in Promises, PostResult(p) PROVE MainInv'
  BY <1>1 DEF PostResult
<1>2. ASSUME NEW p \in Promises, PostThrows(p) PROVE MainInv'
  BY <1>2 DEF PostThrows
<1>3. ASSUME NEW p \in Promises, SubmitContext(p) PROVE MainInv'
  BY <1>3 DEF SubmitContext
<1>4. ASSUME NEW p \in Promises, Submit(p) PROVE MainInv'
  BY <1>4 DEF Submit
<1>5. ASSUME NEW p \in Promises, FutureAddref(p) PROVE MainInv'
  BY <1>5 DEF FutureAddref
<1>6. ASSUME NEW p \in Promises, SubmitUnlock(p) PROVE MainInv'
  BY <1>6 DEF SubmitUnlock
<1>7. ASSUME NEW p \in Promises, FutureCancel(p) PROVE MainInv'
  BY <1>7 DEF FutureCancel, CancelRequest
<1>8. ASSUME NEW p \in Promises, FutureWaitCancel(p) PROVE MainInv'
  BY <1>8 DEF FutureWaitCancel, CancelRequest
<1>9. ASSUME NEW p \in Promises, CancelSignal(p) PROVE MainInv'
  BY <1>9 DEF CancelSignal
<1>10. ASSUME NEW p \in Promises, FutureWait(p) PROVE MainInv'
  BY <1>10 DEF FutureWait
<1>11. ASSUME NEW p \in Promises, SpuriousWakeup(p) PROVE MainInv'
  BY <1>11 DEF SpuriousWakeup
<1>12. ASSUME NEW p \in Promises, WaitFinished(p) PROVE MainInv'
  BY <1>12 DEF WaitFinished
<1>13. ASSUME NEW p \in Promises, FutureRelease(p) PROVE MainInv'
  BY <1>13 DEF FutureRelease, Release
<1>14. ASSUME NEW p \in Promises, FutureDetach(p) PROVE MainInv'
  BY <1>14 DEF FutureDetach, Release
<1>15. ASSUME NEW p \in Promises, ComparePending(p) PROVE MainInv'
  BY <1>15 DEF ComparePending
<1>16. ASSUME NEW p \in Promises, DoCancel(p) PROVE MainInv'
  BY <1>16 DEF DoCancel
<1>17. ASSUME NEW p \in Promises, MarkApplied(p) PROVE MainInv'
  BY <1>17 DEF MarkApplied
<1>18. ASSUME NEW p \in Promises, PollReady(p) PROVE MainInv'
  BY <1>18 DEF PollReady
<1>19. ASSUME NEW p \in Promises, FinishTask(p) PROVE MainInv'
  BY <1>19 DEF FinishTask
<1>20. ASSUME NEW p \in Promises, MarkFinished(p) PROVE MainInv'
  BY <1>20 DEF MarkFinished
<1>21. ASSUME NEW p \in Promises, Erase(p) PROVE MainInv'
  BY <1>21 DEF Erase, Release
<1>22. CASE CheckStopped
  BY <1>22 DEF CheckStopped
<1>23. CASE Prepare
  BY <1>23 DEF Prepare
<1>24. CASE RunThrows
  BY <1>24 DEF RunThrows
<1>25. CASE ReadControlEvent
  BY <1>25 DEF ReadControlEvent
<1>26. CASE Splice
  BY <1>26 DEF Splice
<1>27. CASE FinishDone
  BY <1>27 DEF FinishDone
<1>28. CASE Stop
  BY <1>28 DEF Stop
<1>29. CASE StopSignal
  BY <1>29 DEF StopSignal
<1>30. CASE Join
  BY <1>30 DEF Join
<1>31. CASE DestroyLists
  BY <1>31 DEF DestroyLists
<1>32. CASE UNCHANGED <<promises, newPromises, cpc, dpc, mpc, stopped>>
  BY <1>32
<1> QED
  BY <1>1, <1>2, <1>3, <1>4, <1>5, <1>6, <1>7, <1>8, <1>9, <1>10, <1>11,
     <1>12, <1>13, <1>14, <1>15, <1>16, <1>17, <1>18, <1>19, <1>20, <1>21,
     <1>22, <1>23, <1>24, <1>25, <1>26, <1>27, <1>28, <1>29, <1>30, <1>31,
     <1>32 DEF Next, Client, Post, Proceed, Use, Dispatch, CancelStep,
     FinishStep, Destroy, MakeReady, Terminated

(* References: each step that makes, moves or drops an owner counts it.      *)
LEMMA RefStep ==
  ASSUME IInv, [Next]_vars
  PROVE  RefInv'
<1> USE DEF IInv, TypeOK, LockInv, ListInv, TaskInv, MainInv, RefInv, Owners, Listed,
           Result, Live, TaskState, Critical, Handle, ClientPC, InCancel, InFinish,
           DispatchPC, MainPC
<1>1. ASSUME NEW p \in Promises, PostResult(p) PROVE RefInv'
  BY <1>1, FreeAssumption, ContinuationAssumption DEF PostResult
<1>2. ASSUME NEW p \in Promises, PostThrows(p) PROVE RefInv'
  BY <1>2, FreeAssumption, ContinuationAssumption DEF PostThrows
<1>3. ASSUME NEW p \in Promises, SubmitContext(p) PROVE RefInv'
  BY <1>3, FreeAssumption, ContinuationAssumption DEF SubmitContext
<1>4. ASSUME NEW p \in Promises, Submit(p) PROVE RefInv'
  BY <1>4, FreeAssumption, ContinuationAssumption DEF Submit
<1>5. ASSUME NEW p \in Promises, FutureAddref(p) PROVE RefInv'
  BY <1>5, FreeAssumption, ContinuationAssumption DEF FutureAddref
<1>6. ASSUME NEW p \in Promises, SubmitUnlock(p) PROVE RefInv'
  BY <1>6, FreeAssumption, ContinuationAssumption DEF SubmitUnlock
<1>7. ASSUME NEW p \in Promises, FutureCancel(p) PROVE RefInv'
  BY <1>7, FreeAssumption, ContinuationAssumption DEF FutureCancel, CancelRequest
<1>8. ASSUME NEW p \in Promises, FutureWaitCancel(p) PROVE RefInv'
  BY <1>8, FreeAssumption, ContinuationAssumption DEF FutureWaitCancel, CancelRequest
<1>9. ASSUME NEW p \in Promises, CancelSignal(p) PROVE RefInv'
  BY <1>9, FreeAssumption, ContinuationAssumption DEF CancelSignal
<1>10. ASSUME NEW p \in Promises, FutureWait(p) PROVE RefInv'
  BY <1>10, FreeAssumption, ContinuationAssumption DEF FutureWait
<1>11. ASSUME NEW p \in Promises, SpuriousWakeup(p) PROVE RefInv'
  BY <1>11, FreeAssumption, ContinuationAssumption DEF SpuriousWakeup
<1>12. ASSUME NEW p \in Promises, WaitFinished(p) PROVE RefInv'
  BY <1>12, FreeAssumption, ContinuationAssumption DEF WaitFinished
<1>13. ASSUME NEW p \in Promises, FutureRelease(p) PROVE RefInv'
  BY <1>13, FreeAssumption, ContinuationAssumption DEF FutureRelease, Release
<1>14. ASSUME NEW p \in Promises, FutureDetach(p) PROVE RefInv'
  BY <1>14, FreeAssumption, ContinuationAssumption DEF FutureDetach, Release
<1>15. ASSUME NEW p \in Promises, DoCancel(p) PROVE RefInv'
  BY <1>15, FreeAssumption, ContinuationAssumption DEF DoCancel
<1>16. ASSUME NEW p \in Promises, FinishTask(p) PROVE RefInv'
  BY <1>16, FreeAssumption, ContinuationAssumption DEF FinishTask, Outcomes
<1>17. ASSUME NEW p \in Promises, MarkFinished(p) PROVE RefInv'
  BY <1>17, FreeAssumption, ContinuationAssumption DEF MarkFinished
<1>18. ASSUME NEW p \in Promises, Erase(p) PROVE RefInv'
  BY <1>18, FreeAssumption, ContinuationAssumption DEF Erase, Release
<1>19. CASE Splice
  BY <1>19, FreeAssumption, ContinuationAssumption DEF Splice
<1>20. CASE DestroyLists
  BY <1>20, FreeAssumption, ContinuationAssumption DEF DestroyLists
<1>21. CASE UNCHANGED <<refs, freed, lists, cpc, task>>
  BY <1>21
<1> QED
  BY <1>1, <1>2, <1>3, <1>4, <1>5, <1>6, <1>7, <1>8, <1>9, <1>10, <1>11,
     <1>12, <1>13, <1>14, <1>15, <1>16, <1>17, <1>18, <1>19, <1>20, <1>21 DEF
     Next, Client, Post, Proceed, Use, Dispatch, CancelStep, FinishStep,
     Destroy, ComparePending, MarkApplied, PollReady, MakeReady, CheckStopped,
     Prepare, RunThrows, ReadControlEvent, FinishDone, Stop, StopSignal, Join,
     Terminated

(* News: the event stays set until the dispatch thread is on its way to see  *)
(* what was announced.                                                       *)
LEMMA WakeStep ==
  ASSUME IInv, WakeInv, [Next]_vars
  PROVE  WakeInv'
<1> USE DEF IInv, TypeOK, ListInv, LockInv, MainInv, WakeInv, Ahead, Signalling, Listed,
           Result, Live, TaskState, Critical, Handle, ClientPC, InCancel, InFinish,
           DispatchPC, MainPC
<1>1. ASSUME NEW p \in Promises, PostResult(p) PROVE WakeInv'
  BY <1>1 DEF PostResult
<1>2. ASSUME NEW p \in Promises, PostThrows(p) PROVE WakeInv'
  BY <1>2 DEF PostThrows
<1>3. ASSUME NEW p \in Promises, SubmitContext(p) PROVE WakeInv'
  BY <1>3 DEF SubmitContext
<1>4. ASSUME NEW p \in Promises, Submit(p) PROVE WakeInv'
  BY <1>4 DEF Submit
<1>5. ASSUME NEW p \in Promises, FutureAddref(p) PROVE WakeInv'
  BY <1>5 DEF FutureAddref
<1>6. ASSUME NEW p \in Promises, SubmitUnlock(p) PROVE WakeInv'
  BY <1>6 DEF SubmitUnlock
<1>7. ASSUME NEW p \in Promises, FutureCancel(p) PROVE WakeInv'
  BY <1>7 DEF FutureCancel, CancelRequest
<1>8. ASSUME NEW p \in Promises, FutureWaitCancel(p) PROVE WakeInv'
  BY <1>8 DEF FutureWaitCancel, CancelRequest
<1>9. ASSUME NEW p \in Promises, CancelSignal(p) PROVE WakeInv'
  BY <1>9 DEF CancelSignal
<1>10. ASSUME NEW p \in Promises, FutureWait(p) PROVE WakeInv'
  BY <1>10 DEF FutureWait
<1>11. ASSUME NEW p \in Promises, SpuriousWakeup(p) PROVE WakeInv'
  BY <1>11 DEF SpuriousWakeup
<1>12. ASSUME NEW p \in Promises, WaitFinished(p) PROVE WakeInv'
  BY <1>12 DEF WaitFinished
<1>13. ASSUME NEW p \in Promises, FutureRelease(p) PROVE WakeInv'
  BY <1>13 DEF FutureRelease, Release
<1>14. ASSUME NEW p \in Promises, FutureDetach(p) PROVE WakeInv'
  BY <1>14 DEF FutureDetach, Release
<1>15. ASSUME NEW p \in Promises, ComparePending(p) PROVE WakeInv'
  BY <1>15 DEF ComparePending
<1>16. ASSUME NEW p \in Promises, DoCancel(p) PROVE WakeInv'
  BY <1>16 DEF DoCancel
<1>17. ASSUME NEW p \in Promises, MarkApplied(p) PROVE WakeInv'
  BY <1>17 DEF MarkApplied, Level
<1>18. ASSUME NEW p \in Promises, PollReady(p) PROVE WakeInv'
  BY <1>18 DEF PollReady
<1>19. ASSUME NEW p \in Promises, FinishTask(p) PROVE WakeInv'
  BY <1>19 DEF FinishTask
<1>20. ASSUME NEW p \in Promises, MarkFinished(p) PROVE WakeInv'
  BY <1>20 DEF MarkFinished
<1>21. ASSUME NEW p \in Promises, Erase(p) PROVE WakeInv'
  BY <1>21 DEF Erase, Release
<1>22. CASE CheckStopped
  BY <1>22 DEF CheckStopped
<1>23. CASE Prepare
  BY <1>23 DEF Prepare
<1>24. CASE RunThrows
  BY <1>24 DEF RunThrows
<1>25. CASE ReadControlEvent
  BY <1>25 DEF ReadControlEvent
<1>26. CASE Splice
  BY <1>26 DEF Splice
<1>27. CASE FinishDone
  BY <1>27 DEF FinishDone
<1>28. CASE Stop
  BY <1>28 DEF Stop
<1>29. CASE StopSignal
  BY <1>29 DEF StopSignal
<1>30. CASE Join
  BY <1>30 DEF Join
<1>31. CASE DestroyLists
  BY <1>31 DEF DestroyLists
<1>32. CASE UNCHANGED <<event, stopped, promises, newPromises, levels, cpc, local, mpc>>
  BY <1>32
<1> QED
  BY <1>1, <1>2, <1>3, <1>4, <1>5, <1>6, <1>7, <1>8, <1>9, <1>10, <1>11,
     <1>12, <1>13, <1>14, <1>15, <1>16, <1>17, <1>18, <1>19, <1>20, <1>21,
     <1>22, <1>23, <1>24, <1>25, <1>26, <1>27, <1>28, <1>29, <1>30, <1>31,
     <1>32 DEF Next, Client, Post, Proceed, Use, Dispatch, CancelStep,
     FinishStep, Destroy, MakeReady, Terminated

(* Every step keeps the invariant.                                          *)
LEMMA IInvStep ==
  ASSUME IInv, [Next]_vars
  PROVE  IInv'
BY TypeStep, LockStep, ListStep, TaskStep, MainStep, RefStep DEF IInv

(* The invariant always holds.                                              *)
LEMMA Invariance == Spec => [](IInv /\ WakeInv)
<1>1. Init => IInv /\ WakeInv
  BY InitIInv
<1>2. IInv /\ WakeInv /\ [Next]_vars => (IInv /\ WakeInv)'
  BY IInvStep, WakeStep
<1> QED
  BY <1>1, <1>2, PTL DEF Spec

(* Every variable keeps its type; in particular m_refcount never underflows. *)
THEOREM TypeCorrect == Spec => []TypeOK
<1>1. IInv => TypeOK
  BY DEF IInv
<1> QED
  BY <1>1, Invariance, PTL

(* No client and no step of the dispatch thread uses a deleted promise.      *)
THEOREM Memory == Spec => []NoUseAfterFree
<1>1. IInv => NoUseAfterFree
  <2> SUFFICES ASSUME IInv, NEW p \in freed
               PROVE  /\ p \notin Listed
                      /\ cpc[p] \notin Handle \cup {"submitting", "addref"}
                      /\ dpc \in InCancel \cup {"mark_finished", "erase"} => cur # p
    BY DEF NoUseAfterFree
  <2>1. p \in Promises /\ refs[p] = 0 /\ task[p] # "none"
    BY DEF IInv, TypeOK, RefInv
  <2>2. p \notin Listed /\ cpc[p] \notin Handle
    BY <2>1, RefsPositive DEF IInv, Listed
  <2>3. cpc[p] \notin {"submitting", "addref"}
    BY <2>1, <2>2 DEF IInv, TaskInv, ListInv, Listed
  <2> QED
    BY <2>2, <2>3 DEF IInv, ListInv, Listed
<1> QED
  BY <1>1, Invariance, PTL

(* A runner that is gone has left no promise of its lists undeleted.         *)
THEOREM NoLeak == Spec => []EveryPromiseReleased
<1>1. IInv => EveryPromiseReleased
  BY DEF IInv, EveryPromiseReleased, MainInv, RefInv, Owners, Handle
<1> QED
  BY <1>1, Invariance, PTL

(* The dispatch thread never sleeps over a submission, a cancel or a stop.   *)
THEOREM Wakeup == Spec => []NoLostWakeup
<1>1. IInv /\ WakeInv => NoLostWakeup
  BY DEF WakeInv, NoLostWakeup, Ahead, Signalling, InCancel, InFinish
<1> QED
  BY <1>1, Invariance, PTL

-----------------------------------------------------------------------------
(* The refinement: every step of AsyncRunner is a step of AsyncFuture or     *)
(* leaves what a holder of a future can see unchanged.                       *)
LEMMA SameLevels ==
  /\ Future!cl_none = cl_none /\ Future!Level = Level
  /\ \A a, b \in Level : Future!MaxLevel(a, b) = MaxLevel(a, b)
BY DEF Level, MaxLevel, cl_none, cl_kill,
       Future!Level, Future!MaxLevel, Future!cl_none, Future!cl_kill

(* A result is what the future sees of it.                                  *)
LEMMA ResultPhase ==
  ASSUME TypeOK, NEW p \in Promises, NEW r \in Result, task' = [task EXCEPT ![p] = r]
  PROVE  [q \in Promises |-> PhaseOf(task'[q])]
           = [[q \in Promises |-> PhaseOf(task[q])] EXCEPT ![p] = r]
<1>1. task \in [Promises -> TaskState]
  BY DEF TypeOK
<1>2. PhaseOf(r) = r
  BY DEF PhaseOf, Result, Live
<1> QED
  BY <1>1, <1>2

(* A step of the runner is one of the future, or none.                      *)
LEMMA StepSimulates ==
  ASSUME IInv, [Next]_vars
  PROVE  [Future!FutureNext]_(Future!fvars)
<1> USE DEF IInv
<1>a. /\ \A p \in Promises : cpc[p] \notin {"idle", "gone"} => mpc # "destroyed"
      /\ dpc # "exited" => mpc # "destroyed"
  BY DEF MainInv
<1>1. ASSUME NEW p \in Promises, PostResult(p) PROVE [Future!FutureNext]_(Future!fvars)
  <2>1. Future!Posted(p)
    BY <1>a, <1>1
    DEF PostResult, Future!Posted, PhaseOf, OwnerOf, TypeOK, Live, TaskInv
  <2> QED
    BY <2>1 DEF Future!FutureNext, Future!FutureStep
<1>2. ASSUME NEW p \in Promises, PostThrows(p) PROVE [Future!FutureNext]_(Future!fvars)
  <2>1. Future!PostFailed(p)
    BY <1>a, <1>2
    DEF PostThrows, Future!PostFailed, PhaseOf, OwnerOf, TypeOK
  <2> QED
    BY <2>1 DEF Future!FutureNext, Future!FutureStep
<1>3. ASSUME NEW p \in Promises, SubmitContext(p) PROVE [Future!FutureNext]_(Future!fvars)
  BY <1>3 DEF SubmitContext, Future!fvars, OwnerOf, TypeOK
<1>4. ASSUME NEW p \in Promises, Submit(p) PROVE [Future!FutureNext]_(Future!fvars)
  <2>1. OwnerOf(cpc[p]) = "none"
    BY <1>4 DEF Submit, OwnerOf
  <2>2. [q \in Promises |-> OwnerOf(cpc'[q])]
          = [[q \in Promises |-> OwnerOf(cpc[q])] EXCEPT ![p] = "held"]
    BY <1>4 DEF Submit, OwnerOf, TypeOK
  <2>3. [q \in Promises |-> PhaseOf(task'[q])]
          = [[q \in Promises |-> PhaseOf(task[q])] EXCEPT ![p] = "pending"]
    BY <1>4 DEF Submit, PhaseOf, TypeOK, Live
  <2>4. mpc # "destroyed" /\ UNCHANGED <<req, mpc>>
    BY <1>a, <1>4 DEF Submit
  <2>5. Future!Posted(p)
    BY <2>1, <2>2, <2>3, <2>4 DEF Future!Posted
  <2> QED
    BY <2>5 DEF Future!FutureNext, Future!FutureStep
<1>5. ASSUME NEW p \in Promises, FutureAddref(p) PROVE [Future!FutureNext]_(Future!fvars)
  BY <1>5 DEF FutureAddref, Future!fvars, OwnerOf, TypeOK
<1>6. ASSUME NEW p \in Promises, SubmitUnlock(p) PROVE [Future!FutureNext]_(Future!fvars)
  BY <1>6 DEF SubmitUnlock, Future!fvars, OwnerOf, TypeOK
<1>7. ASSUME NEW p \in Promises, FutureCancel(p) PROVE [Future!FutureNext]_(Future!fvars)
  <2> PICK cl \in Level : CancelRequest(p, cl, "signal_cancel")
    BY <1>7, LevelAssumption, KillIsLevel DEF FutureCancel
  <2>1. Future!Asked(p)
    BY <1>a, SameLevels DEF CancelRequest, Future!Asked, TypeOK, OwnerOf
  <2> QED
    BY <2>1 DEF Future!FutureNext, Future!FutureStep
<1>8. ASSUME NEW p \in Promises, FutureWaitCancel(p) PROVE [Future!FutureNext]_(Future!fvars)
  <2> PICK cl \in Level : CancelRequest(p, cl, "signal_wait")
    BY <1>8, LevelAssumption, KillIsLevel DEF FutureWaitCancel
  <2>1. Future!Asked(p)
    BY <1>a, SameLevels DEF CancelRequest, Future!Asked, TypeOK, OwnerOf
  <2> QED
    BY <2>1 DEF Future!FutureNext, Future!FutureStep
<1>9. ASSUME NEW p \in Promises, CancelSignal(p) PROVE [Future!FutureNext]_(Future!fvars)
  BY <1>9 DEF CancelSignal, Future!fvars, OwnerOf, TypeOK
<1>10. ASSUME NEW p \in Promises, FutureWait(p) PROVE [Future!FutureNext]_(Future!fvars)
  BY <1>10 DEF FutureWait, Future!fvars, OwnerOf, TypeOK
<1>11. ASSUME NEW p \in Promises, SpuriousWakeup(p) PROVE [Future!FutureNext]_(Future!fvars)
  BY <1>11 DEF SpuriousWakeup, Future!fvars, OwnerOf, TypeOK
<1>12. ASSUME NEW p \in Promises, WaitFinished(p) PROVE [Future!FutureNext]_(Future!fvars)
  <2>1. CASE finished[p]
    <3>1. OwnerOf(cpc[p]) = "held" /\ PhaseOf(task[p]) \in {"value", "aborted"}
      BY <1>12, <2>1 DEF WaitFinished, OwnerOf, PhaseOf, TypeOK, TaskInv, Result, Live
    <3>2. [q \in Promises |-> OwnerOf(cpc'[q])]
            = [[q \in Promises |-> OwnerOf(cpc[q])] EXCEPT ![p] = "returned"]
      BY <1>12, <2>1 DEF WaitFinished, OwnerOf, TypeOK
    <3>3. mpc # "destroyed" /\ UNCHANGED <<task, req, mpc>>
      BY <1>a, <1>12 DEF WaitFinished
    <3>4. Future!Returned(p)
      BY <3>1, <3>2, <3>3 DEF Future!Returned, Future!Outcome
    <3> QED
      BY <3>4 DEF Future!FutureNext, Future!FutureStep
  <2>2. CASE ~finished[p]
    <3>1. \A q \in Promises : OwnerOf(cpc'[q]) = OwnerOf(cpc[q])
      BY <1>12, <2>2 DEF WaitFinished, OwnerOf, TypeOK
    <3> QED
      BY <1>12, <3>1 DEF WaitFinished, Future!fvars
  <2> QED
    BY <2>1, <2>2
<1>13. ASSUME NEW p \in Promises, FutureRelease(p) PROVE [Future!FutureNext]_(Future!fvars)
  <2>1. Future!Closed(p)
    BY <1>a, <1>13
    DEF FutureRelease, Release, Future!Closed, PhaseOf, OwnerOf, TypeOK
  <2> QED
    BY <2>1 DEF Future!FutureNext, Future!FutureStep
<1>14. ASSUME NEW p \in Promises, FutureDetach(p) PROVE [Future!FutureNext]_(Future!fvars)
  <2>1. Future!Detached(p)
    BY <1>a, <1>14
    DEF FutureDetach, Release, Future!Detached, PhaseOf, OwnerOf, TypeOK
  <2> QED
    BY <2>1 DEF Future!FutureNext, Future!FutureStep
<1>15. ASSUME NEW p \in Promises, ComparePending(p) PROVE [Future!FutureNext]_(Future!fvars)
  BY <1>15 DEF ComparePending, Future!fvars
<1>16. ASSUME NEW p \in Promises, DoCancel(p) PROVE [Future!FutureNext]_(Future!fvars)
  BY <1>16 DEF DoCancel, Future!fvars, PhaseOf, Live, TaskInv, ListInv, InCancel, InFinish, Listed, TypeOK
<1>17. ASSUME NEW p \in Promises, MarkApplied(p) PROVE [Future!FutureNext]_(Future!fvars)
  BY <1>17 DEF MarkApplied, Future!fvars
<1>18. ASSUME NEW p \in Promises, PollReady(p) PROVE [Future!FutureNext]_(Future!fvars)
  BY <1>18 DEF PollReady, Future!fvars
<1>19. ASSUME NEW p \in Promises, FinishTask(p) PROVE [Future!FutureNext]_(Future!fvars)
  <2>1. mpc # "destroyed" /\ PhaseOf(task[p]) = "pending" /\ task[p] \in Live
    BY <1>a, <1>19 DEF FinishTask, ListInv, TaskInv, PhaseOf, Listed, InFinish
  <2>2. CASE \E r \in Outcomes(p) : task' = [task EXCEPT ![p] = r]
    <3>1. PICK r \in Result : /\ task' = [task EXCEPT ![p] = r]
                              /\ task[p] # "cancelled" /\ p \notin stubborn => r = "value"
      BY <2>2 DEF Outcomes, Result
    <3>2. task[p] = "cancelled" \/ p \in stubborn => req[p] >= StopLevel
      BY DEF TaskInv
    <3>3. [q \in Promises |-> PhaseOf(task'[q])]
            = [[q \in Promises |-> PhaseOf(task[q])] EXCEPT ![p] = r]
      BY <3>1, ResultPhase
    <3>4. UNCHANGED <<[q \in Promises |-> OwnerOf(cpc[q])], req, mpc # "destroyed">>
      BY <1>19 DEF FinishTask
    <3>5. Future!Resolved(p)
      BY <2>1, <3>1, <3>2, <3>3, <3>4 DEF Future!Resolved, Result
    <3> QED
      BY <3>5 DEF Future!FutureNext, Future!FutureStep
  <2>3. CASE \E s \in Continuations : task' = [task EXCEPT ![p] = s]
    <3>1. \A q \in Promises : PhaseOf(task'[q]) = PhaseOf(task[q])
      BY <2>1, <2>3, ContinuationAssumption DEF PhaseOf, Live, TypeOK
    <3> QED
      BY <1>19, <3>1 DEF FinishTask, Future!fvars
  <2> QED
    BY <1>19, <2>2, <2>3 DEF FinishTask
<1>20. ASSUME NEW p \in Promises, MarkFinished(p) PROVE [Future!FutureNext]_(Future!fvars)
  BY <1>20 DEF MarkFinished, Future!fvars, OwnerOf, TypeOK
<1>21. ASSUME NEW p \in Promises, Erase(p) PROVE [Future!FutureNext]_(Future!fvars)
  BY <1>21 DEF Erase, Release, Future!fvars
<1>22. ASSUME NEW p \in Promises, MakeReady(p) PROVE [Future!FutureNext]_(Future!fvars)
  BY <1>22 DEF MakeReady, Future!fvars
<1>23. CASE CheckStopped
  BY <1>23 DEF CheckStopped, Future!fvars
<1>24. CASE Prepare
  BY <1>24 DEF Prepare, Future!fvars
<1>25. CASE RunThrows
  BY <1>25 DEF RunThrows, Future!fvars
<1>26. CASE ReadControlEvent
  BY <1>26 DEF ReadControlEvent, Future!fvars
<1>27. CASE Splice
  BY <1>27 DEF Splice, Future!fvars
<1>28. CASE FinishDone
  BY <1>28 DEF FinishDone, Future!fvars
<1>29. CASE Stop
  BY <1>29 DEF Stop, Future!fvars
<1>30. CASE StopSignal
  BY <1>30 DEF StopSignal, Future!fvars
<1>31. CASE Join
  BY <1>31 DEF Join, Future!fvars
<1>32. CASE DestroyLists
  <2>1. \A p \in Promises : task[p] \in Live => p \in Listed /\ refs[p] = 1
    BY <1>32 DEF DestroyLists, RefInv, Owners, TaskInv, MainInv, ListInv, Handle
  <2>2. \A p \in Promises : task'[p] = IF task[p] \in Live THEN "aborted" ELSE task[p]
    BY <1>32, <2>1 DEF DestroyLists
  <2>3. \A p \in Promises : cpc[p] \in {"idle", "gone"}
    BY <1>32 DEF DestroyLists, MainInv
  <2>4. Future!Destroyed
    BY <1>32, <2>2, <2>3 DEF DestroyLists, Future!Destroyed, PhaseOf, OwnerOf, Live, TaskState, Result, TypeOK
  <2> QED
    BY <2>4 DEF Future!FutureNext
<1>33. CASE Terminated
  BY <1>33 DEF Terminated, Future!fvars
<1>34. CASE UNCHANGED vars
  BY <1>34 DEF Future!fvars
<1> QED
  BY <1>1, <1>2, <1>3, <1>4, <1>5, <1>6, <1>7, <1>8, <1>9, <1>10, <1>11,
     <1>12, <1>13, <1>14, <1>15, <1>16, <1>17, <1>18, <1>19, <1>20, <1>21,
     <1>22, <1>23, <1>24, <1>25, <1>26, <1>27, <1>28, <1>29, <1>30, <1>31,
     <1>32, <1>33, <1>34 DEF Next, Client, Post, Proceed, Use, Dispatch,
     CancelStep, FinishStep, Destroy

(* The runner implements AsyncFuture: a wait returns only with a result, a    *)
(* task is aborted only on request, and nothing stays pending at the end.     *)
THEOREM Refinement == Spec => ImplementsFuture
<1>1. Init => Future!FutureInit
  BY SameLevels DEF Init, PhaseOf, OwnerOf, Live, Future!FutureInit
<1>2. IInv /\ [Next]_vars => [Future!FutureNext]_(Future!fvars)
  BY StepSimulates
<1> QED
  BY <1>1, <1>2, Invariance, PTL DEF Spec, ImplementsFuture, Future!FutureSpec

-----------------------------------------------------------------------------
(* When clients only ever kill, no step loses a cancel on its way to a task.  *)
LEMMA DeliverStep ==
  ASSUME CancelLevels \subseteq {cl_kill}, IInv, DeliverInv, [Next]_vars
  PROVE  DeliverInv'
<1> USE DEF IInv, TypeOK, ListInv, TaskInv, DeliverInv, Listed, Live, Result, InCancel, InFinish
<1>1. ASSUME NEW p \in Promises, Submit(p) PROVE DeliverInv'
  BY <1>1 DEF Submit, cl_none, cl_kill
<1>2. ASSUME NEW p \in Promises, PostResult(p) PROVE DeliverInv'
  BY <1>2 DEF PostResult
<1>3. ASSUME NEW p \in Promises, FutureCancel(p) PROVE DeliverInv'
  BY <1>3 DEF FutureCancel, CancelRequest, MaxLevel, cl_none, cl_kill
<1>4. ASSUME NEW p \in Promises, FutureWaitCancel(p) PROVE DeliverInv'
  BY <1>4 DEF FutureWaitCancel, CancelRequest, MaxLevel, cl_none, cl_kill
<1>5. ASSUME NEW p \in Promises, ComparePending(p) PROVE DeliverInv'
  BY <1>5 DEF ComparePending, cl_none, cl_kill
<1>6. ASSUME NEW p \in Promises, DoCancel(p) PROVE DeliverInv'
  BY <1>6, LevelAssumption DEF DoCancel, Level, cl_none, cl_kill
<1>7. ASSUME NEW p \in Promises, MarkApplied(p) PROVE DeliverInv'
  BY <1>7 DEF MarkApplied
<1>8. ASSUME NEW p \in Promises, FinishTask(p) PROVE DeliverInv'
  BY <1>8, ContinuationAssumption DEF FinishTask, Outcomes
<1>9. ASSUME NEW p \in Promises, MarkFinished(p) PROVE DeliverInv'
  BY <1>9 DEF MarkFinished
<1>10. ASSUME NEW p \in Promises, Erase(p) PROVE DeliverInv'
  BY <1>10 DEF Erase, Release
<1>11. ASSUME NEW p \in Promises, PollReady(p) PROVE DeliverInv'
  BY <1>11 DEF PollReady
<1>12. CASE CheckStopped
  BY <1>12 DEF CheckStopped
<1>13. CASE Prepare
  BY <1>13 DEF Prepare
<1>14. CASE RunThrows
  BY <1>14 DEF RunThrows
<1>15. CASE ReadControlEvent
  BY <1>15 DEF ReadControlEvent
<1>16. CASE Splice
  BY <1>16 DEF Splice
<1>17. CASE FinishDone
  BY <1>17 DEF FinishDone
<1>18. CASE DestroyLists
  BY <1>18 DEF DestroyLists, MainInv
<1>19. CASE UNCHANGED <<levels, task, local>>
  BY <1>19
<1> QED
  BY <1>1, <1>2, <1>3, <1>4, <1>5, <1>6, <1>7, <1>8, <1>9, <1>10, <1>11,
     <1>12, <1>13, <1>14, <1>15, <1>16, <1>17, <1>18, <1>19 DEF Next, Client,
     Post, Proceed, Use, Dispatch, CancelStep, FinishStep, Destroy,
     PostThrows, SubmitContext, FutureAddref, SubmitUnlock, CancelSignal,
     FutureWait, SpuriousWakeup, WaitFinished, FutureRelease, FutureDetach,
     MakeReady, Stop, StopSignal, Join, Terminated, Release

(* A kill that is remembered as applied has reached the task.                *)
THEOREM Delivery ==
  ASSUME CancelLevels \subseteq {cl_kill}
  PROVE  Spec => []AppliedIsDelivered
<1>1. Init => DeliverInv
  BY DEF Init, DeliverInv, InCancel
<1>2. IInv /\ DeliverInv /\ [Next]_vars => DeliverInv'
  BY DeliverStep
<1>3. IInv /\ DeliverInv => AppliedIsDelivered
  BY LevelAssumption DEF DeliverInv, AppliedIsDelivered, Level, cl_none, cl_kill, IInv, TypeOK
<1> QED
  BY <1>1, <1>2, <1>3, Invariance, PTL DEF Spec
=============================================================================
