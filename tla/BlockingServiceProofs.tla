----------------------- MODULE BlockingServiceProofs -----------------------
(***************************************************************************)
(* Proofs about the blocking service, for any set of tasks, any capacity   *)
(* and any number of stop and shutdown calls.                              *)
(***************************************************************************)
EXTENDS BlockingServiceInvariant, FiniteSetTheorems, TLAPS

\* The groups in which the actions list the variables they leave unchanged.
USE DEF lifeVars, countVars, noteVars, trackVars, entryVars, slotVars, tokioVars,
        callerVars, stopVars

-----------------------------------------------------------------------------
(* Type correctness.                                                       *)

\* Dropping owners of a slot cell keeps the slot variables in their domains.
LEMMA ReleaseSlotType ==
    ASSUME NEW t \in Tasks, NEW owners, SlotTypeOK, ReleaseSlot(t, owners)
    PROVE  SlotTypeOK'
<1>1. slot_refs' \in [Tasks -> SUBSET {"closure", "hook"}]
  <2>1. slot_refs[t] \ owners \in SUBSET {"closure", "hook"}
        BY DEF SlotTypeOK
  <2> QED BY <2>1 DEF SlotTypeOK, ReleaseSlot
<1>2. /\ cell' \in [Tasks -> {"none", "full", "taken"}]
      /\ status' \in [Tasks -> {"none", "pending", "running", "completed", "cancelled",
                                "dropped"}]
      BY DEF SlotTypeOK, ReleaseSlot
<1> QED BY <1>1, <1>2 DEF SlotTypeOK

\* The initial state is well typed.
LEMMA TypeInit == Init => TypeOK
<1> SUFFICES ASSUME Init PROVE TypeOK
    OBVIOUS
<1>1. ServiceTypeOK BY DEF Init, ServiceTypeOK, Running
<1>2. TrackTypeOK   BY DEF Init, TrackTypeOK
<1>3. SlotTypeOK    BY DEF Init, SlotTypeOK
<1>4. TokioTypeOK   BY DEF Init, TokioTypeOK
<1>5. CallerTypeOK  BY DEF Init, CallerTypeOK
<1>6. StopTypeOK    BY DEF Init, StopTypeOK
<1> QED BY <1>1, <1>2, <1>3, <1>4, <1>5, <1>6 DEF TypeOK

\* Every step of every thread keeps each variable in its domain.
LEMMA TypeNext == TypeOK /\ [Next]_vars => TypeOK'
<1> SUFFICES ASSUME TypeOK, [Next]_vars PROVE TypeOK'
    OBVIOUS
<1> USE DEF TypeOK
<1>1. ASSUME NEW t \in Tasks, SubmitRejected(t) PROVE TypeOK'
    BY <1>1 DEF SubmitRejected,
           ServiceTypeOK, TrackTypeOK, SlotTypeOK, TokioTypeOK,
           CallerTypeOK, StopTypeOK
<1>2. ASSUME NEW t \in Tasks, SubmitAccepted(t) PROVE TypeOK'
    BY <1>2 DEF SubmitAccepted,
           ServiceTypeOK, TrackTypeOK, SlotTypeOK, TokioTypeOK,
           CallerTypeOK, StopTypeOK
<1>3. ASSUME NEW t \in Tasks, SubmitSpawn(t) PROVE TypeOK'
  <2>1. SlotTypeOK'
        BY <1>3 DEF SubmitSpawn, SlotTypeOK
  <2>2. /\ ServiceTypeOK' /\ TrackTypeOK' /\ TokioTypeOK'
        /\ CallerTypeOK' /\ StopTypeOK'
        BY <1>3 DEF SubmitSpawn,
           ServiceTypeOK, TrackTypeOK, TokioTypeOK,
           CallerTypeOK, StopTypeOK
  <2> QED BY <2>1, <2>2
<1>4. ASSUME NEW t \in Tasks, SubmitRegister(t) PROVE TypeOK'
  <2>1. ServiceTypeOK'
        BY <1>4 DEF SubmitRegister, ServiceTypeOK
  <2>2. TrackTypeOK'
        BY <1>4 DEF SubmitRegister, TrackTypeOK
  <2>3. SlotTypeOK'
        BY <1>4, ReleaseSlotType DEF SubmitRegister, SlotTypeOK
  <2>4. TokioTypeOK'
        BY <1>4 DEF SubmitRegister, TokioTypeOK
  <2>5. CallerTypeOK'
        BY <1>4 DEF SubmitRegister, CallerTypeOK
  <2>6. StopTypeOK'
        BY <1>4 DEF SubmitRegister, StopTypeOK
  <2> QED BY <2>1, <2>2, <2>3, <2>4, <2>5, <2>6
<1>5. ASSUME NEW t \in Tasks, SubmitDeliver(t) PROVE TypeOK'
  <2>1. ServiceTypeOK'
        BY <1>5 DEF SubmitDeliver, ServiceTypeOK
  <2>2. TrackTypeOK'
        BY <1>5 DEF SubmitDeliver, TrackTypeOK
  <2>3. SlotTypeOK'
        BY <1>5, ReleaseSlotType DEF SubmitDeliver, SlotTypeOK
  <2>4. TokioTypeOK'
        BY <1>5 DEF SubmitDeliver, TokioTypeOK
  <2>5. CallerTypeOK'
        BY <1>5 DEF SubmitDeliver, CallerTypeOK
  <2>6. StopTypeOK'
        BY <1>5 DEF SubmitDeliver, StopTypeOK
  <2> QED BY <2>1, <2>2, <2>3, <2>4, <2>5, <2>6
<1>6. ASSUME NEW t \in Tasks, SubmitReturn(t) PROVE TypeOK'
    BY <1>6 DEF SubmitReturn,
           ServiceTypeOK, TrackTypeOK, SlotTypeOK, TokioTypeOK,
           CallerTypeOK, StopTypeOK
<1>7. ASSUME NEW t \in Tasks, WorkerPick(t) PROVE TypeOK'
    BY <1>7 DEF WorkerPick,
           ServiceTypeOK, TrackTypeOK, SlotTypeOK, TokioTypeOK,
           CallerTypeOK, StopTypeOK
<1>8. ASSUME NEW t \in Tasks, WorkerDiscard(t) PROVE TypeOK'
  <2>1. ServiceTypeOK'
        BY <1>8 DEF WorkerDiscard, ServiceTypeOK
  <2>2. TrackTypeOK'
        BY <1>8 DEF WorkerDiscard, TrackTypeOK
  <2>3. SlotTypeOK'
        BY <1>8, ReleaseSlotType DEF WorkerDiscard, SlotTypeOK
  <2>4. TokioTypeOK'
        BY <1>8 DEF WorkerDiscard, TokioTypeOK
  <2>5. CallerTypeOK'
        BY <1>8 DEF WorkerDiscard, CallerTypeOK
  <2>6. StopTypeOK'
        BY <1>8 DEF WorkerDiscard, StopTypeOK
  <2> QED BY <2>1, <2>2, <2>3, <2>4, <2>5, <2>6
<1>9. ASSUME NEW t \in Tasks, WorkerReceive(t) PROVE TypeOK'
    BY <1>9 DEF WorkerReceive,
           ServiceTypeOK, TrackTypeOK, SlotTypeOK, TokioTypeOK,
           CallerTypeOK, StopTypeOK
<1>10. ASSUME NEW t \in Tasks, WorkerMarkStarted(t) PROVE TypeOK'
  <2>1. ServiceTypeOK'
        BY <1>10 DEF WorkerMarkStarted, ServiceTypeOK
  <2>2. TrackTypeOK'
        BY <1>10 DEF WorkerMarkStarted, TrackTypeOK
  <2>3. SlotTypeOK'
        BY <1>10 DEF WorkerMarkStarted, SlotTypeOK
  <2>4. TokioTypeOK'
        BY <1>10 DEF WorkerMarkStarted, TokioTypeOK
  <2>5. CallerTypeOK'
        BY <1>10 DEF WorkerMarkStarted, CallerTypeOK
  <2>6. StopTypeOK'
        BY <1>10 DEF WorkerMarkStarted, StopTypeOK
  <2> QED BY <2>1, <2>2, <2>3, <2>4, <2>5, <2>6
<1>11. ASSUME NEW t \in Tasks, WorkerCount(t) PROVE TypeOK'
    BY <1>11 DEF WorkerCount, saturating_dec,
           ServiceTypeOK, TrackTypeOK, SlotTypeOK, TokioTypeOK,
           CallerTypeOK, StopTypeOK
<1>12. ASSUME NEW t \in Tasks, WorkerCall(t) PROVE TypeOK'
  <2>1. SlotTypeOK'
        BY <1>12 DEF WorkerCall, SlotTypeOK
  <2>2. /\ ServiceTypeOK' /\ TrackTypeOK' /\ TokioTypeOK'
        /\ CallerTypeOK' /\ StopTypeOK'
        BY <1>12 DEF WorkerCall,
           ServiceTypeOK, TrackTypeOK, TokioTypeOK,
           CallerTypeOK, StopTypeOK
  <2> QED BY <2>1, <2>2
<1>13. ASSUME NEW t \in Tasks, WorkerReturn(t) PROVE TypeOK'
  <2>1. SlotTypeOK'
        BY <1>13 DEF WorkerReturn, SlotTypeOK
  <2>2. /\ ServiceTypeOK' /\ TrackTypeOK' /\ TokioTypeOK'
        /\ CallerTypeOK' /\ StopTypeOK'
        BY <1>13 DEF WorkerReturn,
           ServiceTypeOK, TrackTypeOK, TokioTypeOK,
           CallerTypeOK, StopTypeOK
  <2> QED BY <2>1, <2>2
<1>14. ASSUME NEW t \in Tasks, WorkerFinish(t) PROVE TypeOK'
  <2>1. SlotTypeOK'
        BY <1>14, ReleaseSlotType DEF WorkerFinish, SlotTypeOK
  <2>2. /\ ServiceTypeOK' /\ TrackTypeOK' /\ TokioTypeOK'
        /\ CallerTypeOK' /\ StopTypeOK'
        BY <1>14 DEF WorkerFinish,
           ServiceTypeOK, TrackTypeOK, TokioTypeOK,
           CallerTypeOK, StopTypeOK
  <2> QED BY <2>1, <2>2
<1>15. ASSUME NEW t \in Tasks, GuardRemove(t) PROVE TypeOK'
  <2>1. SlotTypeOK'
        BY <1>15, ReleaseSlotType DEF GuardRemove, remove_abort_handle, SlotTypeOK
  <2>2. /\ ServiceTypeOK' /\ TrackTypeOK' /\ TokioTypeOK'
        /\ CallerTypeOK' /\ StopTypeOK'
        BY <1>15 DEF GuardRemove, remove_abort_handle,
           ServiceTypeOK, TrackTypeOK, TokioTypeOK,
           CallerTypeOK, StopTypeOK
  <2> QED BY <2>1, <2>2
<1>16. ASSUME NEW t \in Tasks, GuardFinish(t) PROVE TypeOK'
  <2>1. ServiceTypeOK'
        BY <1>16 DEF GuardFinish, ServiceTypeOK
  <2>2. TrackTypeOK'
        BY <1>16 DEF GuardFinish, TrackTypeOK
  <2>3. SlotTypeOK'
        BY <1>16 DEF GuardFinish, SlotTypeOK
  <2>4. TokioTypeOK'
        BY <1>16 DEF GuardFinish, TokioTypeOK
  <2>5. CallerTypeOK'
        BY <1>16 DEF GuardFinish, CallerTypeOK
  <2>6. StopTypeOK'
        BY <1>16 DEF GuardFinish, StopTypeOK
  <2> QED BY <2>1, <2>2, <2>3, <2>4, <2>5, <2>6
<1>17. ASSUME NEW t \in Tasks, ReleaseCount(t) PROVE TypeOK'
    BY <1>17 DEF ReleaseCount, saturating_dec,
           ServiceTypeOK, TrackTypeOK, SlotTypeOK, TokioTypeOK,
           CallerTypeOK, StopTypeOK
<1>18. ASSUME NEW t \in Tasks, ReleaseNotifyCapacity(t) PROVE TypeOK'
    BY <1>18 DEF ReleaseNotifyCapacity,
           ServiceTypeOK, TrackTypeOK, SlotTypeOK, TokioTypeOK,
           CallerTypeOK, StopTypeOK
<1>19. ASSUME NEW t \in Tasks, ReleaseNotifyWaiters(t) PROVE TypeOK'
    BY <1>19 DEF ReleaseNotifyWaiters,
           ServiceTypeOK, TrackTypeOK, SlotTypeOK, TokioTypeOK,
           CallerTypeOK, StopTypeOK
<1>20. ASSUME NEW t \in Tasks, Cancel(t) PROVE TypeOK'
  <2>1. SlotTypeOK'
        BY <1>20 DEF Cancel, SlotTypeOK
  <2>2. /\ ServiceTypeOK' /\ TrackTypeOK' /\ TokioTypeOK'
        /\ CallerTypeOK' /\ StopTypeOK'
        BY <1>20 DEF Cancel,
           ServiceTypeOK, TrackTypeOK, TokioTypeOK,
           CallerTypeOK, StopTypeOK
  <2> QED BY <2>1, <2>2
<1>21. ASSUME NEW t \in Tasks, CancelRemove(t) PROVE TypeOK'
  <2>1. SlotTypeOK'
        BY <1>21, ReleaseSlotType DEF CancelRemove, remove_abort_handle, SlotTypeOK
  <2>2. /\ ServiceTypeOK' /\ TrackTypeOK' /\ TokioTypeOK'
        /\ CallerTypeOK' /\ StopTypeOK'
        BY <1>21 DEF CancelRemove, remove_abort_handle,
           ServiceTypeOK, TrackTypeOK, TokioTypeOK,
           CallerTypeOK, StopTypeOK
  <2> QED BY <2>1, <2>2
<1>22. ASSUME NEW t \in Tasks, CancelFinish(t) PROVE TypeOK'
  <2>1. ServiceTypeOK'
        BY <1>22 DEF CancelFinish, finish_queued, ServiceTypeOK
  <2>2. TrackTypeOK'
        BY <1>22 DEF CancelFinish, finish_queued, TrackTypeOK
  <2>3. SlotTypeOK'
        BY <1>22 DEF CancelFinish, finish_queued, SlotTypeOK
  <2>4. TokioTypeOK'
        BY <1>22 DEF CancelFinish, finish_queued, TokioTypeOK
  <2>5. CallerTypeOK'
        BY <1>22 DEF CancelFinish, finish_queued, CallerTypeOK
  <2>6. StopTypeOK'
        BY <1>22 DEF CancelFinish, finish_queued, StopTypeOK
  <2> QED BY <2>1, <2>2, <2>3, <2>4, <2>5, <2>6
<1>23. ASSUME NEW t \in Tasks, CancelAbort(t) PROVE TypeOK'
    BY <1>23 DEF CancelAbort, abort,
           ServiceTypeOK, TrackTypeOK, SlotTypeOK, TokioTypeOK,
           CallerTypeOK, StopTypeOK
<1>24. ASSUME NEW c \in Closers, Shutdown(c) PROVE TypeOK'
    BY <1>24 DEF Shutdown, shutdown_bits, from_u8, Running, ShuttingDown, Stopping,
        Terminated, ServiceTypeOK, TrackTypeOK, SlotTypeOK, TokioTypeOK, CallerTypeOK,
        StopTypeOK
<1>25. ASSUME NEW c \in Closers, StopStore(c) PROVE TypeOK'
    BY <1>25 DEF StopStore, stop_bits, from_u8, Running, ShuttingDown, Stopping, Terminated,
           ServiceTypeOK, TrackTypeOK, SlotTypeOK, TokioTypeOK,
           CallerTypeOK, StopTypeOK
<1>26. ASSUME NEW c \in Closers, CloseNotifyCapacity(c) PROVE TypeOK'
    BY <1>26 DEF CloseNotifyCapacity,
           ServiceTypeOK, TrackTypeOK, SlotTypeOK, TokioTypeOK,
           CallerTypeOK, StopTypeOK
<1>27. ASSUME NEW c \in Closers, CloseCheck(c) PROVE TypeOK'
    BY <1>27 DEF CloseCheck,
           ServiceTypeOK, TrackTypeOK, SlotTypeOK, TokioTypeOK,
           CallerTypeOK, StopTypeOK
<1>28. ASSUME NEW c \in Closers, CloseNotifyWaiters(c) PROVE TypeOK'
    BY <1>28 DEF CloseNotifyWaiters,
           ServiceTypeOK, TrackTypeOK, SlotTypeOK, TokioTypeOK,
           CallerTypeOK, StopTypeOK
<1>29. ASSUME NEW s \in Stoppers, StopSnapshot(s) PROVE TypeOK'
    BY <1>29 DEF StopSnapshot,
           ServiceTypeOK, TrackTypeOK, SlotTypeOK, TokioTypeOK,
           CallerTypeOK, StopTypeOK
<1>30. ASSUME NEW s \in Stoppers, StopTake(s) PROVE TypeOK'
    BY <1>30 DEF StopTake,
           ServiceTypeOK, TrackTypeOK, SlotTypeOK, TokioTypeOK,
           CallerTypeOK, StopTypeOK
<1>31. ASSUME NEW s \in Stoppers, NEW t \in Tasks, StopAbort(s, t) PROVE TypeOK'
  <2>1. ServiceTypeOK'
        BY <1>31 DEF StopAbort, abort, ServiceTypeOK
  <2>2. TrackTypeOK'
        BY <1>31 DEF StopAbort, abort, TrackTypeOK
  <2>3. SlotTypeOK'
        BY <1>31, ReleaseSlotType DEF StopAbort, SlotTypeOK
  <2>4. TokioTypeOK'
        BY <1>31 DEF StopAbort, abort, TokioTypeOK
  <2>5. CallerTypeOK'
        BY <1>31 DEF StopAbort, abort, CallerTypeOK
  <2>6. StopTypeOK'
        BY <1>31 DEF StopAbort, abort, StopTypeOK
  <2> QED BY <2>1, <2>2, <2>3, <2>4, <2>5, <2>6
<1>32. ASSUME NEW s \in Stoppers, NEW t \in Tasks, StopHook(s, t) PROVE TypeOK'
  <2>1. ServiceTypeOK'
        BY <1>32 DEF StopHook, finish_queued, ServiceTypeOK
  <2>2. TrackTypeOK'
        BY <1>32 DEF StopHook, finish_queued, TrackTypeOK
  <2>3. SlotTypeOK'
        BY <1>32, ReleaseSlotType DEF StopHook, SlotTypeOK
  <2>4. TokioTypeOK'
        BY <1>32 DEF StopHook, finish_queued, TokioTypeOK
  <2>5. CallerTypeOK'
        BY <1>32 DEF StopHook, finish_queued, CallerTypeOK
  <2>6. StopTypeOK'
        BY <1>32 DEF StopHook, finish_queued, StopTypeOK
  <2> QED BY <2>1, <2>2, <2>3, <2>4, <2>5, <2>6
<1>33. ASSUME NEW s \in Stoppers, NEW t \in Tasks, StopCancelled(s, t) PROVE TypeOK'
  <2>1. SlotTypeOK'
        BY <1>33 DEF StopCancelled, cancel_unstarted, SlotTypeOK
  <2>2. /\ ServiceTypeOK' /\ TrackTypeOK' /\ TokioTypeOK'
        /\ CallerTypeOK' /\ StopTypeOK'
        BY <1>33 DEF StopCancelled, cancel_unstarted,
           ServiceTypeOK, TrackTypeOK, TokioTypeOK,
           CallerTypeOK, StopTypeOK
  <2> QED BY <2>1, <2>2
<1>34. ASSUME CloseRuntime PROVE TypeOK'
    BY <1>34 DEF CloseRuntime,
           ServiceTypeOK, TrackTypeOK, SlotTypeOK, TokioTypeOK,
           CallerTypeOK, StopTypeOK
<1>35. ASSUME UNCHANGED vars PROVE TypeOK'
    BY <1>35 DEF vars,
           ServiceTypeOK, TrackTypeOK, SlotTypeOK, TokioTypeOK,
           CallerTypeOK, StopTypeOK
<1> QED
    BY <1>1, <1>2, <1>3, <1>4, <1>5, <1>6, <1>7, <1>8, <1>9, <1>10, <1>11, <1>12,
       <1>13, <1>14, <1>15, <1>16, <1>17, <1>18, <1>19, <1>20, <1>21, <1>22, <1>23, <1>24,
       <1>25, <1>26, <1>27, <1>28, <1>29, <1>30, <1>31, <1>32, <1>33, <1>34, <1>35
    DEF Next, Proceed, Submit, Submitter, Worker, Guard, Release, Canceller, Close, Closer, Sweep

\* The type invariant holds in every reachable state, for every value of the constants.
THEOREM TypeCorrect == Spec => []TypeOK
BY TypeInit, TypeNext, PTL DEF Spec

-----------------------------------------------------------------------------
(* The shape of a task.                                                    *)

\* A task that nobody has submitted has the initial shape.
LEMMA ShapeInit == ASSUME Init, NEW u \in Tasks PROVE TaskShape(u)
BY DEF Init, TaskShape, AcceptanceShape, TrackerShape, EntryShape, OutcomeShape,
       Outside, Registered

\* A step of any thread keeps the shape of every task: the four parts are preserved
\* together, because each guards the transitions that the others rely on.
LEMMA ShapeNext ==
    ASSUME TypeOK, NEW u \in Tasks, TaskShape(u), [Next]_vars
    PROVE  TaskShape(u)'
<1> USE DEF TypeOK, TaskShape
<1>1. ASSUME NEW t \in Tasks, SubmitRejected(t) PROVE TaskShape(u)'
    BY <1>1 DEF SubmitRejected, CallerTypeOK, AcceptanceShape, TrackerShape,
           EntryShape, OutcomeShape, Outside, Registered
<1>2. ASSUME NEW t \in Tasks, SubmitAccepted(t) PROVE TaskShape(u)'
    BY <1>2 DEF SubmitAccepted, TrackTypeOK, CallerTypeOK, AcceptanceShape,
           TrackerShape, EntryShape, OutcomeShape, Outside, Registered
<1>3. ASSUME NEW t \in Tasks, SubmitSpawn(t) PROVE TaskShape(u)'
    BY <1>3 DEF SubmitSpawn, SlotTypeOK, TokioTypeOK, CallerTypeOK,
           AcceptanceShape, TrackerShape, EntryShape, OutcomeShape, Outside,
           Registered
<1>4. ASSUME NEW t \in Tasks, SubmitRegister(t) PROVE TaskShape(u)'
    BY <1>4 DEF SubmitRegister, ReleaseSlot, TrackTypeOK, SlotTypeOK,
           CallerTypeOK, AcceptanceShape, TrackerShape, EntryShape, OutcomeShape,
           Outside, Registered
<1>5. ASSUME NEW t \in Tasks, SubmitDeliver(t) PROVE TaskShape(u)'
    BY <1>5 DEF SubmitDeliver, ReleaseSlot, TrackTypeOK, SlotTypeOK, TokioTypeOK,
           CallerTypeOK, AcceptanceShape, TrackerShape, EntryShape, OutcomeShape,
           Outside, Registered
<1>6. ASSUME NEW t \in Tasks, SubmitReturn(t) PROVE TaskShape(u)'
    BY <1>6 DEF SubmitReturn, AcceptanceShape, TrackerShape, EntryShape,
           OutcomeShape, Outside, Registered
<1>7. ASSUME NEW t \in Tasks, WorkerPick(t) PROVE TaskShape(u)'
    BY <1>7 DEF WorkerPick, AcceptanceShape, TrackerShape, EntryShape,
           OutcomeShape
<1>8. ASSUME NEW t \in Tasks, WorkerDiscard(t) PROVE TaskShape(u)'
    BY <1>8 DEF WorkerDiscard, ReleaseSlot, TrackTypeOK, SlotTypeOK, TokioTypeOK,
           AcceptanceShape, TrackerShape, EntryShape, OutcomeShape
<1>9. ASSUME NEW t \in Tasks, WorkerReceive(t) PROVE TaskShape(u)'
    BY <1>9 DEF WorkerReceive, AcceptanceShape, TrackerShape, EntryShape,
           OutcomeShape
<1>10. ASSUME NEW t \in Tasks, WorkerMarkStarted(t) PROVE TaskShape(u)'
    BY <1>10 DEF WorkerMarkStarted, TrackTypeOK, TokioTypeOK, AcceptanceShape,
           TrackerShape, EntryShape, OutcomeShape
<1>11. ASSUME NEW t \in Tasks, WorkerCount(t) PROVE TaskShape(u)'
    BY <1>11 DEF WorkerCount, AcceptanceShape, TrackerShape, EntryShape,
           OutcomeShape
<1>12. ASSUME NEW t \in Tasks, WorkerCall(t) PROVE TaskShape(u)'
    BY <1>12 DEF WorkerCall, TrackTypeOK, SlotTypeOK, TokioTypeOK,
           AcceptanceShape, TrackerShape, EntryShape, OutcomeShape
<1>13. ASSUME NEW t \in Tasks, WorkerReturn(t) PROVE TaskShape(u)'
    BY <1>13 DEF WorkerReturn, TokioTypeOK, AcceptanceShape, TrackerShape,
           EntryShape, OutcomeShape
<1>14. ASSUME NEW t \in Tasks, WorkerFinish(t) PROVE TaskShape(u)'
    BY <1>14 DEF WorkerFinish, ReleaseSlot, SlotTypeOK, AcceptanceShape,
           TrackerShape, EntryShape, OutcomeShape
<1>15. ASSUME NEW t \in Tasks, GuardRemove(t) PROVE TaskShape(u)'
    BY <1>15 DEF GuardRemove, ReleaseSlot, remove_abort_handle, AcceptanceShape,
           TrackerShape, EntryShape, OutcomeShape
<1>16. ASSUME NEW t \in Tasks, GuardFinish(t) PROVE TaskShape(u)'
    BY <1>16 DEF GuardFinish, TrackTypeOK, AcceptanceShape, TrackerShape,
           EntryShape, OutcomeShape
<1>17. ASSUME NEW t \in Tasks, ReleaseCount(t) PROVE TaskShape(u)'
    BY <1>17 DEF ReleaseCount, AcceptanceShape, TrackerShape, EntryShape,
           OutcomeShape
<1>18. ASSUME NEW t \in Tasks, ReleaseNotifyCapacity(t) PROVE TaskShape(u)'
    BY <1>18 DEF ReleaseNotifyCapacity, AcceptanceShape, TrackerShape,
           EntryShape, OutcomeShape
<1>19. ASSUME NEW t \in Tasks, ReleaseNotifyWaiters(t) PROVE TaskShape(u)'
    BY <1>19 DEF ReleaseNotifyWaiters, AcceptanceShape, TrackerShape, EntryShape,
           OutcomeShape
<1>20. ASSUME NEW t \in Tasks, Cancel(t) PROVE TaskShape(u)'
    BY <1>20 DEF Cancel, AcceptanceShape, TrackerShape, EntryShape, OutcomeShape
<1>21. ASSUME NEW t \in Tasks, CancelRemove(t) PROVE TaskShape(u)'
    BY <1>21 DEF CancelRemove, ReleaseSlot, remove_abort_handle, AcceptanceShape,
           TrackerShape, EntryShape, OutcomeShape
<1>22. ASSUME NEW t \in Tasks, CancelFinish(t) PROVE TaskShape(u)'
    BY <1>22 DEF CancelFinish, finish_queued, TrackTypeOK, CallerTypeOK,
           AcceptanceShape, TrackerShape, EntryShape, OutcomeShape, Registered
<1>23. ASSUME NEW t \in Tasks, CancelAbort(t) PROVE TaskShape(u)'
    BY <1>23 DEF CancelAbort, AcceptanceShape, TrackerShape, EntryShape,
           OutcomeShape
<1>24. ASSUME NEW c \in Closers, Shutdown(c) PROVE TaskShape(u)'
    BY <1>24 DEF Shutdown, AcceptanceShape, TrackerShape, EntryShape,
           OutcomeShape
<1>25. ASSUME NEW c \in Closers, StopStore(c) PROVE TaskShape(u)'
    BY <1>25 DEF StopStore, AcceptanceShape, TrackerShape, EntryShape,
           OutcomeShape
<1>26. ASSUME NEW c \in Closers, CloseNotifyCapacity(c) PROVE TaskShape(u)'
    BY <1>26 DEF CloseNotifyCapacity, AcceptanceShape, TrackerShape, EntryShape,
           OutcomeShape
<1>27. ASSUME NEW c \in Closers, CloseCheck(c) PROVE TaskShape(u)'
    BY <1>27 DEF CloseCheck, AcceptanceShape, TrackerShape, EntryShape,
           OutcomeShape
<1>28. ASSUME NEW c \in Closers, CloseNotifyWaiters(c) PROVE TaskShape(u)'
    BY <1>28 DEF CloseNotifyWaiters, AcceptanceShape, TrackerShape, EntryShape,
           OutcomeShape
<1>29. ASSUME NEW s \in Stoppers, StopSnapshot(s) PROVE TaskShape(u)'
    BY <1>29 DEF StopSnapshot, AcceptanceShape, TrackerShape, EntryShape,
           OutcomeShape
<1>30. ASSUME NEW s \in Stoppers, StopTake(s) PROVE TaskShape(u)'
    BY <1>30 DEF StopTake, AcceptanceShape, TrackerShape, EntryShape,
           OutcomeShape
<1>31. ASSUME NEW s \in Stoppers, NEW t \in Tasks, StopAbort(s, t) PROVE TaskShape(u)'
  <2>1. AcceptanceShape(u)'
        BY <1>31 DEF StopAbort, AcceptanceShape
  <2>2. TrackerShape(u)'
        BY <1>31 DEF StopAbort, TrackerShape
  <2>3. EntryShape(u)'
        BY <1>31 DEF StopAbort, StopTypeOK, EntryShape
  <2>4. OutcomeShape(u)'
        BY <1>31 DEF StopAbort, ReleaseSlot, SlotTypeOK, StopTypeOK,
               OutcomeShape
  <2> QED BY <2>1, <2>2, <2>3, <2>4
<1>32. ASSUME NEW s \in Stoppers, NEW t \in Tasks, StopHook(s, t) PROVE TaskShape(u)'
  <2>1. AcceptanceShape(u)'
        BY <1>32 DEF StopHook, finish_queued, TrackTypeOK, AcceptanceShape
  <2>2. TrackerShape(u)'
        BY <1>32 DEF StopHook, finish_queued, TrackTypeOK, TrackerShape
  <2>3. EntryShape(u)'
        BY <1>32 DEF StopHook, finish_queued, TrackTypeOK, StopTypeOK, EntryShape,
               Registered
  <2>4. OutcomeShape(u)'
        BY <1>32 DEF StopHook, finish_queued, ReleaseSlot, TrackTypeOK, SlotTypeOK,
               StopTypeOK, OutcomeShape
  <2> QED BY <2>1, <2>2, <2>3, <2>4
<1>33. ASSUME NEW s \in Stoppers, NEW t \in Tasks, StopCancelled(s, t) PROVE TaskShape(u)'
    BY <1>33 DEF StopCancelled, cancel_unstarted, AcceptanceShape, TrackerShape,
           EntryShape, OutcomeShape
<1>34. ASSUME CloseRuntime PROVE TaskShape(u)'
    BY <1>34 DEF CloseRuntime, AcceptanceShape, TrackerShape, EntryShape,
           OutcomeShape
<1>35. ASSUME UNCHANGED vars PROVE TaskShape(u)'
    BY <1>35 DEF vars, AcceptanceShape, TrackerShape, EntryShape, OutcomeShape
<1> QED
    BY <1>1, <1>2, <1>3, <1>4, <1>5, <1>6, <1>7, <1>8, <1>9, <1>10, <1>11, <1>12,
       <1>13, <1>14, <1>15, <1>16, <1>17, <1>18, <1>19, <1>20, <1>21, <1>22, <1>23, <1>24,
       <1>25, <1>26, <1>27, <1>28, <1>29, <1>30, <1>31, <1>32, <1>33, <1>34, <1>35
    DEF Next, Proceed, Submit, Submitter, Worker, Guard, Release, Canceller, Close, Closer, Sweep

-----------------------------------------------------------------------------
(* The accounting.                                                         *)

\* The counted tasks are finitely many, so each count is a number.
LEMMA CountedFinite == IsFiniteSet(CountedQueued) /\ IsFiniteSet(CountedRunning)
BY TasksAssumption, FS_Subset DEF CountedQueued, CountedRunning

\* The steps that write the counts: acceptance, mark_task_started and finish_task.
CountingStep == \E t \in Tasks : SubmitAccepted(t) \/ WorkerCount(t) \/ ReleaseCount(t)

\* Any other step leaves the counts alone, and no task enters or leaves what it counts:
\* a tracker transition only moves its task between the disjuncts of CountsAs*.
LEMMA OtherStepsKeepCounts ==
    ASSUME TypeOK, \A u \in Tasks : TaskShape(u), [Next]_vars, ~CountingStep
    PROVE  /\ UNCHANGED <<queued, running>>
           /\ CountedQueued' = CountedQueued
           /\ CountedRunning' = CountedRunning
<1> DEFINE Kept == /\ UNCHANGED <<queued, running>>
                   /\ \A u \in Tasks : /\ CountsAsQueued(u)' <=> CountsAsQueued(u)
                                       /\ CountsAsRunning(u)' <=> CountsAsRunning(u)
<1> USE DEF TypeOK, TrackTypeOK, TokioTypeOK, TaskShape, AcceptanceShape, TrackerShape,
            Outside, CountsAsQueued, CountsAsRunning
<1>1. ASSUME NEW t \in Tasks, SubmitRejected(t) PROVE Kept
    BY <1>1 DEF SubmitRejected
<1>2. ASSUME NEW t \in Tasks, SubmitSpawn(t) PROVE Kept
    BY <1>2 DEF SubmitSpawn
<1>3. ASSUME NEW t \in Tasks, SubmitRegister(t) PROVE Kept
    BY <1>3 DEF SubmitRegister
<1>4. ASSUME NEW t \in Tasks, SubmitDeliver(t) PROVE Kept
    BY <1>4 DEF SubmitDeliver
<1>5. ASSUME NEW t \in Tasks, SubmitReturn(t) PROVE Kept
    BY <1>5 DEF SubmitReturn
<1>6. ASSUME NEW t \in Tasks, WorkerPick(t) PROVE Kept
    BY <1>6 DEF WorkerPick
<1>7. ASSUME NEW t \in Tasks, WorkerDiscard(t) PROVE Kept
    BY <1>7 DEF WorkerDiscard
<1>8. ASSUME NEW t \in Tasks, WorkerReceive(t) PROVE Kept
    BY <1>8 DEF WorkerReceive
<1>9. ASSUME NEW t \in Tasks, WorkerMarkStarted(t) PROVE Kept
    BY <1>9 DEF WorkerMarkStarted
<1>10. ASSUME NEW t \in Tasks, WorkerCall(t) PROVE Kept
    BY <1>10 DEF WorkerCall
<1>11. ASSUME NEW t \in Tasks, WorkerReturn(t) PROVE Kept
    BY <1>11 DEF WorkerReturn
<1>12. ASSUME NEW t \in Tasks, WorkerFinish(t) PROVE Kept
    BY <1>12 DEF WorkerFinish
<1>13. ASSUME NEW t \in Tasks, GuardRemove(t) PROVE Kept
    BY <1>13 DEF GuardRemove
<1>14. ASSUME NEW t \in Tasks, GuardFinish(t) PROVE Kept
    BY <1>14 DEF GuardFinish
<1>15. ASSUME NEW t \in Tasks, ReleaseNotifyCapacity(t) PROVE Kept
    BY <1>15 DEF ReleaseNotifyCapacity
<1>16. ASSUME NEW t \in Tasks, ReleaseNotifyWaiters(t) PROVE Kept
    BY <1>16 DEF ReleaseNotifyWaiters
<1>17. ASSUME NEW t \in Tasks, Cancel(t) PROVE Kept
    BY <1>17 DEF Cancel
<1>18. ASSUME NEW t \in Tasks, CancelRemove(t) PROVE Kept
    BY <1>18 DEF CancelRemove
<1>19. ASSUME NEW t \in Tasks, CancelFinish(t) PROVE Kept
    BY <1>19 DEF CancelFinish, finish_queued
<1>20. ASSUME NEW t \in Tasks, CancelAbort(t) PROVE Kept
    BY <1>20 DEF CancelAbort
<1>21. ASSUME NEW c \in Closers, Shutdown(c) PROVE Kept
    BY <1>21 DEF Shutdown
<1>22. ASSUME NEW c \in Closers, StopStore(c) PROVE Kept
    BY <1>22 DEF StopStore
<1>23. ASSUME NEW c \in Closers, CloseNotifyCapacity(c) PROVE Kept
    BY <1>23 DEF CloseNotifyCapacity
<1>24. ASSUME NEW c \in Closers, CloseCheck(c) PROVE Kept
    BY <1>24 DEF CloseCheck
<1>25. ASSUME NEW c \in Closers, CloseNotifyWaiters(c) PROVE Kept
    BY <1>25 DEF CloseNotifyWaiters
<1>26. ASSUME NEW s \in Stoppers, StopSnapshot(s) PROVE Kept
    BY <1>26 DEF StopSnapshot
<1>27. ASSUME NEW s \in Stoppers, StopTake(s) PROVE Kept
    BY <1>27 DEF StopTake
<1>28. ASSUME NEW s \in Stoppers, NEW t \in Tasks, StopAbort(s, t) PROVE Kept
    BY <1>28 DEF StopAbort
<1>29. ASSUME NEW s \in Stoppers, NEW t \in Tasks, StopHook(s, t) PROVE Kept
    BY <1>29 DEF StopHook, finish_queued
<1>30. ASSUME NEW s \in Stoppers, NEW t \in Tasks, StopCancelled(s, t) PROVE Kept
    BY <1>30 DEF StopCancelled
<1>31. ASSUME CloseRuntime PROVE Kept
    BY <1>31 DEF CloseRuntime
<1>32. ASSUME UNCHANGED vars PROVE Kept
    BY <1>32 DEF vars
<1> HIDE DEF Kept
<1>33. Kept
    BY <1>1, <1>2, <1>3, <1>4, <1>5, <1>6, <1>7, <1>8, <1>9, <1>10, <1>11, <1>12,
       <1>13, <1>14, <1>15, <1>16, <1>17, <1>18, <1>19, <1>20, <1>21, <1>22, <1>23, <1>24,
       <1>25, <1>26, <1>27, <1>28, <1>29, <1>30, <1>31, <1>32
    DEF CountingStep, Next, Proceed, Submit, Submitter, Worker, Guard, Release, Canceller, Close,
        Closer, Sweep
<1> QED BY <1>33 DEF Kept, CountedQueued, CountedRunning

\* Acceptance adds one queued task that was not counted before.
LEMMA AcceptCounts ==
    ASSUME TypeOK, \A u \in Tasks : TaskShape(u), CountsExact, CapacityBound,
           NEW t \in Tasks, SubmitAccepted(t)
    PROVE  CountsExact' /\ CapacityBound'
<1> USE DEF TypeOK, ServiceTypeOK, TrackTypeOK, TokioTypeOK
<1>1. TaskShape(t)
      OBVIOUS
<1>2. t \notin CountedQueued /\ t \notin CountedRunning
      BY <1>1 DEF CountedQueued, CountedRunning, CountsAsQueued, CountsAsRunning, TaskShape,
                  AcceptanceShape, TrackerShape, Outside, SubmitAccepted
<1>3. CountedQueued' = CountedQueued \cup {t} /\ CountedRunning' = CountedRunning
      BY <1>1, <1>2 DEF CountedQueued, CountedRunning, CountsAsQueued, CountsAsRunning,
                        TaskShape, TrackerShape, SubmitAccepted
<1>4. Cardinality(CountedQueued') = Cardinality(CountedQueued) + 1
      BY <1>2, <1>3, CountedFinite, FS_AddElement
<1>5. queued' = queued + 1 /\ running' = running /\ queued + running < Capacity
      BY DEF SubmitAccepted, HasCapacity
<1> QED BY <1>3, <1>4, <1>5, CapacityAssumption DEF CountsExact, CapacityBound

\* mark_task_started moves its task from the queued to the running ones; the queued
\* count is positive, so the subtraction does not saturate.
LEMMA StartCounts ==
    ASSUME TypeOK, \A u \in Tasks : TaskShape(u), CountsExact, CapacityBound,
           NEW t \in Tasks, WorkerCount(t)
    PROVE  CountsExact' /\ CapacityBound'
<1> USE DEF TypeOK, ServiceTypeOK, TrackTypeOK, TokioTypeOK
<1>1. TaskShape(t)
      OBVIOUS
<1>2. t \in CountedQueued /\ t \notin CountedRunning
      BY <1>1 DEF CountedQueued, CountedRunning, CountsAsQueued, CountsAsRunning, TaskShape,
                  TrackerShape, WorkerCount
<1>3. /\ CountedQueued' = CountedQueued \ {t}
      /\ CountedRunning' = CountedRunning \cup {t}
      BY <1>1, <1>2 DEF CountedQueued, CountedRunning, CountsAsQueued, CountsAsRunning,
                        TaskShape, TrackerShape, WorkerCount
<1>4. /\ Cardinality(CountedQueued') = Cardinality(CountedQueued) - 1
      /\ Cardinality(CountedRunning') = Cardinality(CountedRunning) + 1
      BY <1>2, <1>3, CountedFinite, FS_AddElement, FS_RemoveElement
<1>5. queued > 0
      BY <1>2, CountedFinite, FS_EmptySet DEF CountsExact
<1>6. queued' = queued - 1 /\ running' = running + 1
      BY <1>5 DEF WorkerCount, saturating_dec
<1> QED BY <1>4, <1>6, CapacityAssumption DEF CountsExact, CapacityBound

\* finish_task takes its task out of the count it was in; that count is positive.
LEMMA ReleaseCounts ==
    ASSUME TypeOK, \A u \in Tasks : TaskShape(u), CountsExact, CapacityBound,
           NEW t \in Tasks, ReleaseCount(t)
    PROVE  CountsExact' /\ CapacityBound'
<1> USE DEF TypeOK, ServiceTypeOK, TrackTypeOK, TokioTypeOK
<1>1. task_state[t] = "FINISHED"
      BY DEF TaskShape, TrackerShape, ReleaseCount
<1>2. CASE releasing[t] = "queued"
  <2>1. t \in CountedQueued /\ t \notin CountedRunning
        BY <1>1, <1>2 DEF CountedQueued, CountedRunning, CountsAsQueued, CountsAsRunning
  <2>2. CountedQueued' = CountedQueued \ {t} /\ CountedRunning' = CountedRunning
        BY <1>1, <1>2, <2>1 DEF CountedQueued, CountedRunning, CountsAsQueued,
                                CountsAsRunning, ReleaseCount
  <2>3. Cardinality(CountedQueued') = Cardinality(CountedQueued) - 1
        BY <2>1, <2>2, CountedFinite, FS_RemoveElement
  <2>4. queued > 0
        BY <2>1, CountedFinite, FS_EmptySet DEF CountsExact
  <2>5. queued' = queued - 1 /\ running' = running
        BY <1>2, <2>4 DEF ReleaseCount, saturating_dec
  <2> QED BY <2>2, <2>3, <2>5, CapacityAssumption DEF CountsExact, CapacityBound
<1>3. CASE releasing[t] = "running"
  <2>1. t \notin CountedQueued /\ t \in CountedRunning
        BY <1>1, <1>3 DEF CountedQueued, CountedRunning, CountsAsQueued, CountsAsRunning
  <2>2. CountedQueued' = CountedQueued /\ CountedRunning' = CountedRunning \ {t}
        BY <1>1, <1>3, <2>1 DEF CountedQueued, CountedRunning, CountsAsQueued,
                                CountsAsRunning, ReleaseCount
  <2>3. Cardinality(CountedRunning') = Cardinality(CountedRunning) - 1
        BY <2>1, <2>2, CountedFinite, FS_RemoveElement
  <2>4. running > 0
        BY <2>1, CountedFinite, FS_EmptySet DEF CountsExact
  <2>5. queued' = queued /\ running' = running - 1
        BY <1>3, <2>4 DEF ReleaseCount, saturating_dec
  <2> QED BY <2>2, <2>3, <2>5, CapacityAssumption DEF CountsExact, CapacityBound
<1> QED BY <1>2, <1>3 DEF ReleaseCount

-----------------------------------------------------------------------------
(* The inductive invariant and what it implies.                            *)

\* The initial state satisfies the inductive invariant.
LEMMA IndInvInit == Init => IndInv
<1> SUFFICES ASSUME Init PROVE IndInv
    OBVIOUS
<1>1. CountedQueued = {} /\ CountedRunning = {}
      BY DEF Init, CountedQueued, CountedRunning, CountsAsQueued, CountsAsRunning
<1>2. CountsExact /\ CapacityBound
      BY <1>1, FS_EmptySet, CapacityAssumption DEF Init, CountsExact, CapacityBound
<1> QED BY <1>2, TypeInit, ShapeInit DEF IndInv

\* Every step preserves the inductive invariant.
LEMMA IndInvNext == IndInv /\ [Next]_vars => IndInv'
<1> SUFFICES ASSUME IndInv, [Next]_vars PROVE IndInv'
    OBVIOUS
<1>1. TypeOK'
      BY TypeNext DEF IndInv
<1>2. \A u \in Tasks : TaskShape(u)'
      BY ShapeNext DEF IndInv
<1>3. CountsExact' /\ CapacityBound'
  <2>1. CASE CountingStep
        BY <2>1, AcceptCounts, StartCounts, ReleaseCounts DEF CountingStep, IndInv
  <2>2. CASE ~CountingStep
        BY <2>2, OtherStepsKeepCounts DEF IndInv, CountsExact, CapacityBound
  <2> QED BY <2>1, <2>2
<1> QED BY <1>1, <1>2, <1>3 DEF IndInv

\* The inductive invariant holds in every reachable state.
THEOREM Invariance == Spec => []IndInv
BY IndInvInit, IndInvNext, PTL DEF Spec

\* queued and running are exactly the tasks that occupy them, so the debug_assert!s of
\* TokioExecutorTaskCounts hold and saturating_sub never hides an error.
THEOREM ExactAccounting == Spec => []CountsExact
<1>1. IndInv => CountsExact
      BY DEF IndInv
<1> QED BY <1>1, Invariance, PTL

\* The unfinished tasks never exceed task_capacity.
THEOREM BoundedCapacity == Spec => []CapacityBound
<1>1. IndInv => CapacityBound
      BY DEF IndInv
<1> QED BY <1>1, Invariance, PTL

\* Only unfinished tasks have an entry in the abort_handles map.
THEOREM LiveAbortEntries == Spec => []AbortEntriesLive
<1>1. IndInv => AbortEntriesLive
      BY DEF IndInv, TypeOK, ServiceTypeOK, TaskShape, EntryShape, AbortEntriesLive
<1> QED BY <1>1, Invariance, PTL

\* A task that stop counted, or whose handle reports Cancelled or Dropped, never runs.
THEOREM CancelledTasksNeverRun == Spec => []CancelledNeverRuns
<1>1. IndInv => CancelledNeverRuns
      BY DEF IndInv, TypeOK, TokioTypeOK, TaskShape, OutcomeShape, CancelledNeverRuns
<1> QED BY <1>1, Invariance, PTL

\* When both counts are zero no task is counted, hence none is queued or running.
LEMMA EmptyCounts ==
    ASSUME IndInv, is_empty, NEW t \in Tasks
    PROVE  ~CountsAsQueued(t) /\ ~CountsAsRunning(t)
<1>1. CountedQueued = {} /\ CountedRunning = {}
      BY CountedFinite, FS_EmptySet DEF IndInv, CountsExact, is_empty
<1> QED BY <1>1 DEF CountedQueued, CountedRunning

\* queued + running is the number of tasks that hold a unit.
LEMMA UnfinishedCount ==
    ASSUME IndInv PROVE Cardinality(Unfinished) = queued + running
<1>1. CountedQueued \cap CountedRunning = {}
      BY DEF CountedQueued, CountedRunning, CountsAsQueued, CountsAsRunning, IndInv, TypeOK,
             TrackTypeOK, TaskShape, TrackerShape
<1>2. /\ Cardinality(CountedQueued \cap CountedRunning) = 0
      /\ queued \in Nat /\ running \in Nat
      BY <1>1, FS_EmptySet DEF IndInv, TypeOK, ServiceTypeOK
<1>3. Cardinality(CountedQueued \cup CountedRunning)
        = Cardinality(CountedQueued) + Cardinality(CountedRunning)
          - Cardinality(CountedQueued \cap CountedRunning)
      BY CountedFinite, FS_Union
<1> QED BY <1>2, <1>3 DEF IndInv, CountsExact, Unfinished

\* A service that reports Terminated runs nothing and has nothing left to start.
THEOREM QuiescentTermination == Spec => []TerminatedIsQuiescent
<1>1. ASSUME IndInv, is_terminated, NEW t \in Tasks
      PROVE  /\ blocking[t] \notin {"count", "take", "call"}
             /\ task_state[t] \in {"NONE", "FINISHED"}
             /\ t \notin abort_handles
  <2>1. task_state[t] \in {"NONE", "FINISHED"}
        BY <1>1, EmptyCounts DEF is_terminated, CountsAsQueued, CountsAsRunning, IndInv,
                                 TypeOK, TrackTypeOK
  <2> QED BY <1>1, <2>1 DEF IndInv, TaskShape, TrackerShape, EntryShape
<1>2. IndInv => TerminatedIsQuiescent
      BY <1>1 DEF IndInv, TypeOK, ServiceTypeOK, TerminatedIsQuiescent
<1> QED BY <1>2, Invariance, PTL

\* Only shutdown and stop store the lifecycle byte.
LEMMA OnlyCloseStores ==
    ASSUME [Next]_vars, ~(\E c \in Closers : Close(c)) PROVE lifecycle' = lifecycle
<1>1. ASSUME NEW t \in Tasks, Submit(t) \/ Submitter(t) \/ Worker(t)
      PROVE  lifecycle' = lifecycle
      BY <1>1 DEF Submit, SubmitRejected, SubmitAccepted, Submitter, SubmitSpawn,
                  SubmitRegister, SubmitDeliver, SubmitReturn, Worker, WorkerPick,
                  WorkerDiscard, WorkerReceive, WorkerMarkStarted, WorkerCount,
                  WorkerCall, WorkerReturn, WorkerFinish
<1>2. ASSUME NEW t \in Tasks, Guard(t) \/ Release(t) \/ Cancel(t) \/ Canceller(t)
      PROVE  lifecycle' = lifecycle
      BY <1>2 DEF Guard, GuardRemove, GuardFinish, Release, ReleaseCount,
                  ReleaseNotifyCapacity, ReleaseNotifyWaiters, Cancel, Canceller,
                  CancelRemove, CancelFinish, CancelAbort
<1>3. ASSUME NEW c \in Closers, Closer(c) PROVE lifecycle' = lifecycle
      BY <1>3 DEF Closer, StopSnapshot, StopTake, Sweep, StopAbort, StopHook, StopCancelled,
                  CloseNotifyCapacity, CloseCheck, CloseNotifyWaiters
<1>4. ASSUME CloseRuntime \/ UNCHANGED vars PROVE lifecycle' = lifecycle
      BY <1>4 DEF CloseRuntime, vars
<1> QED BY <1>1, <1>2, <1>3, <1>4 DEF Next, Proceed

\* The lifecycle byte never goes back to Running.
LEMMA NeverReopened ==
    ASSUME [Next]_vars, is_not_running(lifecycle) PROVE is_not_running(lifecycle)'
<1>1. ASSUME NEW c \in Closers, Shutdown(c) PROVE is_not_running(lifecycle)'
      BY <1>1 DEF Shutdown, shutdown_bits, is_not_running, load
<1>2. ASSUME NEW c \in Closers, StopStore(c) PROVE is_not_running(lifecycle)'
      BY <1>2 DEF StopStore, stop_bits, is_not_running, load, from_u8, Running, Stopping,
                  Terminated
<1>3. lifecycle' = lifecycle => is_not_running(lifecycle)'
      BY DEF is_not_running, load, from_u8
<1> QED BY <1>1, <1>2, <1>3, OnlyCloseStores DEF Close

\* A terminated service stays terminated: nothing is accepted, and no late transition
\* of a task can count it again.
LEMMA TerminatedNext ==
    ASSUME IndInv, [Next]_vars, is_terminated PROVE is_terminated'
<1>1. is_not_running(lifecycle)'
      BY NeverReopened DEF is_terminated
<1>2. is_empty'
  <2>1. ASSUME NEW t \in Tasks, SubmitAccepted(t) PROVE FALSE
        BY <2>1 DEF SubmitAccepted, AdmissionOpen, is_terminated
  <2>2. ASSUME NEW t \in Tasks, WorkerCount(t) PROVE FALSE
        BY <2>2, EmptyCounts DEF WorkerCount, is_terminated, CountsAsQueued, IndInv,
                                 TaskShape, TrackerShape
  <2>3. ASSUME NEW t \in Tasks, ReleaseCount(t) PROVE is_empty'
        BY <2>3 DEF ReleaseCount, is_terminated, is_empty, saturating_dec
  <2>4. CASE ~CountingStep
        BY <2>4, OtherStepsKeepCounts DEF IndInv, is_terminated, is_empty
  <2> QED BY <2>1, <2>2, <2>3, <2>4 DEF CountingStep
<1> QED BY <1>1, <1>2 DEF is_terminated

\* Termination is a stable observation.
THEOREM StableTermination == Spec => TerminatedStable
<1>1. IndInv /\ [Next]_vars => [is_terminated => is_terminated']_vars
      BY TerminatedNext
<1> QED BY <1>1, Invariance, PTL DEF Spec, TerminatedStable
=============================================================================
