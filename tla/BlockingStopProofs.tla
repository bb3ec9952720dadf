------------------------ MODULE BlockingStopProofs ------------------------
(***************************************************************************)
(* Proofs about stop, cancellation and termination of the blocking         *)
(* service, on top of its accounting (BlockingServiceProofs), and that it  *)
(* implements ExecutorServiceSpec.                                         *)
(***************************************************************************)
EXTENDS BlockingServiceProofs, BlockingRefinement

USE DEF lifeVars, countVars, noteVars, trackVars, entryVars, slotVars, tokioVars,
        callerVars, stopVars

-----------------------------------------------------------------------------
(* Admission and closers.                                                  *)

\* submission_lock keeps admission exclusive and away from the closers.
LEMMA AdmissionNext ==
    ASSUME TypeOK, AdmissionShape, CloserShape, [Next]_vars
    PROVE  AdmissionShape'
<1> USE DEF TypeOK, AdmissionShape, InAdmission
<1>1. ASSUME NEW t \in Tasks, SubmitRejected(t) PROVE AdmissionShape'
    BY <1>1 DEF SubmitRejected, CallerTypeOK
<1>2. ASSUME NEW t \in Tasks, SubmitAccepted(t) PROVE AdmissionShape'
    BY <1>2 DEF SubmitAccepted, lock_submission, AdmissionOpen, CallerTypeOK
<1>3. ASSUME NEW t \in Tasks, Submitter(t) PROVE AdmissionShape'
    BY <1>3 DEF Submitter, SubmitSpawn, SubmitRegister, SubmitDeliver, SubmitReturn,
                CallerTypeOK
<1>4. ASSUME NEW t \in Tasks, Worker(t) PROVE AdmissionShape'
    BY <1>4 DEF Worker, WorkerPick, WorkerDiscard, WorkerReceive, WorkerMarkStarted,
                WorkerCount, WorkerCall, WorkerReturn, WorkerFinish
<1>5. ASSUME NEW t \in Tasks, Guard(t) \/ Release(t) \/ Cancel(t) \/ Canceller(t)
      PROVE  AdmissionShape'
    BY <1>5 DEF Guard, GuardRemove, GuardFinish, Release, ReleaseCount,
                ReleaseNotifyCapacity, ReleaseNotifyWaiters, Cancel, Canceller,
                CancelRemove, CancelFinish, CancelAbort
<1>6. ASSUME NEW c \in Closers, Close(c) PROVE AdmissionShape'
    BY <1>6 DEF Close, Shutdown, StopStore, lock_submission
<1>7. ASSUME NEW s \in Stoppers, StopSnapshot(s) PROVE AdmissionShape'
    BY <1>7 DEF StopSnapshot, CloserShape, Closers
<1>8. ASSUME NEW c \in Closers, \/ StopTake(c) \/ Sweep(c) \/ CloseNotifyCapacity(c)
                                \/ CloseCheck(c) \/ CloseNotifyWaiters(c)
      PROVE  AdmissionShape'
    BY <1>8 DEF StopTake, Sweep, StopAbort, StopHook, StopCancelled, CloseNotifyCapacity,
                CloseCheck, CloseNotifyWaiters
<1>9. ASSUME CloseRuntime \/ UNCHANGED vars PROVE AdmissionShape'
    BY <1>9 DEF CloseRuntime, vars
<1> QED BY <1>1, <1>2, <1>3, <1>4, <1>5, <1>6, <1>7, <1>8, <1>9
        DEF Next, Proceed, Submit, Closer

\* No entry is added once a stop has taken the map: a submitter that could add one would
\* be inside admission, which the stop has excluded.
LEMMA CloserNext ==
    ASSUME TypeOK, AdmissionShape, CloserShape, [Next]_vars
    PROVE  CloserShape'
<1> USE DEF TypeOK, CloserShape, Closers
<1>1. ASSUME NEW t \in Tasks, Submit(t) PROVE CloserShape'
    BY <1>1 DEF Submit, SubmitRejected, SubmitAccepted
<1>2. ASSUME NEW t \in Tasks, SubmitRegister(t) PROVE CloserShape'
    BY <1>2 DEF SubmitRegister, AdmissionShape, InAdmission
<1>3. ASSUME NEW t \in Tasks, SubmitSpawn(t) \/ SubmitDeliver(t) \/ SubmitReturn(t)
      PROVE  CloserShape'
    BY <1>3 DEF SubmitSpawn, SubmitDeliver, SubmitReturn
<1>4. ASSUME NEW t \in Tasks, Worker(t) PROVE CloserShape'
    BY <1>4 DEF Worker, WorkerPick, WorkerDiscard, WorkerReceive, WorkerMarkStarted,
                WorkerCount, WorkerCall, WorkerReturn, WorkerFinish
<1>5. ASSUME NEW t \in Tasks, Guard(t) \/ Canceller(t) PROVE CloserShape'
    BY <1>5 DEF Guard, GuardRemove, GuardFinish, Canceller, CancelRemove, CancelFinish,
                CancelAbort, remove_abort_handle
<1>6. ASSUME NEW t \in Tasks, Release(t) \/ Cancel(t) PROVE CloserShape'
    BY <1>6 DEF Release, ReleaseCount, ReleaseNotifyCapacity, ReleaseNotifyWaiters, Cancel
<1>7. ASSUME NEW c \in Closers, Shutdown(c) PROVE CloserShape'
  <2>1. is_not_running(lifecycle)'
        BY <1>7 DEF Shutdown, shutdown_bits, is_not_running, load, from_u8, Running,
                    ShuttingDown, Terminated
  <2>2. c \notin Stoppers
        BY <1>7, ClosersAssumption DEF Shutdown
  <2> QED BY <1>7, <2>1, <2>2 DEF Shutdown, CallerTypeOK
<1>8. ASSUME NEW s \in Closers, StopStore(s) PROVE CloserShape'
    BY <1>8 DEF StopStore, CallerTypeOK, stop_bits, is_not_running, load, from_u8, Running,
                Stopping, Terminated
<1>9. ASSUME NEW s \in Stoppers, StopSnapshot(s) PROVE CloserShape'
    BY <1>9 DEF StopSnapshot, CallerTypeOK
<1>10. ASSUME NEW s \in Stoppers, StopTake(s) PROVE CloserShape'
    BY <1>10 DEF StopTake, CallerTypeOK, StopTypeOK
<1>11. ASSUME NEW s \in Stoppers, NEW t \in Tasks, StopAbort(s, t) PROVE CloserShape'
    BY <1>11 DEF StopAbort, StopTypeOK
<1>12. ASSUME NEW s \in Stoppers, NEW t \in Tasks, StopHook(s, t) PROVE CloserShape'
    BY <1>12 DEF StopHook, StopTypeOK
<1>13. ASSUME NEW s \in Stoppers, NEW t \in Tasks, StopCancelled(s, t) PROVE CloserShape'
    BY <1>13 DEF StopCancelled, StopTypeOK
<1>14. ASSUME NEW c \in Closers, CloseNotifyCapacity(c) PROVE CloserShape'
    BY <1>14 DEF CloseNotifyCapacity, CallerTypeOK
<1>15. ASSUME NEW c \in Closers, CloseCheck(c) \/ CloseNotifyWaiters(c) PROVE CloserShape'
    BY <1>15 DEF CloseCheck, CloseNotifyWaiters, CallerTypeOK
<1>16. ASSUME CloseRuntime \/ UNCHANGED vars PROVE CloserShape'
    BY <1>16 DEF CloseRuntime, vars
<1> QED BY <1>1, <1>2, <1>3, <1>4, <1>5, <1>6, <1>7, <1>8, <1>9, <1>10, <1>11, <1>12,
           <1>13, <1>14, <1>15, <1>16
        DEF Next, Proceed, Submitter, Close, Closer, Sweep

-----------------------------------------------------------------------------
(* Termination is signalled.                                               *)

\* Only four actions can make a service terminated or write what announces it.
LEMMA SignalNext ==
    ASSUME IndInv, SignalShape, CloserShape, [Next]_vars
    PROVE  SignalShape'
<1>1. is_terminated => is_terminated'
      BY TerminatedNext
<1>2. TypeOK
      BY DEF IndInv
<1> DEFINE Pending == \/ terminated_notify > 0
                      \/ \E t \in Tasks : releasing[t] \in {"capacity_last", "waiters"}
                      \/ \E c \in Closers : closer[c] \in {"stored", "snapshotted", "sweep",
                                                          "capacity", "check", "waiters"}
           Goal == /\ \A t \in Tasks : releasing'[t] \in {"capacity_last", "waiters"} => is_terminated'
                   /\ \A c \in Closers : closer'[c] = "waiters" => is_terminated'
                   /\ terminated_notify' > 0 => is_terminated'
                   /\ is_terminated' => Pending'
<1>3. /\ \A t \in Tasks : releasing[t] \in {"capacity_last", "waiters"} => is_terminated'
      /\ \A c \in Closers : closer[c] = "waiters" => is_terminated'
      /\ terminated_notify > 0 => is_terminated'
      /\ is_terminated => Pending
      BY <1>1 DEF SignalShape, TerminationIsSignalled
<1> USE <1>2 DEF TypeOK
<1>4. ASSUME UNCHANGED <<releasing, closer, terminated_notify>>, is_terminated' => is_terminated
      PROVE  Goal
      BY <1>3, <1>4
<1>5. ASSUME NEW t \in Tasks, ReleaseCount(t) PROVE Goal
  <2>1. releasing'[t] = "capacity_last" <=> is_terminated'
        BY <1>5 DEF ReleaseCount, is_terminated, is_empty, is_not_running, load, from_u8,
                    TrackTypeOK
  <2>2. /\ releasing'[t] # "waiters" /\ UNCHANGED <<closer, terminated_notify>>
        /\ \A u \in Tasks \ {t} : releasing'[u] = releasing[u]
        BY <1>5 DEF ReleaseCount, TrackTypeOK
  <2> QED BY <1>3, <2>1, <2>2
<1>6. ASSUME NEW t \in Tasks, ReleaseNotifyCapacity(t) PROVE Goal
  <2>1. is_terminated' => is_terminated
        BY <1>6 DEF ReleaseNotifyCapacity, is_terminated, is_empty, is_not_running, load,
                    from_u8
  <2> QED BY <1>3, <1>6, <2>1 DEF ReleaseNotifyCapacity, TrackTypeOK
<1>7. ASSUME NEW t \in Tasks, ReleaseNotifyWaiters(t) PROVE Goal
      BY <1>3, <1>7 DEF ReleaseNotifyWaiters, TrackTypeOK, ServiceTypeOK
<1>8. ASSUME NEW c \in Closers, Close(c) PROVE Goal
      BY <1>3, <1>8 DEF Close, Shutdown, StopStore, CallerTypeOK
<1>9. ASSUME NEW c \in Closers, c \in Stoppers, StopSnapshot(c) \/ StopTake(c) PROVE Goal
      BY <1>3, <1>9 DEF StopSnapshot, StopTake, CallerTypeOK
<1>10. ASSUME NEW c \in Closers, CloseNotifyCapacity(c) PROVE Goal
      BY <1>3, <1>10 DEF CloseNotifyCapacity, CallerTypeOK
<1>11. ASSUME NEW c \in Closers, CloseCheck(c) PROVE Goal
  <2>1. is_terminated' <=> is_terminated
        BY <1>11 DEF CloseCheck, is_terminated, is_empty, is_not_running, load, from_u8
  <2> QED BY <1>3, <1>11, <2>1 DEF CloseCheck, CallerTypeOK
<1>12. ASSUME NEW c \in Closers, CloseNotifyWaiters(c) PROVE Goal
      BY <1>3, <1>12 DEF CloseNotifyWaiters, CallerTypeOK, ServiceTypeOK
<1>13. ASSUME NEW t \in Tasks, SubmitAccepted(t) \/ WorkerCount(t)
       PROVE  UNCHANGED <<releasing, closer, terminated_notify>> /\ ~is_terminated'
      BY <1>13 DEF SubmitAccepted, WorkerCount, is_terminated, is_empty, ServiceTypeOK
<1>14. ASSUME NEW t \in Tasks, SubmitRejected(t) \/ Submitter(t)
       PROVE  UNCHANGED <<releasing, closer, terminated_notify, lifecycle, queued, running>>
      BY <1>14 DEF SubmitRejected, Submitter, SubmitSpawn, SubmitRegister, SubmitDeliver,
                   SubmitReturn
<1>15. ASSUME NEW t \in Tasks, Worker(t), ~WorkerCount(t)
       PROVE  UNCHANGED <<releasing, closer, terminated_notify, lifecycle, queued, running>>
      BY <1>15 DEF Worker, WorkerPick, WorkerDiscard, WorkerReceive, WorkerMarkStarted,
                   WorkerCall, WorkerReturn, WorkerFinish
<1>16. ASSUME NEW t \in Tasks, GuardRemove(t) \/ Cancel(t) \/ CancelRemove(t) \/ CancelAbort(t)
       PROVE  UNCHANGED <<releasing, closer, terminated_notify, lifecycle, queued, running>>
      BY <1>16 DEF GuardRemove, Cancel, CancelRemove, CancelAbort
<1>17. ASSUME UNCHANGED <<closer, terminated_notify, lifecycle, queued, running>>,
              \A t \in Tasks : \/ releasing'[t] = releasing[t]
                               \/ releasing[t] = "none" /\ releasing'[t] \in {"queued", "running"}
       PROVE  Goal
  <2>1. is_terminated' => is_terminated
        BY <1>17 DEF is_terminated, is_empty, is_not_running, load, from_u8
  <2> QED BY <1>3, <1>17, <2>1
<1>18. ASSUME NEW t \in Tasks, GuardFinish(t) \/ CancelFinish(t) PROVE Goal
      BY <1>17, <1>18 DEF GuardFinish, CancelFinish, finish_queued, TrackTypeOK, IndInv,
                          TaskShape, TrackerShape
<1>19. ASSUME NEW s \in Stoppers, NEW t \in Tasks, StopHook(s, t) PROVE Goal
      BY <1>17, <1>19 DEF StopHook, finish_queued, TrackTypeOK, IndInv, TaskShape,
                          TrackerShape
<1>20. ASSUME NEW s \in Stoppers, NEW t \in Tasks, StopAbort(s, t) \/ StopCancelled(s, t)
       PROVE  UNCHANGED <<releasing, closer, terminated_notify, lifecycle, queued, running>>
      BY <1>20 DEF StopAbort, StopCancelled
<1>21. ASSUME CloseRuntime \/ UNCHANGED vars
       PROVE  UNCHANGED <<releasing, closer, terminated_notify, lifecycle, queued, running>>
      BY <1>21 DEF CloseRuntime, vars
<1> HIDE DEF Goal
<1>22. Goal
      BY <1>4, <1>5, <1>6, <1>7, <1>8, <1>9, <1>10, <1>11, <1>12, <1>13, <1>14, <1>15,
         <1>16, <1>17, <1>18, <1>19, <1>20, <1>21
      DEF Next, Proceed, Submit, Guard, Release, Canceller, Closer, Sweep
<1> QED BY <1>22 DEF Goal, SignalShape, TerminationIsSignalled

-----------------------------------------------------------------------------
(* The result slot.                                                        *)

\* The closure is dropped: it is the last owner only if the hook is gone.
LEMMA ClosureReleased ==
    ASSUME SlotTypeOK, NEW t \in Tasks, NEW u \in Tasks, ReleaseSlot(t, {"closure"})
    PROVE  /\ cell'[u] = cell[u]
           /\ "hook" \in slot_refs'[u] <=> "hook" \in slot_refs[u]
           /\ slot_refs[u] = {} => slot_refs'[u] = {}
           /\ u # t \/ status[u] # "pending" \/ "hook" \in slot_refs[u] =>
                 status'[u] = status[u]
BY DEF SlotTypeOK, ReleaseSlot

\* The hook is dropped: it no longer owns the slot of its own task.
LEMMA HookReleased ==
    ASSUME SlotTypeOK, NEW t \in Tasks, NEW u \in Tasks, ReleaseSlot(t, {"hook"})
    PROVE  /\ cell'[u] = cell[u]
           /\ u # t => slot_refs'[u] = slot_refs[u]
           /\ "hook" \notin slot_refs'[t]
           /\ slot_refs[u] = {} => slot_refs'[u] = {}
           /\ u # t \/ status[u] # "pending" => status'[u] = status[u]
BY DEF SlotTypeOK, ReleaseSlot

\* Removing t's entry drops the hook with it, if the entry was there.
LEMMA EntryRemoved ==
    ASSUME SlotTypeOK, NEW t \in Tasks, NEW u \in Tasks, remove_abort_handle(t)
    PROVE  /\ cell'[u] = cell[u]
           /\ u # t \/ t \notin abort_handles => slot_refs'[u] = slot_refs[u]
           /\ t \in abort_handles => "hook" \notin slot_refs'[t]
           /\ slot_refs[u] = {} => slot_refs'[u] = {}
           /\ \/ u # t \/ status[u] # "pending" \/ t \notin abort_handles
              => status'[u] = status[u]
           /\ abort_handles' = abort_handles \ {t}
<1>1. CASE t \in abort_handles
  <2>1. ReleaseSlot(t, {"hook"}) /\ abort_handles' = abort_handles \ {t}
        BY <1>1 DEF remove_abort_handle
  <2> QED BY <1>1, <2>1, HookReleased
<1>2. CASE t \notin abort_handles
      BY <1>2 DEF remove_abort_handle, SlotTypeOK, ReleaseSlot
<1> QED BY <1>1, <1>2

\* Worker, guard, cancel and stop share the slot cell; none of them drops, starts or
\* overwrites a result that the stop hook is still entitled to cancel.
LEMMA SlotNext ==
    ASSUME TypeOK, NEW u \in Tasks, TaskShape(u), SlotShape(u), SweepShape(u), [Next]_vars
    PROVE  SlotShape(u)'
<1> USE DEF TypeOK
<1>1. ASSUME NEW t \in Tasks, SubmitRejected(t) PROVE SlotShape(u)'
    BY <1>1 DEF SubmitRejected, SlotShape, ResultShape, HookShape, CellShape, Outside,
           CallerTypeOK
<1>2. ASSUME NEW t \in Tasks, SubmitAccepted(t) PROVE SlotShape(u)'
    BY <1>2 DEF SubmitAccepted, SlotShape, ResultShape, HookShape, CellShape, Outside,
           CallerTypeOK, TrackTypeOK, TaskShape, AcceptanceShape, EntryShape,
           OutcomeShape, Registered
<1>3. ASSUME NEW t \in Tasks, SubmitSpawn(t) PROVE SlotShape(u)'
    BY <1>3 DEF SubmitSpawn, SlotShape, ResultShape, HookShape, CellShape, Outside,
           CallerTypeOK, SlotTypeOK, TokioTypeOK, TaskShape, AcceptanceShape,
           EntryShape, OutcomeShape, Registered
<1>4. ASSUME NEW t \in Tasks, SubmitRegister(t) PROVE SlotShape(u)'
  <2>1. ResultShape(u)'
        BY <1>4, HookReleased DEF SubmitRegister, SlotShape, ResultShape, CallerTypeOK,
            Outside
  <2>2. HookShape(u)'
        BY <1>4, HookReleased DEF SubmitRegister, SlotShape, HookShape, CallerTypeOK,
            SlotTypeOK, TaskShape, EntryShape, Registered
  <2>3. CellShape(u)'
        BY <1>4, HookReleased DEF SubmitRegister, SlotShape, CellShape, SlotTypeOK,
            TaskShape, OutcomeShape, EntryShape, Registered, HookShape, SweepShape,
            OneSweeper
  <2> QED BY <2>1, <2>2, <2>3 DEF SlotShape
<1>5. ASSUME NEW t \in Tasks, SubmitDeliver(t) PROVE SlotShape(u)'
  <2>1. ResultShape(u)'
        BY <1>5, ClosureReleased DEF SubmitDeliver, SlotShape, ResultShape, CallerTypeOK,
            Outside, TaskShape, AcceptanceShape
  <2>2. HookShape(u)'
        BY <1>5, ClosureReleased DEF SubmitDeliver, SlotShape, HookShape, CallerTypeOK,
            SlotTypeOK
  <2>3. CellShape(u)'
        BY <1>5, ClosureReleased DEF SubmitDeliver, SlotShape, CellShape, SlotTypeOK,
            HookShape, SweepShape, OneSweeper
  <2> QED BY <2>1, <2>2, <2>3 DEF SlotShape
<1>6. ASSUME NEW t \in Tasks, SubmitReturn(t) PROVE SlotShape(u)'
    BY <1>6 DEF SubmitReturn, SlotShape, ResultShape, HookShape, CellShape, Outside,
           CallerTypeOK
<1>7. ASSUME NEW t \in Tasks, WorkerPick(t) \/ WorkerReceive(t) \/ WorkerCount(t)
      PROVE  SlotShape(u)'
    BY <1>7 DEF WorkerPick, WorkerReceive, WorkerCount, SlotShape, ResultShape, HookShape,
           CellShape, TokioTypeOK
<1>8. ASSUME NEW t \in Tasks, WorkerDiscard(t) PROVE SlotShape(u)'
  <2>1. ResultShape(u)'
        BY <1>8, ClosureReleased DEF WorkerDiscard, SlotShape, ResultShape, TokioTypeOK
  <2>2. HookShape(u)'
        BY <1>8, ClosureReleased DEF WorkerDiscard, SlotShape, HookShape, SlotTypeOK
  <2>3. CellShape(u)'
        BY <1>8, ClosureReleased DEF WorkerDiscard, SlotShape, CellShape, SlotTypeOK,
            HookShape, SweepShape, OneSweeper
  <2> QED BY <2>1, <2>2, <2>3 DEF SlotShape
<1>9. ASSUME NEW t \in Tasks, WorkerMarkStarted(t) PROVE SlotShape(u)'
    BY <1>9 DEF WorkerMarkStarted, SlotShape, ResultShape, HookShape, CellShape,
           TrackTypeOK, TokioTypeOK
<1>10. ASSUME NEW t \in Tasks, WorkerCall(t) PROVE SlotShape(u)'
    BY <1>10 DEF WorkerCall, SlotShape, ResultShape, HookShape, CellShape, SlotTypeOK,
           TokioTypeOK, TaskShape, AcceptanceShape, TrackerShape, OutcomeShape,
           Outside
<1>11. ASSUME NEW t \in Tasks, WorkerReturn(t) PROVE SlotShape(u)'
    BY <1>11 DEF WorkerReturn, SlotShape, ResultShape, HookShape, CellShape, SlotTypeOK,
           TokioTypeOK, TaskShape, AcceptanceShape, TrackerShape, OutcomeShape,
           Outside
<1>12. ASSUME NEW t \in Tasks, WorkerFinish(t) PROVE SlotShape(u)'
  <2>1. ResultShape(u)'
        BY <1>12, ClosureReleased DEF WorkerFinish, SlotShape, ResultShape, TokioTypeOK
  <2>2. HookShape(u)'
        BY <1>12, ClosureReleased DEF WorkerFinish, SlotShape, HookShape, SlotTypeOK
  <2>3. CellShape(u)'
        BY <1>12, ClosureReleased DEF WorkerFinish, SlotShape, CellShape, SlotTypeOK,
            HookShape, SweepShape, OneSweeper
  <2> QED BY <2>1, <2>2, <2>3 DEF SlotShape
<1>13. ASSUME NEW t \in Tasks, GuardRemove(t) PROVE SlotShape(u)'
  <2>1. ResultShape(u)'
        BY <1>13, EntryRemoved DEF GuardRemove, SlotShape, ResultShape
  <2>2. HookShape(u)'
        BY <1>13, EntryRemoved DEF GuardRemove, SlotShape, HookShape, SlotTypeOK,
            TaskShape, EntryShape, Registered
  <2>3. CellShape(u)'
        BY <1>13, EntryRemoved DEF GuardRemove, SlotShape, CellShape, SlotTypeOK,
            HookShape, SweepShape, OneSweeper, TaskShape, EntryShape, OutcomeShape
  <2> QED BY <2>1, <2>2, <2>3 DEF SlotShape
<1>14. ASSUME NEW t \in Tasks, GuardFinish(t) PROVE SlotShape(u)'
    BY <1>14 DEF GuardFinish, SlotShape, ResultShape, HookShape, CellShape, TrackTypeOK
<1>15. ASSUME NEW t \in Tasks, Release(t) PROVE SlotShape(u)'
    BY <1>15 DEF Release, ReleaseCount, ReleaseNotifyCapacity, ReleaseNotifyWaiters,
           SlotShape, ResultShape, HookShape, CellShape
<1>16. ASSUME NEW t \in Tasks, Cancel(t) PROVE SlotShape(u)'
    BY <1>16 DEF Cancel, SlotShape, ResultShape, HookShape, CellShape, SlotTypeOK,
           CallerTypeOK, Outside
<1>17. ASSUME NEW t \in Tasks, CancelRemove(t) PROVE SlotShape(u)'
  <2>1. ResultShape(u)'
        BY <1>17, EntryRemoved DEF CancelRemove, SlotShape, ResultShape, CallerTypeOK
  <2>2. HookShape(u)'
        BY <1>17, EntryRemoved DEF CancelRemove, SlotShape, HookShape, SlotTypeOK,
            TaskShape, EntryShape, Registered
  <2>3. CellShape(u)'
        BY <1>17, EntryRemoved DEF CancelRemove, SlotShape, CellShape, SlotTypeOK,
            HookShape, SweepShape, OneSweeper, TaskShape, EntryShape, OutcomeShape
  <2> QED BY <2>1, <2>2, <2>3 DEF SlotShape
<1>18. ASSUME NEW t \in Tasks, CancelFinish(t) PROVE SlotShape(u)'
    BY <1>18 DEF CancelFinish, finish_queued, SlotShape, ResultShape, HookShape, CellShape,
           TrackTypeOK, CallerTypeOK
<1>19. ASSUME NEW t \in Tasks, CancelAbort(t) PROVE SlotShape(u)'
    BY <1>19 DEF CancelAbort, SlotShape, ResultShape, HookShape, CellShape, CallerTypeOK
<1>20. ASSUME NEW c \in Closers, Close(c) PROVE SlotShape(u)'
    BY <1>20 DEF Close, Shutdown, StopStore, SlotShape, ResultShape, HookShape, CellShape
<1>21. ASSUME NEW c \in Closers, CloseNotifyCapacity(c) \/ CloseCheck(c) \/ CloseNotifyWaiters(c)
      PROVE  SlotShape(u)'
    BY <1>21 DEF CloseNotifyCapacity, CloseCheck, CloseNotifyWaiters, SlotShape,
        ResultShape, HookShape, CellShape
<1>22. ASSUME NEW s \in Stoppers, StopSnapshot(s) PROVE SlotShape(u)'
    BY <1>22 DEF StopSnapshot, SlotShape, ResultShape, HookShape, CellShape
<1>23. ASSUME NEW s \in Stoppers, StopTake(s) PROVE SlotShape(u)'
    BY <1>23 DEF StopTake, SlotShape, ResultShape, HookShape, CellShape, StopTypeOK
<1>24. ASSUME NEW s \in Stoppers, NEW t \in Tasks, StopAbort(s, t) PROVE SlotShape(u)'
  <2>1. ResultShape(u)'
        BY <1>24, HookReleased DEF StopAbort, SlotShape, ResultShape
  <2>2. HookShape(u)'
    <3>1. CASE UNCHANGED <<slotVars, handles>>
          BY <1>24, <3>1 DEF StopAbort, SlotShape, HookShape
    <3>2. CASE ReleaseSlot(t, {"hook"}) /\ handles' = [handles EXCEPT ![s] = @ \ {t}]
      <4>1. CASE u # t
            BY <1>24, <3>2, <4>1, HookReleased DEF StopAbort, SlotShape, HookShape,
                StopTypeOK
      <4>2. CASE u = t
        <5>1. /\ submitter'[u] # "spawned" /\ u \notin abort_handles'
              /\ \A r \in Stoppers : u \notin handles'[r]
              BY <1>24, <3>2, <4>2 DEF StopAbort, StopTypeOK, TaskShape, EntryShape,
                  SweepShape, OneSweeper,
                                      Registered
        <5> QED BY <5>1 DEF HookShape
      <4> QED BY <4>1, <4>2
    <3> QED BY <1>24, <3>1, <3>2 DEF StopAbort
  <2>3. CellShape(u)'
        BY <1>24, HookReleased DEF StopAbort, SlotShape, CellShape, SlotTypeOK,
            StopTypeOK, HookShape, SweepShape, OneSweeper
  <2> QED BY <2>1, <2>2, <2>3 DEF SlotShape
<1>25. ASSUME NEW s \in Stoppers, NEW t \in Tasks, StopHook(s, t) PROVE SlotShape(u)'
  <2>1. ResultShape(u)'
        BY <1>25, HookReleased DEF StopHook, finish_queued, SlotShape, ResultShape
  <2>2. HookShape(u)'
    <3>1. CASE UNCHANGED <<slotVars, handles>>
          BY <1>25, <3>1 DEF StopHook, SlotShape, HookShape
    <3>2. CASE ReleaseSlot(t, {"hook"}) /\ handles' = [handles EXCEPT ![s] = @ \ {t}]
      <4>1. CASE u # t
            BY <1>25, <3>2, <4>1, HookReleased DEF StopHook, SlotShape, HookShape,
                StopTypeOK
      <4>2. CASE u = t
        <5>1. /\ submitter'[u] # "spawned" /\ u \notin abort_handles'
              /\ \A r \in Stoppers : u \notin handles'[r]
              BY <1>25, <3>2, <4>2 DEF StopHook, StopTypeOK, TaskShape, EntryShape,
                  SweepShape, OneSweeper,
                                      Registered
        <5> QED BY <5>1 DEF HookShape
      <4> QED BY <4>1, <4>2
    <3> QED BY <1>25, <3>1, <3>2 DEF StopHook
  <2>3. CellShape(u)'
        BY <1>25, HookReleased DEF StopHook, finish_queued, SlotShape, CellShape,
            SlotTypeOK, StopTypeOK, TrackTypeOK, HookShape, SweepShape, OneSweeper
  <2> QED BY <2>1, <2>2, <2>3 DEF SlotShape
<1>26. ASSUME NEW s \in Stoppers, NEW t \in Tasks, StopCancelled(s, t) PROVE SlotShape(u)'
  <2>1. ResultShape(u)'
        BY <1>26 DEF StopCancelled, cancel_unstarted, SlotShape, ResultShape, CellShape,
            SlotTypeOK, StopTypeOK, TaskShape, OutcomeShape, TrackerShape
  <2>2. HookShape(u)'
        BY <1>26 DEF StopCancelled, cancel_unstarted, SlotShape, HookShape, SlotTypeOK,
            StopTypeOK, TaskShape, EntryShape, SweepShape, OneSweeper, Registered
  <2>3. CellShape(u)'
        BY <1>26 DEF StopCancelled, cancel_unstarted, SlotShape, CellShape, SlotTypeOK,
            StopTypeOK, TaskShape, OutcomeShape
  <2> QED BY <2>1, <2>2, <2>3 DEF SlotShape
<1>27. ASSUME CloseRuntime \/ UNCHANGED vars PROVE SlotShape(u)'
    BY <1>27 DEF CloseRuntime, vars, SlotShape, ResultShape, HookShape, CellShape
<1> QED
    BY <1>1, <1>2, <1>3, <1>4, <1>5, <1>6, <1>7, <1>8, <1>9, <1>10, <1>11, <1>12,
       <1>13, <1>14, <1>15, <1>16, <1>17, <1>18, <1>19, <1>20, <1>21, <1>22, <1>23,
       <1>24, <1>25, <1>26, <1>27
    DEF Next, Proceed, Submit, Submitter, Worker, Guard, Release, Canceller, Close, Closer, Sweep

-----------------------------------------------------------------------------
(* The sweep.                                                              *)

\* Taking the whole map at once keeps an entry out of the hands of a second stop.
LEMMA OneSweeperNext ==
    ASSUME TypeOK, CloserShape, NEW u \in Tasks, TaskShape(u), OneSweeper(u), [Next]_vars
    PROVE  OneSweeper(u)'
<1> USE DEF TypeOK
<1>1. ASSUME NEW t \in Tasks, Submit(t) \/ Submitter(t) PROVE OneSweeper(u)'
    BY <1>1 DEF Submit, SubmitRejected, SubmitAccepted, Submitter, SubmitSpawn,
           SubmitRegister, SubmitDeliver, SubmitReturn, OneSweeper
<1>2. ASSUME NEW t \in Tasks, Worker(t) PROVE OneSweeper(u)'
    BY <1>2 DEF Worker, WorkerPick, WorkerDiscard, WorkerReceive, WorkerMarkStarted,
           WorkerCount, WorkerCall, WorkerReturn, WorkerFinish, OneSweeper
<1>3. ASSUME NEW t \in Tasks, Guard(t) \/ Release(t) PROVE OneSweeper(u)'
    BY <1>3 DEF Guard, GuardRemove, GuardFinish, Release, ReleaseCount,
           ReleaseNotifyCapacity, ReleaseNotifyWaiters, OneSweeper
<1>4. ASSUME NEW t \in Tasks, Cancel(t) \/ Canceller(t) PROVE OneSweeper(u)'
    BY <1>4 DEF Cancel, Canceller, CancelRemove, CancelFinish, CancelAbort, OneSweeper
<1>5. ASSUME NEW c \in Closers, Close(c) PROVE OneSweeper(u)'
    BY <1>5 DEF Close, Shutdown, StopStore, OneSweeper
<1>6. ASSUME NEW c \in Closers, CloseNotifyCapacity(c) \/ CloseCheck(c) \/ CloseNotifyWaiters(c)
      PROVE  OneSweeper(u)'
    BY <1>6 DEF CloseNotifyCapacity, CloseCheck, CloseNotifyWaiters, OneSweeper
<1>7. ASSUME NEW s \in Stoppers, StopSnapshot(s) PROVE OneSweeper(u)'
    BY <1>7 DEF StopSnapshot, OneSweeper
<1>8. ASSUME NEW s \in Stoppers, StopTake(s) PROVE OneSweeper(u)'
    BY <1>8 DEF StopTake, CloserShape, StopTypeOK, TaskShape, EntryShape, OutcomeShape,
           OneSweeper
<1>9. ASSUME NEW s \in Stoppers, NEW t \in Tasks, StopAbort(s, t) PROVE OneSweeper(u)'
    BY <1>9 DEF StopAbort, StopTypeOK, OneSweeper
<1>10. ASSUME NEW s \in Stoppers, NEW t \in Tasks, StopHook(s, t) PROVE OneSweeper(u)'
    BY <1>10 DEF StopHook, StopTypeOK, OneSweeper
<1>11. ASSUME NEW s \in Stoppers, NEW t \in Tasks, StopCancelled(s, t) PROVE OneSweeper(u)'
    BY <1>11 DEF StopCancelled, StopTypeOK, OneSweeper
<1>12. ASSUME CloseRuntime \/ UNCHANGED vars PROVE OneSweeper(u)'
    BY <1>12 DEF CloseRuntime, vars, OneSweeper
<1> QED
    BY <1>1, <1>2, <1>3, <1>4, <1>5, <1>6, <1>7, <1>8, <1>9, <1>10, <1>11, <1>12
    DEF Next, Proceed, Submit, Submitter, Worker, Guard, Release, Canceller, Close, Closer, Sweep

\* An entry leaves the map only with its task finished, cancelled or taken by a stop.
LEMMA FindableNext ==
    ASSUME TypeOK, CloserShape, NEW u \in Tasks, TaskShape(u), SlotShape(u), Findable(u),
           HandoffShape(u), [Next]_vars
    PROVE  Findable(u)'
<1> USE DEF TypeOK
<1>1. ASSUME NEW t \in Tasks, SubmitRejected(t) PROVE Findable(u)'
    BY <1>1 DEF SubmitRejected, CallerTypeOK, Registered, Findable
<1>2. ASSUME NEW t \in Tasks, SubmitAccepted(t) PROVE Findable(u)'
    BY <1>2 DEF SubmitAccepted, CallerTypeOK, TrackTypeOK, Outside, Registered, TaskShape,
           AcceptanceShape, EntryShape, Findable
<1>3. ASSUME NEW t \in Tasks, SubmitSpawn(t) PROVE Findable(u)'
    BY <1>3 DEF SubmitSpawn, CallerTypeOK, Registered, TaskShape, AcceptanceShape,
           TokioTypeOK, SlotTypeOK, Findable
<1>4. ASSUME NEW t \in Tasks, SubmitRegister(t) PROVE Findable(u)'
  <2>1. \A v \in Tasks : v # t \/ status[v] # "pending" => status'[v] = status[v]
        BY <1>4, HookReleased DEF SubmitRegister
  <2> QED BY <1>4, <2>1 DEF SubmitRegister, CallerTypeOK, Registered, TaskShape,
             AcceptanceShape, TrackerShape, EntryShape, Findable
<1>5. ASSUME NEW t \in Tasks, SubmitDeliver(t) PROVE Findable(u)'
  <2>1. \A v \in Tasks : v # t \/ status[v] # "pending" => status'[v] = status[v]
        BY <1>5, ClosureReleased DEF SubmitDeliver
  <2> QED BY <1>5, <2>1 DEF SubmitDeliver, CallerTypeOK, TrackTypeOK, Registered, TaskShape,
             EntryShape, HandoffShape, Findable
<1>6. ASSUME NEW t \in Tasks, SubmitReturn(t) PROVE Findable(u)'
    BY <1>6 DEF SubmitReturn, CallerTypeOK, Registered, Findable
<1>7. ASSUME NEW t \in Tasks, WorkerPick(t) \/ WorkerReceive(t) \/ WorkerCount(t)
      PROVE  Findable(u)'
    BY <1>7 DEF WorkerPick, WorkerReceive, WorkerCount, TokioTypeOK, Findable
<1>8. ASSUME NEW t \in Tasks, WorkerDiscard(t) PROVE Findable(u)'
  <2>1. \A v \in Tasks : v # t \/ status[v] # "pending" => status'[v] = status[v]
        BY <1>8, ClosureReleased DEF WorkerDiscard
  <2> QED BY <1>8, <2>1 DEF WorkerDiscard, TokioTypeOK, TrackTypeOK, TaskShape,
              TrackerShape, Findable
<1>9. ASSUME NEW t \in Tasks, WorkerMarkStarted(t) PROVE Findable(u)'
    BY <1>9 DEF WorkerMarkStarted, TokioTypeOK, TrackTypeOK, TaskShape, TrackerShape,
           Findable
<1>10. ASSUME NEW t \in Tasks, WorkerCall(t) PROVE Findable(u)'
    BY <1>10 DEF WorkerCall, TokioTypeOK, TrackTypeOK, SlotTypeOK, TaskShape, TrackerShape,
           Findable
<1>11. ASSUME NEW t \in Tasks, WorkerReturn(t) PROVE Findable(u)'
    BY <1>11 DEF WorkerReturn, TokioTypeOK, TrackTypeOK, SlotTypeOK, TaskShape,
        TrackerShape, Findable
<1>12. ASSUME NEW t \in Tasks, WorkerFinish(t) PROVE Findable(u)'
  <2>1. \A v \in Tasks : v # t \/ status[v] # "pending" => status'[v] = status[v]
        BY <1>12, ClosureReleased DEF WorkerFinish
  <2> QED BY <1>12, <2>1 DEF WorkerFinish, TokioTypeOK, Findable
<1>13. ASSUME NEW t \in Tasks, GuardRemove(t) PROVE Findable(u)'
  <2>1. /\ \A v \in Tasks : v # t \/ status[v] # "pending" => status'[v] = status[v]
        /\ abort_handles' = abort_handles \ {t} /\ marker' = marker \cup {t}
        BY <1>13, EntryRemoved DEF GuardRemove, remove_abort_handle
  <2> QED BY <1>13, <2>1 DEF GuardRemove, TrackTypeOK, TaskShape, TrackerShape, Findable
<1>14. ASSUME NEW t \in Tasks, GuardFinish(t) PROVE Findable(u)'
    BY <1>14 DEF GuardFinish, TrackTypeOK, TaskShape, TrackerShape, Findable
<1>15. ASSUME NEW t \in Tasks, Release(t) PROVE Findable(u)'
    BY <1>15 DEF Release, ReleaseCount, ReleaseNotifyCapacity, ReleaseNotifyWaiters,
           Findable
<1>16. ASSUME NEW t \in Tasks, Cancel(t) PROVE Findable(u)'
    BY <1>16 DEF Cancel, SlotTypeOK, CallerTypeOK, TaskShape, EntryShape, SlotShape,
           ResultShape, Findable
<1>17. ASSUME NEW t \in Tasks, CancelRemove(t) PROVE Findable(u)'
  <2>1. /\ \A v \in Tasks : v # t \/ status[v] # "pending" => status'[v] = status[v]
        /\ abort_handles' = abort_handles \ {t} /\ marker' = marker \cup {t}
        BY <1>17, EntryRemoved DEF CancelRemove, remove_abort_handle
  <2> QED BY <1>17, <2>1 DEF CancelRemove, CallerTypeOK, SlotShape, ResultShape, Findable
<1>18. ASSUME NEW t \in Tasks, CancelFinish(t) PROVE Findable(u)'
    BY <1>18 DEF CancelFinish, finish_queued, TrackTypeOK, CallerTypeOK, Findable
<1>19. ASSUME NEW t \in Tasks, CancelAbort(t) PROVE Findable(u)'
    BY <1>19 DEF CancelAbort, CallerTypeOK, Findable
<1>20. ASSUME NEW c \in Closers, Close(c) PROVE Findable(u)'
    BY <1>20 DEF Close, Shutdown, StopStore, Findable
<1>21. ASSUME NEW c \in Closers, CloseNotifyCapacity(c) \/ CloseCheck(c) \/ CloseNotifyWaiters(c)
      PROVE  Findable(u)'
    BY <1>21 DEF CloseNotifyCapacity, CloseCheck, CloseNotifyWaiters, Findable
<1>22. ASSUME NEW s \in Stoppers, StopSnapshot(s) PROVE Findable(u)'
    BY <1>22 DEF StopSnapshot, Findable
<1>23. ASSUME NEW s \in Stoppers, StopTake(s) PROVE Findable(u)'
    BY <1>23 DEF StopTake, CloserShape, StopTypeOK, Findable
<1>24. ASSUME NEW s \in Stoppers, NEW t \in Tasks, StopAbort(s, t) PROVE Findable(u)'
  <2>1. \A v \in Tasks : v # t \/ status[v] # "pending" => status'[v] = status[v]
        BY <1>24, HookReleased DEF StopAbort
  <2> QED BY <1>24, <2>1 DEF StopAbort, StopTypeOK, Findable
<1>25. ASSUME NEW s \in Stoppers, NEW t \in Tasks, StopHook(s, t) PROVE Findable(u)'
  <2>1. \A v \in Tasks : v # t \/ status[v] # "pending" => status'[v] = status[v]
        BY <1>25, HookReleased DEF StopHook
  <2> QED BY <1>25, <2>1 DEF StopHook, finish_queued, StopTypeOK, TrackTypeOK, Findable
<1>26. ASSUME NEW s \in Stoppers, NEW t \in Tasks, StopCancelled(s, t) PROVE Findable(u)'
    BY <1>26 DEF StopCancelled, cancel_unstarted, SlotTypeOK, StopTypeOK, TaskShape,
           OutcomeShape, Findable
<1>27. ASSUME CloseRuntime \/ UNCHANGED vars PROVE Findable(u)'
    BY <1>27 DEF CloseRuntime, vars, Findable
<1> QED
    BY <1>1, <1>2, <1>3, <1>4, <1>5, <1>6, <1>7, <1>8, <1>9, <1>10, <1>11, <1>12,
       <1>13, <1>14, <1>15, <1>16, <1>17, <1>18, <1>19, <1>20, <1>21, <1>22, <1>23,
       <1>24, <1>25, <1>26, <1>27
    DEF Next, Proceed, Submit, Submitter, Worker, Guard, Release, Canceller, Close, Closer, Sweep

\* Only the submitter sends the payload and only the worker enters its closure.
LEMMA HandoffNext ==
    ASSUME TypeOK, NEW u \in Tasks, TaskShape(u), HandoffShape(u), [Next]_vars
    PROVE  HandoffShape(u)'
<1> USE DEF TypeOK
<1>1. ASSUME NEW t \in Tasks, Submit(t) PROVE HandoffShape(u)'
    BY <1>1 DEF Submit, SubmitRejected, SubmitAccepted, CallerTypeOK, TrackTypeOK,
           HandoffShape
<1>2. ASSUME NEW t \in Tasks, Submitter(t) PROVE HandoffShape(u)'
    BY <1>2 DEF Submitter, SubmitSpawn, SubmitRegister, SubmitDeliver, SubmitReturn,
           TaskShape, AcceptanceShape, TrackTypeOK, CallerTypeOK,
           TokioTypeOK, HandoffShape
<1>3. ASSUME NEW t \in Tasks, Worker(t) PROVE HandoffShape(u)'
  <2>1. ASSUME WorkerPick(t) \/ WorkerDiscard(t) \/ WorkerReceive(t) PROVE HandoffShape(u)'
        BY <2>1 DEF WorkerPick, WorkerDiscard, WorkerReceive, TokioTypeOK, TrackTypeOK,
                    HandoffShape
  <2>2. ASSUME WorkerMarkStarted(t) \/ WorkerCount(t) PROVE HandoffShape(u)'
        BY <2>2 DEF WorkerMarkStarted, WorkerCount, TokioTypeOK, TrackTypeOK, HandoffShape
  <2>3. ASSUME WorkerCall(t) \/ WorkerReturn(t) \/ WorkerFinish(t) PROVE HandoffShape(u)'
        BY <2>3 DEF WorkerCall, WorkerReturn, WorkerFinish, TokioTypeOK, TrackTypeOK,
                    HandoffShape
  <2> QED BY <1>3, <2>1, <2>2, <2>3 DEF Worker
<1>4. ASSUME NEW t \in Tasks, Guard(t) \/ Release(t) PROVE HandoffShape(u)'
    BY <1>4 DEF Guard, GuardRemove, GuardFinish, Release, ReleaseCount,
           ReleaseNotifyCapacity, ReleaseNotifyWaiters, TrackTypeOK, HandoffShape
<1>5. ASSUME NEW t \in Tasks, Cancel(t) \/ Canceller(t) PROVE HandoffShape(u)'
    BY <1>5 DEF Cancel, Canceller, CancelRemove, CancelFinish, CancelAbort, HandoffShape
<1>6. ASSUME NEW c \in Closers, Close(c) PROVE HandoffShape(u)'
    BY <1>6 DEF Close, Shutdown, StopStore, HandoffShape
<1>7. ASSUME NEW c \in Closers, Closer(c) PROVE HandoffShape(u)'
    BY <1>7 DEF Closer, StopSnapshot, StopTake, Sweep, StopAbort, StopHook, StopCancelled,
           CloseNotifyCapacity, CloseCheck, CloseNotifyWaiters, HandoffShape
<1>8. ASSUME CloseRuntime \/ UNCHANGED vars PROVE HandoffShape(u)'
    BY <1>8 DEF CloseRuntime, vars, HandoffShape
<1> QED
    BY <1>1, <1>2, <1>3, <1>4, <1>5, <1>6, <1>7, <1>8
    DEF Next, Proceed, Submit, Submitter, Worker, Guard, Release, Canceller, Close, Closer, Sweep

-----------------------------------------------------------------------------
(* The report of a stop.                                                   *)

\* Once a stop has closed the service, what it may count only shrinks: nothing is queued
\* again, and the hook moves a task from the queued to the finishing to the counted ones.
LEMMA CountableShrinks ==
    ASSUME TypeOK, CloserShape, NEW s \in Stoppers, closer[s] # "idle",
           NEW u \in Tasks, TaskShape(u), [Next]_vars,
           (u \in Countable(s))'
    PROVE  u \in Countable(s)
<1> DEFINE Goal == u \in Countable(s)
<1> USE DEF TypeOK, Countable
<1>1. ASSUME NEW t \in Tasks, SubmitAccepted(t) PROVE FALSE
      BY <1>1 DEF SubmitAccepted, AdmissionOpen, CloserShape, Closers
<1>2. ASSUME NEW t \in Tasks, SubmitRejected(t) \/ Submitter(t) PROVE Goal
      BY <1>2 DEF SubmitRejected, Submitter, SubmitSpawn, SubmitRegister, SubmitDeliver,
                  SubmitReturn
<1>3. ASSUME NEW t \in Tasks, Worker(t) PROVE Goal
      BY <1>3 DEF Worker, WorkerPick, WorkerDiscard, WorkerReceive, WorkerMarkStarted,
                  WorkerCount, WorkerCall, WorkerReturn, WorkerFinish, TrackTypeOK
<1>4. ASSUME NEW t \in Tasks, Guard(t) \/ Release(t) PROVE Goal
      BY <1>4 DEF Guard, GuardRemove, GuardFinish, Release, ReleaseCount,
                  ReleaseNotifyCapacity, ReleaseNotifyWaiters, TrackTypeOK
<1>5. ASSUME NEW t \in Tasks, Cancel(t) \/ Canceller(t) PROVE Goal
      BY <1>5 DEF Cancel, Canceller, CancelRemove, CancelFinish, CancelAbort, finish_queued,
                  TrackTypeOK
<1>6. ASSUME NEW c \in Closers, \/ Close(c) \/ CloseNotifyCapacity(c) \/ CloseCheck(c)
                                \/ CloseNotifyWaiters(c)
      PROVE  Goal
      BY <1>6 DEF Close, Shutdown, StopStore, CloseNotifyCapacity, CloseCheck,
                  CloseNotifyWaiters
<1>7. ASSUME NEW r \in Stoppers, StopSnapshot(r) PROVE Goal
      BY <1>7 DEF StopSnapshot
<1>8. ASSUME NEW r \in Stoppers, StopTake(r) PROVE Goal
      BY <1>8 DEF StopTake, StopTypeOK, TaskShape, EntryShape, OutcomeShape
<1>9. ASSUME NEW r \in Stoppers, NEW t \in Tasks, StopAbort(r, t) PROVE Goal
      BY <1>9 DEF StopAbort, StopTypeOK
<1>10. ASSUME NEW r \in Stoppers, NEW t \in Tasks, StopHook(r, t) PROVE Goal
      BY <1>10 DEF StopHook, finish_queued, StopTypeOK, TrackTypeOK
<1>11. ASSUME NEW r \in Stoppers, NEW t \in Tasks, StopCancelled(r, t) PROVE Goal
      BY <1>11 DEF StopCancelled, StopTypeOK
<1>12. ASSUME CloseRuntime \/ UNCHANGED vars PROVE Goal
      BY <1>12 DEF CloseRuntime, vars
<1> HIDE DEF Goal
<1>13. Goal
      BY <1>1, <1>2, <1>3, <1>4, <1>5, <1>6, <1>7, <1>8, <1>9, <1>10, <1>11, <1>12
      DEF Next, Proceed, Submit, Closer, Sweep
<1> QED BY <1>13 DEF Goal

\* The snapshot of a stop is taken once, by the step that leaves the lock.
LEMMA SnapshotStep ==
    ASSUME TypeOK, CloserShape, NEW s \in Stoppers, [Next]_vars, ~StopSnapshot(s)
    PROVE  /\ snapshot'[s] = snapshot[s]
           /\ closer[s] \in {"idle", "stored"} => closer'[s] \in {"idle", "stored"}
<1> DEFINE Goal == /\ snapshot'[s] = snapshot[s]
                   /\ closer[s] \in {"idle", "stored"} => closer'[s] \in {"idle", "stored"}
<1> USE DEF TypeOK, CallerTypeOK, Closers
<1>1. ASSUME NEW t \in Tasks, Submit(t) \/ Submitter(t) \/ Worker(t) PROVE Goal
      BY <1>1 DEF Submit, SubmitRejected, SubmitAccepted, Submitter, SubmitSpawn,
                  SubmitRegister, SubmitDeliver, SubmitReturn, Worker, WorkerPick,
                  WorkerDiscard, WorkerReceive, WorkerMarkStarted, WorkerCount,
                  WorkerCall, WorkerReturn, WorkerFinish
<1>2. ASSUME NEW t \in Tasks, Guard(t) \/ Release(t) \/ Cancel(t) \/ Canceller(t) PROVE Goal
      BY <1>2 DEF Guard, GuardRemove, GuardFinish, Release, ReleaseCount,
                  ReleaseNotifyCapacity, ReleaseNotifyWaiters, Cancel, Canceller,
                  CancelRemove, CancelFinish, CancelAbort
<1>3. ASSUME NEW c \in Closers, Shutdown(c) PROVE Goal
      BY <1>3, ClosersAssumption DEF Shutdown
<1>4. ASSUME NEW c \in Closers, StopStore(c) PROVE Goal
      BY <1>4 DEF StopStore
<1>5. ASSUME NEW r \in Stoppers, StopSnapshot(r) PROVE Goal
      BY <1>5 DEF StopSnapshot, StopTypeOK
<1>6. ASSUME NEW r \in Stoppers, StopTake(r) \/ Sweep(r) PROVE Goal
      BY <1>6 DEF StopTake, Sweep, StopAbort, StopHook, StopCancelled
<1>7. ASSUME NEW c \in Closers, CloseNotifyCapacity(c) \/ CloseCheck(c) \/ CloseNotifyWaiters(c)
      PROVE  Goal
      BY <1>7 DEF CloseNotifyCapacity, CloseCheck, CloseNotifyWaiters, CloserShape
<1>8. ASSUME CloseRuntime \/ UNCHANGED vars PROVE Goal
      BY <1>8 DEF CloseRuntime, vars
<1> HIDE DEF Goal
<1>9. Goal
      BY <1>1, <1>2, <1>3, <1>4, <1>5, <1>6, <1>7, <1>8
      DEF Next, Proceed, Close, Closer
<1> QED BY <1>9 DEF Goal

\* What a stop may count never exceeds the queued tasks of its own snapshot.
LEMMA ReportNext ==
    ASSUME IndInv, CloserShape, ReportShape, [Next]_vars
    PROVE  ReportShape'
<1> SUFFICES ASSUME NEW s \in Stoppers, closer'[s] \notin {"idle", "stored"}
             PROVE  Cardinality(Countable(s)') <= snapshot'[s].queued
    BY DEF ReportShape
<1>1. TypeOK
      BY DEF IndInv
<1>2. closer[s] # "idle"
      BY <1>1, SnapshotStep DEF StopSnapshot
<1>3. Countable(s) \subseteq Tasks /\ Countable(s)' \subseteq Tasks
  <2>1. TypeOK'
        BY <1>1, TypeNext
  <2> QED BY <1>1, <2>1 DEF TypeOK, StopTypeOK, Countable
<1>4. Countable(s)' \subseteq Countable(s)
      BY <1>1, <1>2, <1>3, CountableShrinks DEF IndInv
<1>5. IsFiniteSet(Countable(s))
      BY <1>3, TasksAssumption, FS_Subset
<1>6. Cardinality(Countable(s)') <= Cardinality(Countable(s))
      BY <1>4, <1>5, FS_Subset
<1>7. /\ Cardinality(Countable(s)) \in Nat /\ IsFiniteSet(Countable(s)')
      /\ Cardinality(Countable(s)') \in Nat
      BY <1>4, <1>5, FS_Subset, FS_CardinalityType
<1>8. CASE StopSnapshot(s)
  <2>1. Countable(s) \subseteq CountedQueued
        BY <1>8 DEF StopSnapshot, CloserShape, Countable, CountedQueued, CountsAsQueued
  <2>2. Cardinality(Countable(s)) <= queued
        BY <2>1, CountedFinite, FS_Subset DEF IndInv, CountsExact
  <2>3. snapshot'[s].queued = queued /\ queued \in Nat
        BY <1>1, <1>8 DEF StopSnapshot, TypeOK, StopTypeOK, ServiceTypeOK
  <2> QED BY <1>6, <1>7, <2>2, <2>3
<1>9. CASE ~StopSnapshot(s)
  <2>1. snapshot'[s] = snapshot[s] /\ closer[s] \notin {"idle", "stored"}
        BY <1>1, <1>9, SnapshotStep
  <2>2. Cardinality(Countable(s)) <= snapshot[s].queued /\ snapshot[s].queued \in Nat
        BY <1>1, <2>1 DEF ReportShape, TypeOK, StopTypeOK
  <2> QED BY <1>6, <1>7, <2>1, <2>2
<1> QED BY <1>8, <1>9

-----------------------------------------------------------------------------
(* The invariant and what it implies.                                      *)

\* The initial state satisfies the second invariant.
LEMMA StopInvInit == Init => StopInv
<1> SUFFICES ASSUME Init PROVE StopInv
    OBVIOUS
<1>1. AdmissionShape /\ CloserShape /\ ReportShape
      BY DEF Init, AdmissionShape, InAdmission, CloserShape, Closers, ReportShape
<1>2. ASSUME NEW t \in Tasks PROVE SlotShape(t) /\ SweepShape(t) /\ HandoffShape(t)
  <2>1. SlotShape(t)
        BY DEF Init, SlotShape, ResultShape, HookShape, CellShape
  <2>2. SweepShape(t) /\ HandoffShape(t)
        BY DEF Init, SweepShape, OneSweeper, Findable, HandoffShape, Registered
  <2> QED BY <2>1, <2>2
<1>3. ~is_not_running(lifecycle)
      BY DEF Init, is_not_running, load, from_u8, Running, Terminated
<1>4. SignalShape
      BY <1>3 DEF Init, SignalShape, TerminationIsSignalled, is_terminated
<1> QED BY <1>1, <1>2, <1>4 DEF StopInv

\* Every step preserves it.
LEMMA StopInvNext == IndInv /\ StopInv /\ [Next]_vars => StopInv'
<1> SUFFICES ASSUME IndInv, StopInv, [Next]_vars PROVE StopInv'
    OBVIOUS
<1>1. AdmissionShape' /\ CloserShape'
      BY AdmissionNext, CloserNext DEF IndInv, StopInv
<1>2. ASSUME NEW u \in Tasks PROVE SlotShape(u)'
      BY SlotNext DEF IndInv, StopInv
<1>3. ASSUME NEW u \in Tasks PROVE SweepShape(u)'
      BY OneSweeperNext, FindableNext DEF IndInv, StopInv, SweepShape
<1>4. ASSUME NEW u \in Tasks PROVE HandoffShape(u)'
      BY HandoffNext DEF IndInv, StopInv
<1>5. ReportShape' /\ SignalShape'
      BY ReportNext, SignalNext DEF StopInv
<1> QED BY <1>1, <1>2, <1>3, <1>4, <1>5 DEF StopInv

\* Both invariants hold in every reachable state.
THEOREM StopInvariance == Spec => [](IndInv /\ StopInv)
BY IndInvInit, IndInvNext, StopInvInit, StopInvNext, PTL DEF Spec

\* A task that a stop counted as cancelled reports Cancelled, never Dropped.
THEOREM CountedTasksReportCancelled == Spec => []CountedResultIsCancelled
<1>1. IndInv /\ StopInv => CountedResultIsCancelled
      BY DEF IndInv, TypeOK, StopTypeOK, StopInv, SlotShape, ResultShape,
             CountedResultIsCancelled
<1> QED BY <1>1, StopInvariance, PTL

\* A stop counts no more tasks than were queued in its snapshot, and no task is counted
\* by two stops.
THEOREM SoundStopReports == Spec => []StopReportSound
<1>1. ASSUME IndInv, StopInv, NEW s \in Stoppers
      PROVE  Cardinality(cancelled[s]) <= snapshot[s].queued
  <2>1. snapshot[s].queued \in Nat /\ cancelled[s] \subseteq Tasks /\ handles[s] \subseteq Tasks
        BY <1>1 DEF IndInv, TypeOK, StopTypeOK
  <2>2. CASE closer[s] \in {"idle", "stored"}
    <3>1. cancelled[s] = {}
          BY <1>1, <2>2 DEF StopInv, CloserShape
    <3> QED BY <2>1, <3>1, FS_EmptySet
  <2>3. CASE closer[s] \notin {"idle", "stored"}
    <3>1. Cardinality(Countable(s)) <= snapshot[s].queued
          BY <1>1, <2>3 DEF StopInv, ReportShape
    <3>2. cancelled[s] \subseteq Countable(s) /\ Countable(s) \subseteq Tasks
          BY <2>1 DEF Countable
    <3>3. IsFiniteSet(Countable(s))
          BY <3>2, TasksAssumption, FS_Subset
    <3>4. IsFiniteSet(cancelled[s]) /\ Cardinality(cancelled[s]) <= Cardinality(Countable(s))
          BY <3>2, <3>3, FS_Subset
    <3> QED BY <2>1, <3>1, <3>3, <3>4, FS_CardinalityType
  <2> QED BY <2>2, <2>3
<1>2. ASSUME IndInv, StopInv, NEW s \in Stoppers, NEW r \in Stoppers \ {s}
      PROVE  cancelled[s] \cap cancelled[r] = {}
      BY <1>2 DEF IndInv, TypeOK, StopTypeOK, StopInv, SweepShape, OneSweeper
<1>3. IndInv /\ StopInv => StopReportSound
      BY <1>1, <1>2 DEF StopReportSound
<1> QED BY <1>3, StopInvariance, PTL

\* Waiters are notified only of a terminated service, and whoever makes the service
\* terminated is committed to notify them.
THEOREM SignalledTermination == Spec => []TerminationIsSignalled
<1>1. IndInv /\ StopInv => TerminationIsSignalled
      BY DEF StopInv, SignalShape
<1> QED BY <1>1, StopInvariance, PTL

\* mark_started is the only transition from QUEUED to RUNNING.
LEMMA OnlyMarkStarts ==
    ASSUME TypeOK, [Next]_vars, NEW u \in Tasks, task_state[u] = "QUEUED",
           task_state'[u] = "RUNNING"
    PROVE  blocking[u] = "mark"
<1> USE DEF TypeOK, TrackTypeOK
<1>1. ASSUME NEW t \in Tasks, WorkerMarkStarted(t) PROVE blocking[u] = "mark"
      BY <1>1 DEF WorkerMarkStarted
<1>2. ASSUME NEW t \in Tasks, Submit(t) \/ Submitter(t) PROVE FALSE
      BY <1>2 DEF Submit, SubmitRejected, SubmitAccepted, Submitter, SubmitSpawn,
                  SubmitRegister, SubmitDeliver, SubmitReturn
<1>3. ASSUME NEW t \in Tasks, Worker(t), ~WorkerMarkStarted(t) PROVE FALSE
      BY <1>3 DEF Worker, WorkerPick, WorkerDiscard, WorkerReceive, WorkerCount, WorkerCall,
                  WorkerReturn, WorkerFinish
<1>4. ASSUME NEW t \in Tasks, Guard(t) \/ Release(t) \/ Cancel(t) \/ Canceller(t) PROVE FALSE
      BY <1>4 DEF Guard, GuardRemove, GuardFinish, Release, ReleaseCount,
                  ReleaseNotifyCapacity, ReleaseNotifyWaiters, Cancel, Canceller,
                  CancelRemove, CancelFinish, CancelAbort, finish_queued
<1>5. ASSUME NEW c \in Closers, Close(c) PROVE FALSE
      BY <1>5 DEF Close, Shutdown, StopStore
<1>6. ASSUME NEW c \in Closers, Closer(c) PROVE FALSE
      BY <1>6 DEF Closer, StopSnapshot, StopTake, Sweep, StopAbort, StopHook, StopCancelled,
                  CloseNotifyCapacity, CloseCheck, CloseNotifyWaiters, finish_queued
<1>7. ASSUME CloseRuntime \/ UNCHANGED vars PROVE FALSE
      BY <1>7 DEF CloseRuntime, vars
<1> QED BY <1>1, <1>2, <1>3, <1>4, <1>5, <1>6, <1>7 DEF Next, Proceed

\* After a stop has returned, a queued task starts only if its handle cancelled it (its
\* closure is then not entered) or a concurrent stop is about to sweep it.
THEOREM StopPreventsStarts == Spec => NoStartAfterStop
<1>1. ASSUME IndInv, StopInv, [Next]_vars, NEW t \in Tasks, task_state[t] = "QUEUED",
             task_state'[t] = "RUNNING", NEW s \in Stoppers, closer[s] = "done"
      PROVE  status[t] = "cancelled" \/ \E r \in Stoppers : t \in handles[r]
  <2>1. blocking[t] = "mark"
        BY <1>1, OnlyMarkStarts DEF IndInv
  <2>2. abort_handles = {} /\ is_not_running(lifecycle)
        BY <1>1 DEF StopInv, CloserShape, Closers
  <2>3. submitter[t] \notin InAdmission
        BY <1>1, <2>2 DEF StopInv, AdmissionShape
  <2>4. submitter[t] \in Registered
        BY <1>1, <2>1, <2>3 DEF IndInv, TypeOK, CallerTypeOK, TaskShape, AcceptanceShape,
                                Outside, InAdmission, Registered
  <2> QED BY <1>1, <2>1, <2>2, <2>4 DEF StopInv, SweepShape, Findable
<1>2. IndInv /\ StopInv /\ [Next]_vars =>
        [\A t \in Tasks :
            (/\ task_state[t] = "QUEUED" /\ task_state'[t] = "RUNNING"
             /\ \E s \in Stoppers : closer[s] = "done")
            => \/ status[t] = "cancelled"
               \/ \E s \in Stoppers : t \in handles[s]]_vars
      BY <1>1
<1> QED BY <1>2, StopInvariance, PTL DEF Spec, NoStartAfterStop

-----------------------------------------------------------------------------
(* The service implements ExecutorServiceSpec.                             *)

\* The initial states map to initial states.
LEMMA AbstractInit == Init => Abstract!Init
<1> SUFFICES ASSUME Init PROVE Abstract!Init
    OBVIOUS
<1>1. ~is_not_running(lifecycle) /\ ~(terminated_notify > 0)
      BY DEF Init, is_not_running, load, from_u8, Running, Terminated
<1>2. Unfinished = {}
      BY DEF Init, Unfinished, CountedQueued, CountedRunning, CountsAsQueued,
          CountsAsRunning
<1>3. [t \in Tasks |-> PhaseOf(t)] = [t \in Tasks |-> "new"]
      BY DEF Init, PhaseOf
<1> QED BY <1>1, <1>2, <1>3 DEF Abstract!Init

\* A step that leaves called, status, task_state and the call of every task but t alone
\* leaves the phases of the other tasks alone.
LEMMA PhaseStep ==
    ASSUME NEW t \in Tasks, NEW p, PhaseOf(t)' = p,
           \A u \in Tasks \ {t} : /\ u \in called' <=> u \in called
                                  /\ blocking'[u] = blocking[u]
                                  /\ status'[u] = status[u]
                                  /\ task_state'[u] = task_state[u]
    PROVE  [u \in Tasks |-> PhaseOf(u)]' = [[u \in Tasks |-> PhaseOf(u)] EXCEPT ![t] = p]
<1>1. ASSUME NEW u \in Tasks \ {t} PROVE PhaseOf(u)' = PhaseOf(u)
      BY <1>1 DEF PhaseOf
<1> QED BY <1>1

\* The bits of the abstract state that a step of a task's own threads leaves alone.
LEMMA KeepsService ==
    ASSUME UNCHANGED <<lifecycle, terminated_notify>>
    PROVE  /\ (~is_not_running(lifecycle))' = ~is_not_running(lifecycle)
           /\ (terminated_notify > 0)' = (terminated_notify > 0)
BY DEF is_not_running, load, from_u8

\* Outside the closure a step of one task changes its phase only by settling a pending
\* result as cancelled or dropped, which is the abstract Withdraw.
LEMMA SettleStep ==
    ASSUME IndInv, StopInv, NEW t \in Tasks,
           UNCHANGED <<lifecycle, terminated_notify, called>>, Unfinished' = Unfinished,
           \A u \in Tasks \ {t} : /\ blocking'[u] = blocking[u]
                                  /\ status'[u] = status[u]
                                  /\ task_state'[u] = task_state[u],
           blocking'[t] = "call" <=> blocking[t] = "call",
           task_state'[t] = "NONE" <=> task_state[t] = "NONE",
           \/ status'[t] = status[t]
           \/ status[t] = "pending" /\ status'[t] \in {"cancelled", "dropped"}
           \/ status[t] = "none" /\ status'[t] = "pending"
    PROVE  Abstract!Withdraw(t) \/ UNCHANGED Abstract!vars
<1>1. CASE status[t] = "pending" /\ status'[t] \in {"cancelled", "dropped"}
  <2>1. t \notin called /\ task_state[t] # "NONE"
        BY <1>1 DEF IndInv, TaskShape, OutcomeShape, AcceptanceShape, StopInv, SlotShape,
                    ResultShape
  <2>2. PhaseOf(t) = "pending" /\ PhaseOf(t)' = "withdrawn"
        BY <1>1, <2>1 DEF PhaseOf
  <2>3. [u \in Tasks |-> PhaseOf(u)]' = [[u \in Tasks |-> PhaseOf(u)] EXCEPT ![t] = "withdrawn"]
        BY <2>2, PhaseStep
  <2> QED BY <2>2, <2>3, KeepsService DEF Abstract!Withdraw
<1>2. CASE ~(status[t] = "pending" /\ status'[t] \in {"cancelled", "dropped"})
  <2>1. PhaseOf(t)' = PhaseOf(t)
        BY <1>2 DEF PhaseOf
  <2>2. ASSUME NEW u \in Tasks \ {t} PROVE PhaseOf(u)' = PhaseOf(u)
        BY <2>2 DEF PhaseOf
  <2>3. [u \in Tasks |-> PhaseOf(u)]' = [u \in Tasks |-> PhaseOf(u)]
        BY <2>1, <2>2
  <2> QED BY <2>3, KeepsService DEF Abstract!vars
<1> QED BY <1>1, <1>2

\* A step that touches none of the mapped variables is a stutter.
LEMMA StutterStep ==
    ASSUME UNCHANGED <<lifecycle, terminated_notify, called, blocking, status, task_state>>,
           Unfinished' = Unfinished
    PROVE  UNCHANGED Abstract!vars
<1>1. [u \in Tasks |-> PhaseOf(u)]' = [u \in Tasks |-> PhaseOf(u)]
      BY DEF PhaseOf
<1> QED BY <1>1, KeepsService DEF Abstract!vars

\* Acceptance is the abstract Accept: the exact counts make try_accept_task's comparison
\* with task_capacity the abstract one.
LEMMA AcceptStep ==
    ASSUME IndInv, StopInv, NEW t \in Tasks, SubmitAccepted(t) PROVE Abstract!Accept(t)
<1> USE DEF IndInv, TypeOK, TrackTypeOK, SubmitAccepted
<1>1. ~is_not_running(lifecycle) /\ Cardinality(Unfinished) < Capacity
      BY UnfinishedCount DEF AdmissionOpen, HasCapacity
<1>2. task_state[t] = "NONE" /\ releasing[t] = "none"
      BY DEF TaskShape, AcceptanceShape, TrackerShape, Outside
<1>3. PhaseOf(t) = "new" /\ PhaseOf(t)' = "pending"
      BY <1>2 DEF TaskShape, OutcomeShape, StopInv, SlotShape, ResultShape, Outside, PhaseOf
<1>4. Unfinished' = Unfinished \cup {t}
      BY <1>2 DEF Unfinished, CountedQueued, CountedRunning, CountsAsQueued, CountsAsRunning
<1>5. [u \in Tasks |-> PhaseOf(u)]' = [[u \in Tasks |-> PhaseOf(u)] EXCEPT ![t] = "pending"]
      BY <1>3, PhaseStep
<1>6. /\ (~is_not_running(lifecycle))' = ~is_not_running(lifecycle)
      /\ (terminated_notify > 0)' = (terminated_notify > 0)
      BY KeepsService
<1>7. Abstract!Cardinality(Unfinished) = Cardinality(Unfinished)
      BY DEF Cardinality, Abstract!Cardinality
<1> HIDE DEF SubmitAccepted, IndInv
<1> QED BY <1>1, <1>3, <1>4, <1>5, <1>6, <1>7 DEF Abstract!Accept

\* mark_task_started moves a unit from queued to running, which the abstract service
\* does not see.
LEMMA CountStep ==
    ASSUME IndInv, StopInv, NEW t \in Tasks, WorkerCount(t) PROVE UNCHANGED Abstract!vars
<1> USE DEF IndInv, TypeOK, TrackTypeOK, TokioTypeOK, WorkerCount
<1>1. task_state[t] = "RUNNING" /\ releasing[t] = "none"
      BY DEF TaskShape, TrackerShape
<1>2. Unfinished' = Unfinished
      BY <1>1 DEF Unfinished, CountedQueued, CountedRunning, CountsAsQueued, CountsAsRunning
<1>3. ASSUME NEW u \in Tasks PROVE PhaseOf(u)' = PhaseOf(u)
      BY DEF PhaseOf
<1>4. [u \in Tasks |-> PhaseOf(u)]' = [u \in Tasks |-> PhaseOf(u)]
      BY <1>3
<1> QED BY <1>2, <1>4, KeepsService DEF Abstract!vars

\* The write section of finish_task is the abstract Free: the closure has returned.
LEMMA FreeStep ==
    ASSUME IndInv, NEW t \in Tasks, ReleaseCount(t) PROVE Abstract!Free(t)
<1> USE DEF IndInv, TypeOK, TrackTypeOK, TokioTypeOK
<1>1. task_state[t] = "FINISHED" /\ t \in Unfinished
      BY DEF ReleaseCount, TaskShape, TrackerShape, Unfinished, CountedQueued,
          CountedRunning, CountsAsQueued, CountsAsRunning
<1>2. Unfinished' = Unfinished \ {t}
      BY <1>1 DEF ReleaseCount, Unfinished, CountedQueued, CountedRunning, CountsAsQueued,
                  CountsAsRunning
<1>3. PhaseOf(t) # "inside"
      BY <1>1 DEF TaskShape, TrackerShape, PhaseOf
<1>4. /\ [u \in Tasks |-> PhaseOf(u)]' = [u \in Tasks |-> PhaseOf(u)]
      /\ UNCHANGED <<lifecycle, terminated_notify>>
      BY DEF ReleaseCount, PhaseOf
<1> QED BY <1>1, <1>2, <1>3, <1>4, KeepsService DEF Abstract!Free

\* The closure is entered and left while its task holds its unit.
LEMMA CallStep ==
    ASSUME IndInv, StopInv, NEW t \in Tasks, WorkerCall(t) \/ WorkerReturn(t),
           Unfinished' = Unfinished
    PROVE  [Abstract!Next]_(Abstract!vars)
<1> USE DEF IndInv, TypeOK, TrackTypeOK, TokioTypeOK, SlotTypeOK
<1>1. ASSUME WorkerCall(t), ~HasSlot(t) \/ (cell[t] = "full" /\ status[t] = "pending")
      PROVE  Abstract!Enter(t)
  <2>1. task_state[t] = "RUNNING" /\ t \notin called
        BY <1>1 DEF WorkerCall, TaskShape, TrackerShape, StopInv, HandoffShape
  <2>2. t \in Unfinished
        BY <1>1, <2>1 DEF WorkerCall, Unfinished, CountedRunning, CountsAsRunning
  <2>3. PhaseOf(t) = "pending" /\ PhaseOf(t)' = "inside"
        BY <1>1, <2>1 DEF WorkerCall, TaskShape, OutcomeShape, PhaseOf
  <2>4. [u \in Tasks |-> PhaseOf(u)]' = [[u \in Tasks |-> PhaseOf(u)] EXCEPT ![t] = "inside"]
        BY <1>1, <2>3, PhaseStep DEF WorkerCall
  <2>5. UNCHANGED <<lifecycle, terminated_notify>>
        BY <1>1 DEF WorkerCall
  <2> QED BY <2>2, <2>3, <2>4, <2>5, KeepsService DEF Abstract!Enter
<1>2. ASSUME WorkerCall(t), HasSlot(t) /\ ~(cell[t] = "full" /\ status[t] = "pending")
      PROVE  Abstract!Withdraw(t) \/ UNCHANGED Abstract!vars
      BY <1>2, SettleStep DEF WorkerCall
<1>3. ASSUME WorkerReturn(t) PROVE Abstract!Leave(t)
  <2>1. t \in called
        BY <1>3 DEF WorkerReturn, StopInv, HandoffShape
  <2>2. PhaseOf(t) = "inside" /\ PhaseOf(t)' = "completed"
        BY <1>3, <2>1 DEF WorkerReturn, PhaseOf
  <2>3. [u \in Tasks |-> PhaseOf(u)]' = [[u \in Tasks |-> PhaseOf(u)] EXCEPT ![t] = "completed"]
        BY <1>3, <2>2, PhaseStep DEF WorkerReturn
  <2>4. UNCHANGED <<lifecycle, terminated_notify>>
        BY <1>3 DEF WorkerReturn
  <2> QED BY <2>2, <2>3, <2>4, KeepsService DEF Abstract!Leave
<1> QED BY <1>1, <1>2, <1>3 DEF Abstract!Next

\* The steps of a submitter, a worker outside the closure, a guard and a cancel.
LEMMA TaskStep ==
    ASSUME IndInv, StopInv, NEW t \in Tasks, Unfinished' = Unfinished,
           \/ Submitter(t) \/ Guard(t) \/ Cancel(t) \/ Canceller(t)
           \/ WorkerPick(t) \/ WorkerDiscard(t) \/ WorkerReceive(t) \/ WorkerMarkStarted(t)
           \/ WorkerFinish(t)
    PROVE  Abstract!Withdraw(t) \/ UNCHANGED Abstract!vars
<1> USE DEF IndInv, TypeOK, TrackTypeOK, TokioTypeOK, SlotTypeOK
<1> DEFINE Step ==
      /\ UNCHANGED <<lifecycle, terminated_notify, called>>
      /\ \A u \in Tasks \ {t} : /\ blocking'[u] = blocking[u]
                                /\ status'[u] = status[u]
                                /\ task_state'[u] = task_state[u]
      /\ blocking'[t] = "call" <=> blocking[t] = "call"
      /\ task_state'[t] = "NONE" <=> task_state[t] = "NONE"
      /\ \/ status'[t] = status[t]
         \/ status[t] = "pending" /\ status'[t] \in {"cancelled", "dropped"}
         \/ status[t] = "none" /\ status'[t] = "pending"
<1>1. ASSUME SubmitSpawn(t) PROVE Step
      BY <1>1 DEF SubmitSpawn, TaskShape, AcceptanceShape, StopInv, SlotShape, ResultShape
<1>2. ASSUME SubmitRegister(t) \/ SubmitDeliver(t) \/ SubmitReturn(t) PROVE Step
      BY <1>2 DEF SubmitRegister, SubmitDeliver, SubmitReturn, ReleaseSlot
<1>3. ASSUME Guard(t) PROVE Step
      BY <1>3 DEF Guard, GuardRemove, GuardFinish, remove_abort_handle, ReleaseSlot,
                  TaskShape, AcceptanceShape
<1>4. ASSUME Cancel(t) \/ Canceller(t) PROVE Step
      BY <1>4 DEF Cancel, Canceller, CancelRemove, CancelFinish, CancelAbort, finish_queued,
                  remove_abort_handle, ReleaseSlot
<1>5. ASSUME \/ WorkerPick(t) \/ WorkerDiscard(t) \/ WorkerReceive(t)
             \/ WorkerMarkStarted(t) \/ WorkerFinish(t)
      PROVE  Step
      BY <1>5 DEF WorkerPick, WorkerDiscard, WorkerReceive, WorkerMarkStarted, WorkerFinish,
                  ReleaseSlot
<1>6. Step
      BY <1>1, <1>2, <1>3, <1>4, <1>5 DEF Submitter
<1> QED BY <1>6, SettleStep

\* The sweep of a stop settles at most the entry it is at.
LEMMA SweepStep ==
    ASSUME IndInv, StopInv, NEW s \in Stoppers, Sweep(s), Unfinished' = Unfinished
    PROVE  [Abstract!Next]_(Abstract!vars)
<1> USE DEF IndInv, TypeOK, TrackTypeOK, TokioTypeOK, SlotTypeOK
<1>1. PICK t \in Tasks : StopAbort(s, t) \/ StopHook(s, t) \/ StopCancelled(s, t)
      BY DEF Sweep
<1>2. /\ UNCHANGED <<lifecycle, terminated_notify, called, blocking>>
      /\ \A u \in Tasks \ {t} : status'[u] = status[u] /\ task_state'[u] = task_state[u]
      /\ task_state'[t] = "NONE" <=> task_state[t] = "NONE"
      /\ \/ status'[t] = status[t]
         \/ status[t] = "pending" /\ status'[t] \in {"cancelled", "dropped"}
      BY <1>1 DEF StopAbort, StopHook, StopCancelled, finish_queued, abort,
                  cancel_unstarted, ReleaseSlot
<1>3. Abstract!Withdraw(t) \/ UNCHANGED Abstract!vars
      BY <1>2, SettleStep
<1> QED BY <1>3 DEF Abstract!Next

\* shutdown and stop are the abstract Close, at the store of the byte.
LEMMA CloseStep ==
    ASSUME NEW c \in Closers, Close(c), Unfinished' = Unfinished PROVE Abstract!Close
<1>1. is_not_running(lifecycle)'
      BY DEF Close, Shutdown, StopStore, shutdown_bits, stop_bits, is_not_running, load,
             from_u8, Running, ShuttingDown, Stopping, Terminated
<1>2. /\ [u \in Tasks |-> PhaseOf(u)]' = [u \in Tasks |-> PhaseOf(u)]
      /\ (terminated_notify > 0)' = (terminated_notify > 0)
      BY DEF Close, Shutdown, StopStore, PhaseOf
<1> QED BY <1>1, <1>2 DEF Abstract!Close

\* The two notifications are the abstract Signal: whoever makes one has seen termination.
LEMMA SignalStep ==
    ASSUME IndInv, StopInv, Unfinished' = Unfinished,
           \/ \E t \in Tasks : ReleaseNotifyWaiters(t)
           \/ \E c \in Closers : CloseNotifyWaiters(c)
    PROVE  Abstract!Signal
<1>1. is_terminated
      BY DEF StopInv, SignalShape, ReleaseNotifyWaiters, CloseNotifyWaiters
<1>2. Unfinished = {} /\ is_not_running(lifecycle)
      BY <1>1, EmptyCounts DEF Unfinished, CountedQueued, CountedRunning, is_terminated
<1>3. (terminated_notify > 0)' = TRUE
      BY DEF ReleaseNotifyWaiters, CloseNotifyWaiters, IndInv, TypeOK, ServiceTypeOK
<1>4. /\ [u \in Tasks |-> PhaseOf(u)]' = [u \in Tasks |-> PhaseOf(u)]
      /\ (~is_not_running(lifecycle))' = ~is_not_running(lifecycle)
      BY DEF ReleaseNotifyWaiters, CloseNotifyWaiters, PhaseOf, is_not_running, load,
          from_u8
<1> QED BY <1>2, <1>3, <1>4 DEF Abstract!Signal

\* Every step maps to an abstract step or to a stutter.
LEMMA AbstractNext == IndInv /\ StopInv /\ [Next]_vars => [Abstract!Next]_(Abstract!vars)
<1> SUFFICES ASSUME IndInv, StopInv, [Next]_vars PROVE [Abstract!Next]_(Abstract!vars)
    OBVIOUS
<1>1. CASE CountingStep
      BY <1>1, AcceptStep, CountStep, FreeStep DEF CountingStep, Abstract!Next
<1>2. CASE ~CountingStep
  <2>1. Unfinished' = Unfinished
        BY <1>2, OtherStepsKeepCounts DEF IndInv, Unfinished
  <2>2. ASSUME NEW t \in Tasks,
               \/ Submitter(t) \/ Guard(t) \/ Cancel(t) \/ Canceller(t)
               \/ WorkerPick(t) \/ WorkerDiscard(t) \/ WorkerReceive(t)
               \/ WorkerMarkStarted(t) \/ WorkerFinish(t)
        PROVE  [Abstract!Next]_(Abstract!vars)
        BY <2>1, <2>2, TaskStep DEF Abstract!Next
  <2>3. ASSUME NEW t \in Tasks, WorkerCall(t) \/ WorkerReturn(t)
        PROVE  [Abstract!Next]_(Abstract!vars)
        BY <2>1, <2>3, CallStep
  <2>4. ASSUME NEW t \in Tasks, SubmitRejected(t) \/ ReleaseNotifyCapacity(t)
        PROVE  UNCHANGED Abstract!vars
        BY <2>1, <2>4, StutterStep DEF SubmitRejected, ReleaseNotifyCapacity
  <2>5. ASSUME NEW t \in Tasks, ReleaseNotifyWaiters(t) PROVE Abstract!Next
        BY <2>1, <2>5, SignalStep DEF Abstract!Next
  <2>6. ASSUME NEW c \in Closers, Close(c) PROVE Abstract!Next
        BY <2>1, <2>6, CloseStep DEF Abstract!Next
  <2>7. ASSUME NEW s \in Stoppers, StopSnapshot(s) \/ StopTake(s)
        PROVE  UNCHANGED Abstract!vars
        BY <2>1, <2>7, StutterStep DEF StopSnapshot, StopTake
  <2>8. ASSUME NEW s \in Stoppers, Sweep(s) PROVE [Abstract!Next]_(Abstract!vars)
        BY <2>1, <2>8, SweepStep
  <2>9. ASSUME NEW c \in Closers, CloseNotifyCapacity(c) \/ CloseCheck(c)
        PROVE  UNCHANGED Abstract!vars
        BY <2>1, <2>9, StutterStep DEF CloseNotifyCapacity, CloseCheck
  <2>10. ASSUME NEW c \in Closers, CloseNotifyWaiters(c) PROVE Abstract!Next
        BY <2>1, <2>10, SignalStep DEF Abstract!Next
  <2>11. ASSUME CloseRuntime \/ UNCHANGED vars PROVE UNCHANGED Abstract!vars
        BY <2>1, <2>11, StutterStep DEF CloseRuntime, vars
  <2>12. ASSUME NEW t \in Tasks, SubmitAccepted(t) \/ WorkerCount(t) \/ ReleaseCount(t)
         PROVE  FALSE
        BY <1>2, <2>12 DEF CountingStep
  <2> QED BY <2>2, <2>3, <2>4, <2>5, <2>6, <2>7, <2>8, <2>9, <2>10, <2>11, <2>12
          DEF Next, Proceed, Submit, Worker, Release, Closer
<1> QED BY <1>1, <1>2

\* Through the mapping, every behaviour of the blocking service is one of the abstract
\* service: one accept, at most one entry and one release per task.
THEOREM BlockingImplementsExecutorService == Spec => ImplementsExecutorService
BY AbstractInit, AbstractNext, StopInvariance, PTL
DEF Spec, ImplementsExecutorService, Abstract!Spec
=============================================================================
