-------------------------- MODULE IoServiceProofs --------------------------
(***************************************************************************)
(* Proofs about the IO service, for any set of tasks, any capacity and any *)
(* number of stop, shutdown and await_termination calls, and about the     *)
(* producers that retry on it.                                             *)
(***************************************************************************)
EXTENDS IoServiceInvariant, IoRefinement, IoRetry, FiniteSetTheorems, TLAPS

\* The groups in which the actions list the variables they leave unchanged.
USE DEF lifeVars, noteVars, entryVars, tokioVars, loadVars, stopVars, waitVars

-----------------------------------------------------------------------------
(* Type correctness.                                                       *)

\* Every step of every thread keeps each variable in its domain.
LEMMA TypeNext == TypeOK /\ [Next]_vars => TypeOK'
<1> SUFFICES ASSUME TypeOK, [Next]_vars PROVE TypeOK'
    OBVIOUS
<1> USE DEF TypeOK
<1>1. ASSUME NEW t \in Tasks, Submit(t) PROVE TypeOK'
  <2>1. StateTypeOK'
    <3>1. ASSUME SubmitRejected(t) PROVE StateTypeOK'
          BY <3>1 DEF SubmitRejected, StateTypeOK
    <3>2. ASSUME SubmitCheck(t) PROVE StateTypeOK'
          BY <3>2 DEF SubmitCheck, StateTypeOK
    <3> QED BY <1>1, <3>1, <3>2 DEF Submit
  <2>2. TaskTypeOK' /\ CallerTypeOK'
        BY <1>1 DEF Submit, SubmitRejected, SubmitCheck, TaskTypeOK, CallerTypeOK
  <2> QED BY <2>1, <2>2
<1>2. ASSUME NEW t \in Tasks, Submitter(t) PROVE TypeOK'
  <2>1. StateTypeOK'
    <3>1. ASSUME SubmitAccepted(t) PROVE StateTypeOK'
          BY <3>1 DEF SubmitAccepted, StateTypeOK
    <3>2. ASSUME \/ SubmitSpawn(t) \/ SubmitRegister(t) \/ SubmitDeliver(t)
                 \/ SubmitReturn(t)
          PROVE  StateTypeOK'
          BY <3>2 DEF SubmitSpawn, SubmitRegister, SubmitDeliver, SubmitReturn, StateTypeOK
    <3> QED BY <1>2, <3>1, <3>2 DEF Submitter
  <2>2. TaskTypeOK'
        BY <1>2 DEF Submitter, SubmitAccepted, SubmitSpawn, SubmitRegister, SubmitDeliver,
                    SubmitReturn, DropPayload, TaskTypeOK
  <2>3. CallerTypeOK'
        BY <1>2 DEF Submitter, SubmitAccepted, SubmitSpawn, SubmitRegister, SubmitDeliver,
                    SubmitReturn, CallerTypeOK
  <2> QED BY <2>1, <2>2, <2>3
<1>3. ASSUME NEW t \in Tasks, Schedule(t) \/ UserCode(t) \/ Cancel(t) PROVE TypeOK'
  <2>1. StateTypeOK' /\ CallerTypeOK'
        BY <1>3 DEF Schedule, TaskPoll, TaskCancel, TaskFinish, UserCode, TaskPending,
                    TaskReady, Cancel, StateTypeOK, CallerTypeOK
  <2>2. TaskTypeOK'
        BY <1>3 DEF Schedule, TaskPoll, TaskCancel, TaskFinish, UserCode, TaskPending,
                    TaskReady, Cancel, DropPayload, TaskTypeOK
  <2> QED BY <2>1, <2>2
<1>4. ASSUME NEW t \in Tasks, Guard(t) PROVE TypeOK'
    BY <1>4 DEF Guard, GuardRemove, GuardDecrement, GuardNotifyCapacity,
                GuardNotifyWaiters, StateTypeOK, TaskTypeOK, CallerTypeOK
<1>5. ASSUME NEW c \in Closers, Close(c) PROVE TypeOK'
  <2>1. StateTypeOK'
        BY <1>5 DEF Close, Shutdown, StopStore, shutdown_bits, stop_bits, from_u8, Running,
                    ShuttingDown, Stopping, Terminated, StateTypeOK
  <2>2. TaskTypeOK' /\ CallerTypeOK'
        BY <1>5 DEF Close, Shutdown, StopStore, TaskTypeOK, CallerTypeOK
  <2> QED BY <2>1, <2>2
<1>6. ASSUME NEW c \in Closers, Closer(c) PROVE TypeOK'
  <2>1. StateTypeOK'
    <3>1. ASSUME StopSnapshot(c) \/ StopTake(c) PROVE StateTypeOK'
          BY <3>1 DEF StopSnapshot, StopTake, StateTypeOK
    <3>2. ASSUME Sweep(c) PROVE StateTypeOK'
          BY <3>2 DEF Sweep, StopAbort, StateTypeOK
    <3>3. ASSUME CloseNotifyCapacity(c) \/ CloseNotifyWaiters(c) PROVE StateTypeOK'
          BY <3>3 DEF CloseNotifyCapacity, CloseNotifyWaiters, StateTypeOK
    <3> QED BY <1>6, <3>1, <3>2, <3>3 DEF Closer
  <2>2. TaskTypeOK'
        BY <1>6 DEF Closer, StopSnapshot, StopTake, Sweep, StopAbort, CloseNotifyCapacity,
                    CloseNotifyWaiters, TaskTypeOK
  <2>3. CallerTypeOK'
        BY <1>6 DEF Closer, StopSnapshot, StopTake, Sweep, StopAbort, CloseNotifyCapacity,
                    CloseNotifyWaiters, StateTypeOK, CallerTypeOK
  <2> QED BY <2>1, <2>2, <2>3
<1>7. ASSUME NEW w \in Waiters, WaiterEnter(w) \/ Waiter(w) PROVE TypeOK'
    BY <1>7 DEF WaiterEnter, Waiter, WaiterLoad, WaiterRead, WaiterWake, StateTypeOK,
                TaskTypeOK, CallerTypeOK
<1>8. ASSUME CloseRuntime PROVE TypeOK'
    BY <1>8 DEF CloseRuntime, StateTypeOK, TaskTypeOK, CallerTypeOK
<1>9. ASSUME UNCHANGED vars PROVE TypeOK'
    BY <1>9 DEF vars, StateTypeOK, TaskTypeOK, CallerTypeOK
<1> QED BY <1>1, <1>2, <1>3, <1>4, <1>5, <1>6, <1>7, <1>8, <1>9 DEF Next, Proceed

-----------------------------------------------------------------------------
(* The shape of a task.                                                    *)

\* A step of any thread keeps the shape of every task.
LEMMA ShapeNext ==
    ASSUME TypeOK, CloserShape, NEW u \in Tasks, TaskShape(u), [Next]_vars
    PROVE  TaskShape(u)'
<1> USE DEF TypeOK, TaskShape
<1>1. ASSUME NEW t \in Tasks, Submit(t) \/ SubmitAccepted(t) PROVE TaskShape(u)'
    BY <1>1 DEF Submit, SubmitRejected, SubmitCheck, SubmitAccepted, TaskTypeOK, CallerTypeOK,
                PayloadShape, HandoffShape, EntryShape, Outside, InAdmission, Registered, Live
<1>2. ASSUME NEW t \in Tasks, SubmitSpawn(t) PROVE TaskShape(u)'
    BY <1>2 DEF SubmitSpawn, TaskTypeOK, CallerTypeOK,
                PayloadShape, HandoffShape, EntryShape, Outside, InAdmission, Registered, Live
<1>3. ASSUME NEW t \in Tasks, SubmitRegister(t) PROVE TaskShape(u)'
    BY <1>3 DEF SubmitRegister, TaskTypeOK, CallerTypeOK,
                PayloadShape, HandoffShape, EntryShape, Outside, InAdmission, Registered, Live
<1>4. ASSUME NEW t \in Tasks, SubmitDeliver(t) PROVE TaskShape(u)'
    BY <1>4 DEF SubmitDeliver, DropPayload, TaskTypeOK, CallerTypeOK,
                PayloadShape, HandoffShape, EntryShape, Outside, InAdmission, Registered, Live
<1>5. ASSUME NEW t \in Tasks, SubmitReturn(t) PROVE TaskShape(u)'
    BY <1>5 DEF SubmitReturn, TaskTypeOK, CallerTypeOK,
                PayloadShape, HandoffShape, EntryShape, Outside, InAdmission, Registered, Live
<1>6. ASSUME NEW t \in Tasks, TaskPoll(t) \/ TaskPending(t) \/ TaskFinish(t) \/ Cancel(t)
      PROVE  TaskShape(u)'
    BY <1>6 DEF TaskPoll, TaskPending, TaskFinish, Cancel, TaskTypeOK, CallerTypeOK,
                PayloadShape, HandoffShape, EntryShape, Outside, InAdmission, Registered, Live
<1>7. ASSUME NEW t \in Tasks, TaskReady(t) PROVE TaskShape(u)'
    BY <1>7 DEF TaskReady, DropPayload, TaskTypeOK, CallerTypeOK,
                PayloadShape, HandoffShape, EntryShape, Outside, InAdmission, Registered, Live
<1>8. ASSUME NEW t \in Tasks, TaskCancel(t) PROVE TaskShape(u)'
    BY <1>8 DEF TaskCancel, DropPayload, TaskTypeOK, CallerTypeOK,
                PayloadShape, HandoffShape, EntryShape, Outside, InAdmission, Registered, Live
<1>9. ASSUME NEW t \in Tasks, Guard(t) PROVE TaskShape(u)'
    BY <1>9 DEF Guard, GuardRemove, GuardDecrement, GuardNotifyCapacity,
                GuardNotifyWaiters, TaskTypeOK, CallerTypeOK,
                PayloadShape, HandoffShape, EntryShape, Outside, InAdmission, Registered, Live
<1>10. ASSUME NEW c \in Closers, Close(c) \/ CloseNotifyCapacity(c) \/ CloseNotifyWaiters(c)
       PROVE  TaskShape(u)'
    BY <1>10 DEF Close, Shutdown, StopStore, CloseNotifyCapacity, CloseNotifyWaiters,
                 PayloadShape, HandoffShape, EntryShape, Live
<1>11. ASSUME NEW s \in Stoppers, StopSnapshot(s) PROVE TaskShape(u)'
    BY <1>11 DEF StopSnapshot, PayloadShape, HandoffShape, EntryShape, Live
<1>12. ASSUME NEW s \in Stoppers, StopTake(s) PROVE TaskShape(u)'
    BY <1>12 DEF StopTake, CloserShape, CallerTypeOK, PayloadShape, HandoffShape,
                 EntryShape, Live
<1>13. ASSUME NEW s \in Stoppers, NEW t \in Tasks, StopAbort(s, t) PROVE TaskShape(u)'
    BY <1>13 DEF StopAbort, CallerTypeOK, PayloadShape, HandoffShape, EntryShape, Live
<1>14. ASSUME NEW w \in Waiters, WaiterEnter(w) \/ Waiter(w) PROVE TaskShape(u)'
    BY <1>14 DEF WaiterEnter, Waiter, WaiterLoad, WaiterRead, WaiterWake,
                 PayloadShape, HandoffShape, EntryShape, Live
<1>15. ASSUME CloseRuntime \/ UNCHANGED vars PROVE TaskShape(u)'
    BY <1>15 DEF CloseRuntime, vars, PayloadShape, HandoffShape, EntryShape, Live
<1> QED BY <1>1, <1>2, <1>3, <1>4, <1>5, <1>6, <1>7, <1>8, <1>9, <1>10, <1>11, <1>12,
           <1>13, <1>14, <1>15
        DEF Next, Proceed, Submitter, Schedule, UserCode, Closer, Sweep
-----------------------------------------------------------------------------
(* Admission, closers and waiters.                                         *)

\* The lifecycle byte changes only by shutdown and stop, and never back to Running.
LEMMA ClosedForGood ==
    ASSUME [Next]_vars, is_not_running(lifecycle) PROVE is_not_running(lifecycle)'
<1> USE DEF is_not_running, load, from_u8
<1>1. ASSUME NEW c \in Closers, Close(c) PROVE is_not_running(lifecycle)'
      BY <1>1 DEF Close, Shutdown, StopStore, shutdown_bits, stop_bits, Running, Stopping,
                  Terminated
<1>2. ASSUME NEW t \in Tasks, Submit(t) \/ Submitter(t) \/ Guard(t)
      PROVE  lifecycle' = lifecycle
      BY <1>2 DEF Submit, SubmitRejected, SubmitCheck, Submitter, SubmitAccepted,
                  SubmitSpawn, SubmitRegister, SubmitDeliver, SubmitReturn, Guard, GuardRemove,
                  GuardDecrement, GuardNotifyCapacity, GuardNotifyWaiters
<1>3. ASSUME NEW t \in Tasks, Schedule(t) \/ UserCode(t) \/ Cancel(t)
      PROVE  lifecycle' = lifecycle
      BY <1>3 DEF Schedule, TaskPoll, TaskCancel, TaskFinish, UserCode, TaskPending,
                  TaskReady, Cancel
<1>4. ASSUME NEW c \in Closers, Closer(c) PROVE lifecycle' = lifecycle
      BY <1>4 DEF Closer, StopSnapshot, StopTake, Sweep, StopAbort, CloseNotifyCapacity,
                  CloseNotifyWaiters
<1>5. ASSUME NEW w \in Waiters, WaiterEnter(w) \/ Waiter(w) PROVE lifecycle' = lifecycle
      BY <1>5 DEF WaiterEnter, Waiter, WaiterLoad, WaiterRead, WaiterWake
<1>6. ASSUME CloseRuntime \/ UNCHANGED vars PROVE lifecycle' = lifecycle
      BY <1>6 DEF CloseRuntime, vars
<1> QED BY <1>1, <1>2, <1>3, <1>4, <1>5, <1>6 DEF Next, Proceed

\* submission_lock keeps admission exclusive and away from the closers.
LEMMA AdmissionNext ==
    ASSUME TypeOK, AdmissionShape, CloserShape, [Next]_vars
    PROVE  AdmissionShape'
<1> USE CapacityAssumption DEF TypeOK, AdmissionShape, InAdmission, HasCapacity
<1>1. ASSUME NEW t \in Tasks, SubmitRejected(t) PROVE AdmissionShape'
    BY <1>1 DEF SubmitRejected, CallerTypeOK
<1>2. ASSUME NEW t \in Tasks, SubmitCheck(t) PROVE AdmissionShape'
    BY <1>2 DEF SubmitCheck, lock_submission, AdmissionOpen, CallerTypeOK
<1>3. ASSUME NEW t \in Tasks, Submitter(t) PROVE AdmissionShape'
    BY <1>3 DEF Submitter, SubmitAccepted, SubmitSpawn, SubmitRegister, SubmitDeliver,
                SubmitReturn, CallerTypeOK
<1>4. ASSUME NEW t \in Tasks, Schedule(t) \/ UserCode(t) \/ Cancel(t) PROVE AdmissionShape'
    BY <1>4 DEF Schedule, TaskPoll, TaskCancel, TaskFinish, UserCode, TaskPending,
                TaskReady, Cancel
<1>5. ASSUME NEW t \in Tasks, Guard(t) PROVE AdmissionShape'
    BY <1>5 DEF Guard, GuardRemove, GuardDecrement, GuardNotifyCapacity,
                GuardNotifyWaiters, StateTypeOK
<1>6. ASSUME NEW c \in Closers, Close(c) PROVE AdmissionShape'
    BY <1>6 DEF Close, Shutdown, StopStore, lock_submission
<1>7. ASSUME NEW s \in Stoppers, StopSnapshot(s) PROVE AdmissionShape'
    BY <1>7 DEF StopSnapshot, CloserShape, Closers
<1>8. ASSUME NEW c \in Closers, \/ StopTake(c) \/ Sweep(c)
                                \/ CloseNotifyCapacity(c) \/ CloseNotifyWaiters(c)
      PROVE  AdmissionShape'
    BY <1>8 DEF StopTake, Sweep, StopAbort, CloseNotifyCapacity, CloseNotifyWaiters
<1>9. ASSUME NEW w \in Waiters, WaiterEnter(w) \/ Waiter(w) PROVE AdmissionShape'
    BY <1>9 DEF WaiterEnter, Waiter, WaiterLoad, WaiterRead, WaiterWake
<1>10. ASSUME CloseRuntime \/ UNCHANGED vars PROVE AdmissionShape'
    BY <1>10 DEF CloseRuntime, vars
<1> QED BY <1>1, <1>2, <1>3, <1>4, <1>5, <1>6, <1>7, <1>8, <1>9, <1>10
        DEF Next, Proceed, Submit, Closer

\* No entry is added once a stop has taken the map: a submitter that could add one would
\* be inside admission, which the stop has excluded.
LEMMA CloserNext ==
    ASSUME TypeOK, AdmissionShape, CloserShape, [Next]_vars
    PROVE  CloserShape'
<1> USE DEF TypeOK, CloserShape, Closers
<1>1. ASSUME NEW t \in Tasks, Submit(t) PROVE CloserShape'
    BY <1>1 DEF Submit, SubmitRejected, SubmitCheck
<1>2. ASSUME NEW t \in Tasks, SubmitRegister(t) PROVE CloserShape'
    BY <1>2 DEF SubmitRegister, AdmissionShape, InAdmission
<1>3. ASSUME NEW t \in Tasks, \/ SubmitAccepted(t) \/ SubmitSpawn(t)
                              \/ SubmitDeliver(t) \/ SubmitReturn(t)
      PROVE  CloserShape'
    BY <1>3 DEF SubmitAccepted, SubmitSpawn, SubmitDeliver, SubmitReturn
<1>4. ASSUME NEW t \in Tasks, Schedule(t) \/ UserCode(t) \/ Cancel(t) PROVE CloserShape'
    BY <1>4 DEF Schedule, TaskPoll, TaskCancel, TaskFinish, UserCode, TaskPending,
                TaskReady, Cancel
<1>5. ASSUME NEW t \in Tasks, Guard(t) PROVE CloserShape'
    BY <1>5 DEF Guard, GuardRemove, GuardDecrement, GuardNotifyCapacity,
                GuardNotifyWaiters
<1>6. ASSUME NEW c \in Closers, Shutdown(c) PROVE CloserShape'
  <2>1. is_not_running(lifecycle)'
        BY <1>6 DEF Shutdown, shutdown_bits, is_not_running, load, from_u8, Running,
                    ShuttingDown, Terminated
  <2>2. c \notin Stoppers
        BY <1>6, ClosersAssumption DEF Shutdown
  <2> QED BY <1>6, <2>1, <2>2 DEF Shutdown, CallerTypeOK
<1>7. ASSUME NEW s \in Closers, StopStore(s) PROVE CloserShape'
    BY <1>7 DEF StopStore, CallerTypeOK, stop_bits, is_not_running, load, from_u8, Running,
                Stopping, Terminated
<1>8. ASSUME NEW s \in Stoppers, StopSnapshot(s) PROVE CloserShape'
    BY <1>8 DEF StopSnapshot, CallerTypeOK
<1>9. ASSUME NEW s \in Stoppers, StopTake(s) PROVE CloserShape'
    BY <1>9 DEF StopTake, CallerTypeOK
<1>10. ASSUME NEW s \in Stoppers, NEW t \in Tasks, StopAbort(s, t) PROVE CloserShape'
    BY <1>10 DEF StopAbort, CallerTypeOK
<1>11. ASSUME NEW c \in Closers, CloseNotifyCapacity(c) \/ CloseNotifyWaiters(c)
       PROVE  CloserShape'
    BY <1>11 DEF CloseNotifyCapacity, CloseNotifyWaiters, CallerTypeOK
<1>12. ASSUME NEW w \in Waiters, WaiterEnter(w) \/ Waiter(w) PROVE CloserShape'
    BY <1>12 DEF WaiterEnter, Waiter, WaiterLoad, WaiterRead, WaiterWake
<1>13. ASSUME CloseRuntime \/ UNCHANGED vars PROVE CloserShape'
    BY <1>13 DEF CloseRuntime, vars
<1> QED BY <1>1, <1>2, <1>3, <1>4, <1>5, <1>6, <1>7, <1>8, <1>9, <1>10, <1>11, <1>12,
           <1>13
        DEF Next, Proceed, Submitter, Close, Closer, Sweep

-----------------------------------------------------------------------------
(* The counter.                                                            *)

\* Tasks is finite, so the tasks that occupy a unit are.
LEMMA UnfinishedFinite ==
    /\ IsFiniteSet(Unfinished) /\ Cardinality(Unfinished) \in Nat
    /\ IsFiniteSet(Unfinished') /\ Cardinality(Unfinished') \in Nat
<1>1. Unfinished \subseteq Tasks /\ Unfinished' \subseteq Tasks
      BY DEF Unfinished
<1> QED BY <1>1, TasksAssumption, FS_Subset, FS_CardinalityType

\* The two actions that write active_tasks.
CountingStep == \E t \in Tasks : SubmitAccepted(t) \/ GuardDecrement(t)

\* No other action writes the counter or moves a guard past its increment or decrement.
LEMMA OtherStepsKeepCount ==
    ASSUME TypeOK, \A t \in Tasks : TaskShape(t), [Next]_vars, ~CountingStep
    PROVE  active_tasks' = active_tasks /\ Unfinished' = Unfinished
<1> DEFINE Occupies(t) == guard[t] \in {"held", "dropping", "removed"}
           Kept == /\ active_tasks' = active_tasks
                   /\ \A t \in Tasks : Occupies(t)' <=> Occupies(t)
<1> USE DEF TypeOK, TaskTypeOK
<1>1. ASSUME NEW t \in Tasks, Submit(t) PROVE Kept
      BY <1>1 DEF Submit, SubmitRejected, SubmitCheck
<1>2. ASSUME NEW t \in Tasks, \/ SubmitSpawn(t) \/ SubmitRegister(t)
                              \/ SubmitDeliver(t) \/ SubmitReturn(t)
      PROVE  Kept
      BY <1>2 DEF SubmitSpawn, SubmitRegister, SubmitDeliver, SubmitReturn,
                  DropPayload, TaskShape, PayloadShape, InAdmission
<1>3. ASSUME NEW t \in Tasks, Schedule(t) \/ UserCode(t) \/ Cancel(t) PROVE Kept
      BY <1>3 DEF Schedule, TaskPoll, TaskCancel, TaskFinish, UserCode, TaskPending,
                  TaskReady, Cancel, DropPayload, TaskShape, PayloadShape, Live
<1>4. ASSUME NEW t \in Tasks, GuardRemove(t) PROVE Kept
      BY <1>4 DEF GuardRemove
<1>5. ASSUME NEW t \in Tasks, GuardNotifyCapacity(t) \/ GuardNotifyWaiters(t) PROVE Kept
      BY <1>5 DEF GuardNotifyCapacity, GuardNotifyWaiters
<1>6. ASSUME NEW c \in Closers, Close(c) \/ Closer(c) PROVE Kept
      BY <1>6 DEF Close, Shutdown, StopStore, Closer, StopSnapshot, StopTake, Sweep,
                  StopAbort, CloseNotifyCapacity, CloseNotifyWaiters
<1>7. ASSUME NEW w \in Waiters, WaiterEnter(w) \/ Waiter(w) PROVE Kept
      BY <1>7 DEF WaiterEnter, Waiter, WaiterLoad, WaiterRead, WaiterWake
<1>8. ASSUME CloseRuntime \/ UNCHANGED vars PROVE Kept
      BY <1>8 DEF CloseRuntime, vars
<1> HIDE DEF Kept
<1>9. Kept
      BY <1>1, <1>2, <1>3, <1>4, <1>5, <1>6, <1>7, <1>8
      DEF CountingStep, Next, Proceed, Submitter, Guard
<1> QED BY <1>9 DEF Kept, Unfinished

\* The unit that was seen free is still free when it is taken, by AdmissionShape; the
\* decrement is of a task that is counted.
LEMMA CountNext ==
    ASSUME TypeOK, \A t \in Tasks : TaskShape(t), AdmissionShape, ActiveExact, [Next]_vars
    PROVE  ActiveExact'
<1> USE CapacityAssumption DEF TypeOK, TaskTypeOK
<1>1. ASSUME NEW t \in Tasks, SubmitAccepted(t) PROVE ActiveExact'
  <2>1. t \notin Unfinished
        BY <1>1 DEF Unfinished, SubmitAccepted, TaskShape, PayloadShape, Outside
  <2>2. Unfinished' = Unfinished \cup {t}
        BY <1>1, <2>1 DEF Unfinished, SubmitAccepted
  <2>3. Cardinality(Unfinished') = Cardinality(Unfinished) + 1
        BY <2>1, <2>2, UnfinishedFinite, FS_AddElement
  <2>4. active_tasks' = active_tasks + 1 /\ active_tasks < Capacity
        BY <1>1 DEF SubmitAccepted, AdmissionShape, HasCapacity
  <2> QED BY <2>3, <2>4, UnfinishedFinite DEF ActiveExact
<1>2. ASSUME NEW t \in Tasks, GuardDecrement(t) PROVE ActiveExact'
  <2>1. t \in Unfinished
        BY <1>2 DEF Unfinished, GuardDecrement
  <2>2. Unfinished' = Unfinished \ {t}
        BY <1>2, <2>1 DEF Unfinished, GuardDecrement
  <2>3. Cardinality(Unfinished') = Cardinality(Unfinished) - 1
        BY <2>1, <2>2, UnfinishedFinite, FS_RemoveElement
  <2>4. active_tasks' = active_tasks - 1
        BY <1>2 DEF GuardDecrement
  <2> QED BY <2>3, <2>4, UnfinishedFinite DEF ActiveExact
<1>3. CASE ~CountingStep
      BY <1>3, OtherStepsKeepCount DEF ActiveExact
<1> QED BY <1>1, <1>2, <1>3 DEF CountingStep

\* When the counter is zero no guard is between acceptance and its decrement.
LEMMA EmptyCount ==
    ASSUME ActiveExact, active_tasks = 0 PROVE Unfinished = {}
BY UnfinishedFinite, FS_EmptySet DEF ActiveExact

\* A terminated service stays terminated: it accepts nothing, and there is no guard
\* left that could decrement the counter.
LEMMA TerminatedNext ==
    ASSUME TypeOK, \A t \in Tasks : TaskShape(t), AdmissionShape, ActiveExact, [Next]_vars,
           is_terminated
    PROVE  is_terminated'
<1>1. is_not_running(lifecycle)'
      BY ClosedForGood DEF is_terminated
<1>2. ASSUME NEW t \in Tasks, SubmitAccepted(t) PROVE FALSE
      BY <1>2 DEF SubmitAccepted, AdmissionShape, is_terminated
<1>3. ASSUME NEW t \in Tasks, GuardDecrement(t) PROVE FALSE
      BY <1>3, EmptyCount DEF GuardDecrement, is_terminated, Unfinished
<1>4. active_tasks' = active_tasks
      BY <1>2, <1>3, OtherStepsKeepCount DEF CountingStep
<1> QED BY <1>1, <1>4 DEF is_terminated

\* A waiter reads the counter only after it has loaded a byte that is never Running
\* again, so what it returns on is termination, and termination lasts.
LEMMA WaiterNext ==
    ASSUME TypeOK, \A t \in Tasks : TaskShape(t), AdmissionShape, ActiveExact, WaiterShape,
           [Next]_vars
    PROVE  WaiterShape'
<1> SUFFICES ASSUME NEW v \in Waiters
             PROVE  /\ waiter'[v] = "read" => is_not_running(lifecycle)'
                    /\ waiter'[v] = "done" => is_terminated'
    BY DEF WaiterShape
<1>1. CASE waiter'[v] = waiter[v]
      BY <1>1, ClosedForGood, TerminatedNext DEF WaiterShape
<1>2. ASSUME NEW w \in Waiters, WaiterEnter(w) \/ WaiterWake(w), waiter'[v] # waiter[v]
      PROVE  waiter'[v] = "load"
      BY <1>2 DEF WaiterEnter, WaiterWake, TypeOK, CallerTypeOK
<1>3. ASSUME NEW w \in Waiters, WaiterLoad(w), waiter'[v] # waiter[v]
      PROVE  /\ waiter'[v] \in {"read", "await"}
             /\ waiter'[v] = "read" => is_not_running(lifecycle)
      BY <1>3 DEF WaiterLoad, TypeOK, CallerTypeOK
<1>4. ASSUME NEW w \in Waiters, WaiterRead(w), waiter'[v] # waiter[v]
      PROVE  /\ waiter'[v] \in {"done", "await"}
             /\ waiter'[v] = "done" => is_terminated
      BY <1>4 DEF WaiterRead, TypeOK, CallerTypeOK, WaiterShape, is_terminated
<1>5. CASE \E w \in Waiters : WaiterEnter(w) \/ Waiter(w)
      BY <1>1, <1>2, <1>3, <1>4, <1>5, ClosedForGood, TerminatedNext DEF Waiter
<1>6. ASSUME NEW t \in Tasks, Submit(t) \/ Submitter(t) \/ Guard(t)
      PROVE  waiter' = waiter
      BY <1>6 DEF Submit, SubmitRejected, SubmitCheck, Submitter, SubmitAccepted,
                  SubmitSpawn, SubmitRegister, SubmitDeliver, SubmitReturn, Guard, GuardRemove,
                  GuardDecrement, GuardNotifyCapacity, GuardNotifyWaiters
<1>7. ASSUME NEW t \in Tasks, Schedule(t) \/ UserCode(t) \/ Cancel(t)
      PROVE  waiter' = waiter
      BY <1>7 DEF Schedule, TaskPoll, TaskCancel, TaskFinish, UserCode, TaskPending,
                  TaskReady, Cancel
<1>8. ASSUME NEW c \in Closers, Close(c) \/ Closer(c) PROVE waiter' = waiter
      BY <1>8 DEF Close, Shutdown, StopStore, Closer, StopSnapshot, StopTake, Sweep,
                  StopAbort, CloseNotifyCapacity, CloseNotifyWaiters
<1>9. ASSUME CloseRuntime \/ UNCHANGED vars PROVE waiter' = waiter
      BY <1>9 DEF CloseRuntime, vars
<1> QED BY <1>1, <1>5, <1>6, <1>7, <1>8, <1>9 DEF Next, Proceed

-----------------------------------------------------------------------------
(* The inductive invariant and what it implies.                            *)

\* The initial state satisfies the inductive invariant.
LEMMA IndInvInit == Init => IndInv
<1> SUFFICES ASSUME Init PROVE IndInv
    OBVIOUS
<1>1. TypeOK
  <2>1. StateTypeOK
    <3>1. submission_lock \in BOOLEAN /\ abort_handles \subseteq Tasks /\ marker \subseteq Tasks
          BY DEF Init
    <3>2. /\ lifecycle \in {Running, ShuttingDown, Stopping}
          /\ active_tasks \in Int /\ capacity_tx \in Nat /\ termination_notify \in Nat
          BY DEF Init
    <3> QED BY <3>1, <3>2 DEF StateTypeOK
  <2>2. TaskTypeOK   BY DEF Init, TaskTypeOK
  <2>3. CallerTypeOK BY DEF Init, CallerTypeOK
  <2> QED BY <2>1, <2>2, <2>3 DEF TypeOK
<1>2. ASSUME NEW t \in Tasks PROVE TaskShape(t)
      BY DEF Init, TaskShape, PayloadShape, HandoffShape, EntryShape, Outside, InAdmission,
             Registered, Live
<1>3. AdmissionShape /\ CloserShape /\ WaiterShape
      BY DEF Init, AdmissionShape, CloserShape, WaiterShape, InAdmission, Closers
<1>4. Unfinished = {}
      BY DEF Init, Unfinished
<1>5. ActiveExact
      BY <1>4, FS_EmptySet, CapacityAssumption DEF Init, ActiveExact
<1> QED BY <1>1, <1>2, <1>3, <1>5 DEF IndInv

\* Every step preserves the inductive invariant.
LEMMA IndInvNext == IndInv /\ [Next]_vars => IndInv'
<1> SUFFICES ASSUME IndInv, [Next]_vars PROVE IndInv'
    OBVIOUS
<1>1. TypeOK' BY TypeNext DEF IndInv
<1>2. ASSUME NEW t \in Tasks PROVE TaskShape(t)'
      BY ShapeNext DEF IndInv
<1>3. AdmissionShape' /\ CloserShape'
      BY AdmissionNext, CloserNext DEF IndInv
<1>4. ActiveExact' BY CountNext DEF IndInv
<1>5. WaiterShape' BY WaiterNext DEF IndInv
<1> QED BY <1>1, <1>2, <1>3, <1>4, <1>5 DEF IndInv

\* The inductive invariant holds in every reachable state.
THEOREM IoInvariance == Spec => []IndInv
BY IndInvInit, IndInvNext, PTL DEF Spec

\* active_tasks counts exactly the tasks between acceptance and the decrement of their
\* guard, and never exceeds the capacity, although try_accept_task reads it and increments
\* it in two steps: AdmissionShape keeps every other submitter out between them.
THEOREM IoExactAccounting == Spec => []ActiveExact
<1>1. IndInv => ActiveExact
      BY DEF IndInv
<1> QED BY <1>1, IoInvariance, PTL

\* Only unfinished tasks have an entry in the abort map.
THEOREM IoLiveAbortEntries == Spec => []AbortEntriesLive
<1>1. IndInv => AbortEntriesLive
      BY DEF IndInv, TypeOK, StateTypeOK, TaskShape, EntryShape, AbortEntriesLive
<1> QED BY <1>1, IoInvariance, PTL

\* When the service reports Terminated every accepted user future has been destroyed.
THEOREM IoTerminatedDestroysFutures == Spec => []TerminatedDestroysFutures
<1>1. ASSUME IndInv, is_terminated, NEW t \in Tasks
      PROVE  future[t] \in {"none", "gone", "discarded"}
  <2>1. t \notin Unfinished
        BY <1>1, EmptyCount DEF IndInv, is_terminated
  <2> QED BY <1>1, <2>1 DEF IndInv, TypeOK, TaskTypeOK, TaskShape, PayloadShape, Unfinished
<1>2. IndInv => TerminatedDestroysFutures
      BY <1>1 DEF TerminatedDestroysFutures
<1> QED BY <1>2, IoInvariance, PTL

\* A caller that holds the handle and sees the task finished finds its unit released.
THEOREM IoResultImpliesReleased == Spec => []ResultImpliesReleased
<1>1. IndInv => ResultImpliesReleased
      BY DEF IndInv, TaskShape, HandoffShape, ResultImpliesReleased, Unfinished
<1> QED BY <1>1, IoInvariance, PTL

\* No accepted task escapes the sweep of a stop that has returned.
THEOREM IoStopReachesEveryTask == Spec => []StopReachesEveryTask
<1>1. ASSUME IndInv, NEW s \in Stoppers, closer[s] = "done", NEW t \in Tasks, Live(t)
      PROVE  t \in aborted \/ \E r \in Stoppers : t \in handles[r]
  <2>1. abort_handles = {} /\ is_not_running(lifecycle)
        BY <1>1 DEF IndInv, CloserShape, Closers
  <2>2. submitter[t] \notin InAdmission
        BY <1>1, <2>1 DEF IndInv, AdmissionShape
  <2>3. submitter[t] \in Registered
        BY <1>1, <2>2 DEF IndInv, TypeOK, CallerTypeOK, TaskShape, HandoffShape, Live,
                          Outside, InAdmission, Registered
  <2> QED BY <1>1, <2>1, <2>3 DEF IndInv, TaskShape, EntryShape
<1>2. IndInv => StopReachesEveryTask
      BY <1>1 DEF StopReachesEveryTask, Live
<1> QED BY <1>2, IoInvariance, PTL

\* await_termination returns only when the service is terminated for good.
THEOREM IoWaitersSeeTermination == Spec => []WaitersSeeTermination
<1>1. IndInv => WaitersSeeTermination
      BY DEF IndInv, WaiterShape, WaitersSeeTermination
<1> QED BY <1>1, IoInvariance, PTL

-----------------------------------------------------------------------------
(* The service implements ExecutorServiceSpec.                             *)

\* The initial states map to initial states.
LEMMA AbstractInit == Init => Abstract!Init
<1> SUFFICES ASSUME Init PROVE Abstract!Init
    OBVIOUS
<1>1. ~is_not_running(lifecycle)
      BY DEF Init, is_not_running, load, from_u8, Running, Terminated
<1>2. Unfinished = {} /\ ~(\E w \in Waiters : waiter[w] = "done")
      BY DEF Init, Unfinished
<1>3. [t \in Tasks |-> PhaseOf(t)] = [t \in Tasks |-> "new"]
      BY DEF Init, PhaseOf
<1> QED BY <1>1, <1>2, <1>3 DEF Abstract!Init

\* What the mapping makes of a step that moves the futures and guards of at most one
\* task: the phases of the others are the same.
LEMMA PhaseStep ==
    ASSUME NEW t \in Tasks, NEW p, PhaseOf(t)' = p,
           \A u \in Tasks \ {t} : future'[u] = future[u]
    PROVE  [u \in Tasks |-> PhaseOf(u)]' = [[u \in Tasks |-> PhaseOf(u)] EXCEPT ![t] = p]
<1>1. ASSUME NEW u \in Tasks \ {t} PROVE PhaseOf(u)' = PhaseOf(u)
      BY <1>1 DEF PhaseOf
<1> QED BY <1>1

\* A step that changes neither byte, guard, future nor waiter is a stutter.
LEMMA StutterStep ==
    ASSUME UNCHANGED <<lifecycle, guard, future, waiter>>
    PROVE  UNCHANGED Abstract!vars
<1>1. (~is_not_running(lifecycle))' = ~is_not_running(lifecycle)
      BY DEF is_not_running, load, from_u8
<1>2. Unfinished' = Unfinished
      BY DEF Unfinished
<1>3. [t \in Tasks |-> PhaseOf(t)]' = [t \in Tasks |-> PhaseOf(t)]
      BY DEF PhaseOf
<1>4. (\E w \in Waiters : waiter[w] = "done")' = \E w \in Waiters : waiter[w] = "done"
      OBVIOUS
<1> QED BY <1>1, <1>2, <1>3, <1>4 DEF Abstract!vars

\* The increment is the abstract Accept: the exact counter makes the code's comparison
\* with task_capacity the abstract one, and it still holds when the increment comes.
LEMMA AcceptStep ==
    ASSUME IndInv, NEW t \in Tasks, SubmitAccepted(t) PROVE Abstract!Accept(t)
<1> USE DEF IndInv, TypeOK, TaskTypeOK, SubmitAccepted
<1>1. ~is_not_running(lifecycle) /\ Cardinality(Unfinished) < Capacity
      BY DEF AdmissionShape, HasCapacity, ActiveExact
<1>2. PhaseOf(t) = "new" /\ PhaseOf(t)' = "pending"
      BY DEF TaskShape, PayloadShape, Outside, PhaseOf
<1>3. Unfinished' = Unfinished \cup {t}
      BY DEF Unfinished
<1>4. [u \in Tasks |-> PhaseOf(u)]' = [[u \in Tasks |-> PhaseOf(u)] EXCEPT ![t] = "pending"]
      BY <1>2, PhaseStep
<1>5. /\ (~is_not_running(lifecycle))' = ~is_not_running(lifecycle)
      /\ (\E w \in Waiters : waiter[w] = "done")' = \E w \in Waiters : waiter[w] = "done"
      BY DEF is_not_running, load, from_u8
<1>6. Abstract!Cardinality(Unfinished) = Cardinality(Unfinished)
      BY DEF Cardinality, Abstract!Cardinality
<1> HIDE DEF SubmitAccepted, IndInv
<1> QED BY <1>1, <1>2, <1>3, <1>4, <1>5, <1>6 DEF Abstract!Accept

\* The facts a step of the payload of t has in common: nothing abstract but the phase of
\* t can change.
LEMMA PayloadStep ==
    ASSUME NEW t \in Tasks, NEW p, PhaseOf(t)' = p, UNCHANGED <<lifecycle, waiter>>,
           \A u \in Tasks \ {t} : future'[u] = future[u],
           \A u \in Tasks : (u \in Unfinished)' <=> u \in Unfinished
    PROVE  /\ [u \in Tasks |-> PhaseOf(u)]' = [[u \in Tasks |-> PhaseOf(u)] EXCEPT ![t] = p]
           /\ (~is_not_running(lifecycle))' = ~is_not_running(lifecycle)
           /\ Unfinished' = Unfinished
           /\ (\E w \in Waiters : waiter[w] = "done")' = \E w \in Waiters : waiter[w] = "done"
<1>1. (~is_not_running(lifecycle))' = ~is_not_running(lifecycle)
      BY DEF is_not_running, load, from_u8
<1>2. Unfinished' = Unfinished
      BY DEF Unfinished
<1> QED BY <1>1, <1>2, PhaseStep

\* Destroying the payload is the abstract Leave of a future that was polled, and the
\* abstract Withdraw of one that was not.
LEMMA DropStep ==
    ASSUME IndInv, NEW t \in Tasks, DropPayload(t), UNCHANGED <<lifecycle, waiter>>,
           guard[t] = "held", future[t] \in {"caller", "channel", "task"}
    PROVE  Abstract!Leave(t) \/ Abstract!Withdraw(t)
<1> USE DEF IndInv, TypeOK, TaskTypeOK, DropPayload
<1>1. /\ \A u \in Tasks \ {t} : future'[u] = future[u]
      /\ \A u \in Tasks : (u \in Unfinished)' <=> u \in Unfinished
      BY DEF Unfinished
<1>2. CASE future[t] = "task"
  <2>1. PhaseOf(t) = "inside" /\ PhaseOf(t)' = "completed"
        BY <1>2 DEF PhaseOf
  <2> QED BY <1>1, <2>1, PayloadStep DEF Abstract!Leave
<1>3. CASE future[t] \in {"caller", "channel"}
  <2>1. PhaseOf(t) = "pending" /\ PhaseOf(t)' = "withdrawn"
        BY <1>3 DEF PhaseOf
  <2> QED BY <1>1, <2>1, PayloadStep DEF Abstract!Withdraw
<1> QED BY <1>2, <1>3

\* The steps of a submitter that has passed the tests.
LEMMA SubmitterStep ==
    ASSUME IndInv, NEW t \in Tasks, Submitter(t) PROVE [Abstract!Next]_(Abstract!vars)
<1>1. ASSUME SubmitSpawn(t) \/ SubmitRegister(t) \/ SubmitReturn(t)
      PROVE  UNCHANGED <<lifecycle, guard, future, waiter>>
      BY <1>1 DEF SubmitSpawn, SubmitRegister, SubmitReturn
<1>2. ASSUME SubmitDeliver(t), channel[t] = "open" PROVE UNCHANGED Abstract!vars
  <2>1. PhaseOf(t) = "pending" /\ PhaseOf(t)' = "pending"
        BY <1>2 DEF SubmitDeliver, PhaseOf, IndInv, TypeOK, TaskTypeOK, TaskShape,
                    PayloadShape
  <2>2. /\ \A u \in Tasks \ {t} : future'[u] = future[u]
        /\ \A u \in Tasks : (u \in Unfinished)' <=> u \in Unfinished
        /\ UNCHANGED <<lifecycle, waiter>>
        BY <1>2 DEF SubmitDeliver, IndInv, TypeOK, TaskTypeOK, Unfinished
  <2> QED BY <2>1, <2>2, PayloadStep DEF Abstract!vars
<1>3. ASSUME SubmitDeliver(t), channel[t] = "closed"
      PROVE  Abstract!Leave(t) \/ Abstract!Withdraw(t)
  <2>1. guard[t] = "held" /\ future[t] \in {"caller", "channel", "task"}
        BY <1>3 DEF SubmitDeliver, IndInv, TaskShape, PayloadShape
  <2> QED BY <1>3, <2>1, DropStep DEF SubmitDeliver
<1> QED BY <1>1, <1>2, <1>3, AcceptStep, StutterStep
        DEF Submitter, SubmitDeliver, Abstract!Next

\* The steps of Tokio's task.
LEMMA TaskStep ==
    ASSUME IndInv, NEW t \in Tasks, Schedule(t) \/ UserCode(t) \/ Cancel(t)
    PROVE  [Abstract!Next]_(Abstract!vars)
<1> USE DEF IndInv, TypeOK, TaskTypeOK
<1>1. ASSUME TaskPending(t) \/ TaskFinish(t) \/ Cancel(t)
      PROVE  UNCHANGED <<lifecycle, guard, future, waiter>>
      BY <1>1 DEF TaskPending, TaskFinish, Cancel
<1>2. ASSUME TaskPoll(t) PROVE Abstract!Enter(t) \/ UNCHANGED Abstract!vars
  <2>1. /\ \A u \in Tasks \ {t} : future'[u] = future[u]
        /\ \A u \in Tasks : (u \in Unfinished)' <=> u \in Unfinished
        /\ UNCHANGED <<lifecycle, waiter>>
        BY <1>2 DEF TaskPoll, Unfinished
  <2>2. PhaseOf(t)' = "inside"
        BY <1>2 DEF TaskPoll, PhaseOf
  <2>3. CASE task[t] = "waiting"
    <3>1. t \in Unfinished /\ PhaseOf(t) = "pending"
          BY <1>2, <2>3 DEF TaskPoll, TaskShape, PayloadShape, Live, Unfinished, PhaseOf
    <3> QED BY <2>1, <2>2, <3>1, PayloadStep DEF Abstract!Enter
  <2>4. CASE task[t] = "suspended"
    <3>1. PhaseOf(t) = "inside"
          BY <2>4 DEF TaskShape, PayloadShape, PhaseOf
    <3>2. [[u \in Tasks |-> PhaseOf(u)] EXCEPT ![t] = "inside"] = [u \in Tasks |-> PhaseOf(u)]
          BY <3>1
    <3> QED BY <2>1, <2>2, <3>2, PayloadStep DEF Abstract!vars
  <2> QED BY <1>2, <2>3, <2>4 DEF TaskPoll
<1>3. ASSUME TaskReady(t) PROVE Abstract!Leave(t) \/ Abstract!Withdraw(t)
  <2>1. guard[t] = "held" /\ future[t] \in {"caller", "channel", "task"}
        BY <1>3 DEF TaskReady, TaskShape, PayloadShape, Live
  <2> QED BY <1>3, <2>1, DropStep DEF TaskReady
<1>4. ASSUME TaskCancel(t)
      PROVE  \/ Abstract!Leave(t) \/ Abstract!Withdraw(t)
             \/ UNCHANGED <<lifecycle, guard, future, waiter>>
  <2>1. CASE UNCHANGED loadVars
        BY <1>4, <2>1 DEF TaskCancel
  <2>2. CASE DropPayload(t) /\ ((task[t] = "waiting" /\ channel[t] = "sent")
                                \/ task[t] = "suspended")
    <3>1. guard[t] = "held" /\ future[t] \in {"caller", "channel", "task"}
          BY <2>2 DEF TaskShape, PayloadShape, Live
    <3> QED BY <1>4, <2>2, <3>1, DropStep DEF TaskCancel
  <2> QED BY <1>4, <2>1, <2>2 DEF TaskCancel
<1> QED BY <1>1, <1>2, <1>3, <1>4, StutterStep DEF Schedule, UserCode, Abstract!Next

\* The guard's decrement is the abstract Free: the future is destroyed by then.
LEMMA GuardStep ==
    ASSUME IndInv, NEW t \in Tasks, Guard(t) PROVE [Abstract!Next]_(Abstract!vars)
<1> USE DEF IndInv, TypeOK, TaskTypeOK
<1>1. [u \in Tasks |-> PhaseOf(u)]' = [u \in Tasks |-> PhaseOf(u)]
      BY DEF Guard, GuardRemove, GuardDecrement, GuardNotifyCapacity, GuardNotifyWaiters,
             PhaseOf
<1>2. /\ (~is_not_running(lifecycle))' = ~is_not_running(lifecycle)
      /\ (\E w \in Waiters : waiter[w] = "done")' = \E w \in Waiters : waiter[w] = "done"
      BY DEF Guard, GuardRemove, GuardDecrement, GuardNotifyCapacity, GuardNotifyWaiters,
             is_not_running, load, from_u8
<1>3. ASSUME GuardDecrement(t) PROVE Abstract!Free(t)
  <2>1. t \in Unfinished /\ Unfinished' = Unfinished \ {t}
        BY <1>3 DEF GuardDecrement, Unfinished
  <2>2. PhaseOf(t) # "inside"
        BY <1>3 DEF GuardDecrement, TaskShape, PayloadShape, PhaseOf
  <2> QED BY <1>1, <1>2, <2>1, <2>2 DEF Abstract!Free
<1>4. ASSUME GuardRemove(t) \/ GuardNotifyCapacity(t) \/ GuardNotifyWaiters(t)
      PROVE  UNCHANGED Abstract!vars
  <2>1. Unfinished' = Unfinished
        BY <1>4 DEF GuardRemove, GuardNotifyCapacity, GuardNotifyWaiters, Unfinished
  <2> QED BY <1>1, <1>2, <2>1 DEF Abstract!vars
<1> QED BY <1>3, <1>4 DEF Guard, Abstract!Next

\* shutdown and stop are the abstract Close, at the store of the byte.
LEMMA CloseStep ==
    ASSUME NEW c \in Closers, Close(c) PROVE Abstract!Close
<1>1. is_not_running(lifecycle)'
      BY DEF Close, Shutdown, StopStore, shutdown_bits, stop_bits, is_not_running, load,
             from_u8, Running, ShuttingDown, Stopping, Terminated
<1>2. UNCHANGED <<guard, future, waiter>>
      BY DEF Close, Shutdown, StopStore
<1>3. /\ Unfinished' = Unfinished
      /\ [t \in Tasks |-> PhaseOf(t)]' = [t \in Tasks |-> PhaseOf(t)]
      /\ (\E w \in Waiters : waiter[w] = "done")' = \E w \in Waiters : waiter[w] = "done"
      BY <1>2 DEF Unfinished, PhaseOf
<1> QED BY <1>1, <1>3 DEF Abstract!Close

\* A waiter that finds the counter at zero is the abstract Signal.
LEMMA WaiterStep ==
    ASSUME IndInv, NEW w \in Waiters, WaiterEnter(w) \/ Waiter(w)
    PROVE  [Abstract!Next]_(Abstract!vars)
<1> USE DEF IndInv, TypeOK, CallerTypeOK
<1>1. UNCHANGED <<lifecycle, guard, future>>
      BY DEF WaiterEnter, Waiter, WaiterLoad, WaiterRead, WaiterWake
<1>2. /\ (~is_not_running(lifecycle))' = ~is_not_running(lifecycle)
      /\ Unfinished' = Unfinished
      /\ [t \in Tasks |-> PhaseOf(t)]' = [t \in Tasks |-> PhaseOf(t)]
      BY <1>1 DEF Unfinished, PhaseOf, is_not_running, load, from_u8
<1>3. CASE WaiterRead(w) /\ active_tasks = 0
  <2>1. waiter'[w] = "done"
        BY <1>3 DEF WaiterRead
  <2>2. is_not_running(lifecycle)
        BY <1>3 DEF WaiterRead, WaiterShape
  <2>3. Unfinished = {}
        BY <1>3, EmptyCount
  <2> QED BY <1>2, <2>1, <2>2, <2>3 DEF Abstract!Next, Abstract!Signal
<1>4. CASE ~(WaiterRead(w) /\ active_tasks = 0)
  <2>1. \A v \in Waiters : waiter'[v] = "done" <=> waiter[v] = "done"
        BY <1>4 DEF WaiterEnter, Waiter, WaiterLoad, WaiterRead, WaiterWake
  <2>2. (\E v \in Waiters : waiter[v] = "done")' = \E v \in Waiters : waiter[v] = "done"
        BY <2>1
  <2> QED BY <1>2, <2>2 DEF Abstract!vars
<1> QED BY <1>3, <1>4

\* Every step maps to an abstract step or to a stutter.
LEMMA AbstractNext == IndInv /\ [Next]_vars => [Abstract!Next]_(Abstract!vars)
<1> SUFFICES ASSUME IndInv, [Next]_vars PROVE [Abstract!Next]_(Abstract!vars)
    OBVIOUS
<1>1. ASSUME NEW t \in Tasks, Submit(t) PROVE UNCHANGED Abstract!vars
      BY <1>1, StutterStep DEF Submit, SubmitRejected, SubmitCheck
<1>2. ASSUME NEW c \in Closers, Close(c) PROVE Abstract!Next
      BY <1>2, CloseStep DEF Abstract!Next
<1>3. ASSUME NEW c \in Closers, Closer(c) PROVE UNCHANGED Abstract!vars
      BY <1>3, StutterStep DEF Closer, StopSnapshot, StopTake, Sweep, StopAbort,
                               CloseNotifyCapacity, CloseNotifyWaiters
<1>4. ASSUME CloseRuntime \/ UNCHANGED vars PROVE UNCHANGED Abstract!vars
      BY <1>4, StutterStep DEF CloseRuntime, vars
<1> QED BY <1>1, <1>2, <1>3, <1>4, SubmitterStep, TaskStep, GuardStep, WaiterStep
        DEF Next, Proceed

\* Through the mapping, every behaviour of the IO service is one of the abstract service.
THEOREM IoImplementsExecutorService == Spec => ImplementsExecutorService
BY AbstractInit, AbstractNext, IoInvariance, PTL
DEF Spec, ImplementsExecutorService, Abstract!Spec

-----------------------------------------------------------------------------
(* Producers that retry: no change of the capacity is missed.              *)

\* What a producer that sleeps may rely on: the service is open and full, or somebody
\* has yet to publish a change.
Excused ==
    \/ AdmissionOpen /\ ~HasCapacity
    \/ \E u \in Tasks : guard[u] = "released"
    \/ \E c \in Closers : closer[c] \in {"stored", "snapshotted", "sweep", "capacity"}

\* The inductive invariant of the composition: a receiver has seen no version that has
\* not been published, and whoever sleeps on the current one is excused.
RetryInv ==
    /\ IndInv
    /\ producer \in [Tasks -> {"start", "try", "changed", "accepted", "refused"}]
    /\ changes \in [Tasks -> Nat]
    /\ \A t \in Tasks : changes[t] <= capacity_tx
    /\ NoMissedChange

\* The watch channel only moves forward, and a step that does not move it leaves a
\* sleeping producer excused.
LEMMA ExcusedNext ==
    ASSUME IndInv, [Next]_vars
    PROVE  \/ capacity_tx' = capacity_tx + 1
           \/ capacity_tx' = capacity_tx /\ (Excused => Excused')
<1> DEFINE Goal == \/ capacity_tx' = capacity_tx + 1
                   \/ capacity_tx' = capacity_tx /\ (Excused => Excused')
<1> USE CapacityAssumption
        DEF IndInv, TypeOK, AdmissionOpen, HasCapacity, Excused, is_not_running, load, from_u8
<1>1. ASSUME NEW t \in Tasks, Submit(t) PROVE Goal
      BY <1>1 DEF Submit, SubmitRejected, SubmitCheck
<1>2. ASSUME NEW t \in Tasks, Submitter(t) PROVE Goal
  <2>1. ASSUME SubmitAccepted(t) PROVE Goal
    <3>1. ASSUME NEW u \in Tasks, guard[u] = "released" PROVE guard'[u] = "released"
          BY <2>1, <3>1 DEF SubmitAccepted, TaskTypeOK, TaskShape, PayloadShape, Outside
    <3> QED BY <2>1, <3>1 DEF SubmitAccepted, StateTypeOK
  <2>2. ASSUME \/ SubmitSpawn(t) \/ SubmitRegister(t) \/ SubmitDeliver(t)
               \/ SubmitReturn(t)
        PROVE  Goal
        BY <2>2 DEF SubmitSpawn, SubmitRegister, SubmitDeliver, SubmitReturn, DropPayload,
                    TaskTypeOK, TaskShape, PayloadShape, InAdmission
  <2> QED BY <1>2, <2>1, <2>2 DEF Submitter
<1>3. ASSUME NEW t \in Tasks, Schedule(t) \/ UserCode(t) \/ Cancel(t) PROVE Goal
      BY <1>3 DEF Schedule, TaskPoll, TaskCancel, TaskFinish, UserCode, TaskPending,
                  TaskReady, Cancel, DropPayload, TaskTypeOK, TaskShape, PayloadShape, Live
<1>4. ASSUME NEW t \in Tasks, Guard(t) PROVE Goal
      BY <1>4 DEF Guard, GuardRemove, GuardDecrement, GuardNotifyCapacity,
                  GuardNotifyWaiters, TaskTypeOK
<1>5. ASSUME NEW c \in Closers, Close(c) PROVE Goal
      BY <1>5 DEF Close, Shutdown, StopStore, CallerTypeOK
<1>6. ASSUME NEW s \in Stoppers, StopSnapshot(s) \/ StopTake(s) PROVE Goal
      BY <1>6 DEF StopSnapshot, StopTake, CallerTypeOK, Closers
<1>7. ASSUME NEW c \in Closers, Sweep(c) PROVE Goal
      BY <1>7 DEF Sweep, StopAbort
<1>8. ASSUME NEW c \in Closers, CloseNotifyCapacity(c) \/ CloseNotifyWaiters(c) PROVE Goal
      BY <1>8 DEF CloseNotifyCapacity, CloseNotifyWaiters, CallerTypeOK
<1>9. ASSUME NEW w \in Waiters, WaiterEnter(w) \/ Waiter(w) PROVE Goal
      BY <1>9 DEF WaiterEnter, Waiter, WaiterLoad, WaiterRead, WaiterWake
<1>10. ASSUME CloseRuntime \/ UNCHANGED vars PROVE Goal
      BY <1>10 DEF CloseRuntime, vars
<1> HIDE DEF Goal
<1>11. Goal
      BY <1>1, <1>2, <1>3, <1>4, <1>5, <1>6, <1>7, <1>8, <1>9, <1>10
      DEF Next, Proceed, Closer
<1> QED BY <1>11 DEF Goal

\* A step of the composition is, for the service, a step of its own specification.
LEMMA RetryIsNext == [RetryNext]_allVars => [Next]_vars
BY DEF RetryNext, allVars, Subscribe, Producer, Attempt, Changed, Next

\* The initial state satisfies the invariant.
LEMMA RetryInit_Inv == RetryInit => RetryInv
<1> SUFFICES ASSUME RetryInit PROVE RetryInv
    OBVIOUS
<1>1. IndInv
      BY IndInvInit DEF RetryInit
<1> QED BY <1>1 DEF RetryInit, Init, RetryInv, NoMissedChange

\* Every step preserves it.
LEMMA RetryNext_Inv == RetryInv /\ [RetryNext]_allVars => RetryInv'
<1> SUFFICES ASSUME RetryInv, [RetryNext]_allVars PROVE RetryInv'
    OBVIOUS
<1>1. IndInv'
      BY RetryIsNext, IndInvNext DEF RetryInv
<1>2. \/ capacity_tx' = capacity_tx + 1
      \/ capacity_tx' = capacity_tx /\ (Excused => Excused')
      BY RetryIsNext, ExcusedNext DEF RetryInv
<1>3. capacity_tx \in Nat
      BY DEF RetryInv, IndInv, TypeOK, StateTypeOK
<1>4. ASSUME NEW t \in Tasks,
             producer[t] = "changed" /\ changes[t] = capacity_tx PROVE Excused
      BY <1>4 DEF RetryInv, NoMissedChange, Excused
<1> DEFINE Goal ==
      /\ producer' \in [Tasks -> {"start", "try", "changed", "accepted", "refused"}]
      /\ changes' \in [Tasks -> Nat]
      /\ \A t \in Tasks : changes'[t] <= capacity_tx'
      /\ \A t \in Tasks : producer'[t] = "changed" /\ changes'[t] = capacity_tx' => Excused'
<1>5. ASSUME NEW t \in Tasks, Subscribe(t) \/ Changed(t) PROVE Goal
  <2>1. capacity_tx' = capacity_tx /\ (Excused => Excused')
        BY <1>2, <1>3, <1>5 DEF Subscribe, Changed, vars
  <2> QED BY <1>3, <1>4, <1>5, <2>1 DEF Subscribe, Changed, RetryInv
<1>6. ASSUME NEW t \in Tasks, Attempt(t) PROVE Goal
  <2>1. capacity_tx' = capacity_tx /\ (Excused => Excused')
        BY <1>2, <1>3, <1>6 DEF Attempt, Submit, SubmitRejected, SubmitCheck
  <2>2. /\ submitter'[t] \in {"checked", "saturated", "shutdown"}
        /\ submitter'[t] = "saturated" => Excused
        BY <1>6 DEF Attempt, Submit, SubmitRejected, SubmitCheck, Excused, RetryInv,
                    IndInv, TypeOK, CallerTypeOK
  <2>3. producer'[t] = "changed" => submitter'[t] = "saturated"
        BY <1>6, <2>2 DEF Attempt, RetryInv
  <2>4. /\ producer' \in [Tasks -> {"start", "try", "changed", "accepted", "refused"}]
        /\ \A u \in Tasks \ {t} : producer'[u] = producer[u]
        /\ changes' = changes
        BY <1>6, <2>2 DEF Attempt, RetryInv
  <2> QED BY <1>3, <1>4, <2>1, <2>2, <2>3, <2>4 DEF RetryInv
<1>7. ASSUME UNCHANGED retryVars PROVE Goal
      BY <1>2, <1>3, <1>4, <1>7 DEF retryVars, RetryInv
<1> HIDE DEF Goal
<1>8. Goal
      BY <1>5, <1>6, <1>7 DEF RetryNext, Producer, allVars
<1> QED BY <1>1, <1>8 DEF Goal, RetryInv, NoMissedChange, Excused

\* A producer that awaits changed() on the IO service never sleeps through a unit that
\* was returned or a close: the service is full and open, or a notification is coming.
THEOREM IoNoMissedChange == RetrySpec => []NoMissedChange
<1>1. RetryInv => NoMissedChange
      BY DEF RetryInv
<1> QED BY <1>1, RetryInit_Inv, RetryNext_Inv, PTL DEF RetrySpec
=============================================================================
