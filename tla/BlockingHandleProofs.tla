------------------------ MODULE BlockingHandleProofs ------------------------
(***************************************************************************)
(* The tracked handles of the blocking service, for any number of tasks,   *)
(* endpoints, stops and shutdowns: a result that was handed out is final   *)
(* and at most one caller of cancel wins.                                  *)
(***************************************************************************)
EXTENDS BlockingHandle, BlockingStopProofs

USE DEF lifeVars, countVars, noteVars, trackVars, entryVars, slotVars, tokioVars,
        callerVars, stopVars

Callers == Endpoints \cup {"handle"}

HandleTypeOK ==
    /\ handle \in [TrackedCallables -> {"held", "waiting", "got", "dropped"}]
    /\ result \in [TrackedCallables -> {"none", "completed", "cancelled", "dropped"}]
    /\ answers \in [TrackedCallables -> [Callers -> {"none", "ready", "cancelled",
                                        "already_running", "already_finished"}]]

\* A task has a status once it is spawned.
StatusShape(t) == status[t] = "none" => submitter[t] \in Outside \cup {"admitted"}

\* A result was handed out only when it was final.
ResultGiven(t) == handle[t] = "got" => Done(t) /\ result[t] = status[t]

\* Whoever was answered has an endpoint of a task that was returned; one that was told
\* that it cancelled the task did, and is the only one.
AnswerShape(t) ==
    /\ \A e \in Callers : answers[t][e] # "none" => submitter[t] = "returned"
    /\ \A e \in Callers : answers[t][e] = "cancelled" => status[t] = "cancelled"
    /\ \A e, f \in Callers : answers[t][e] = "cancelled" /\ answers[t][f] = "cancelled"
                             => e = f

\* The inductive invariant of the composition.
HandleInv ==
    /\ IndInv /\ StopInv /\ HandleTypeOK
    /\ \A t \in TrackedCallables : StatusShape(t) /\ ResultGiven(t) /\ AnswerShape(t)

\* What a step of the service may do to the status the handle observes: a final one is
\* final, a task that has one keeps having one, and a submission that returned has.
LEMMA StatusNext ==
    ASSUME IndInv, StopInv, [Next]_vars, NEW t \in TrackedCallables
    PROVE  /\ Done(t) => status'[t] = status[t]
           /\ StatusShape(t) => StatusShape(t)'
           /\ submitter[t] = "returned" => submitter'[t] = "returned"
<1> DEFINE Goal == /\ Done(t) => status'[t] = status[t]
                   /\ StatusShape(t) => StatusShape(t)'
                   /\ submitter[t] = "returned" => submitter'[t] = "returned"
<1> USE DEF IndInv, TypeOK, SlotTypeOK, CallerTypeOK, Done, StatusShape
<1>1. HasSlot(t) /\ t \in Tasks
      BY DEF HasSlot, Tasks
<1>2. /\ submitter[t] \in Outside \cup {"admitted"} => status[t] = "none"
      /\ blocking[t] = "call" => status[t] = "running"
      BY <1>1 DEF StopInv, SlotShape, ResultShape
<1>3. ASSUME UNCHANGED <<status, submitter>> PROVE Goal
      BY <1>3
<1>4. ASSUME NEW u \in Tasks, Submit(u) PROVE Goal
      BY <1>1, <1>2, <1>4 DEF Submit, SubmitRejected, SubmitAccepted, Outside
<1>5. ASSUME NEW u \in Tasks, SubmitSpawn(u) PROVE Goal
      BY <1>1, <1>2, <1>5 DEF SubmitSpawn
<1>6. ASSUME NEW u \in Tasks, SubmitRegister(u) \/ SubmitDeliver(u) \/ SubmitReturn(u)
      PROVE  Goal
      BY <1>1, <1>6 DEF SubmitRegister, SubmitDeliver, SubmitReturn, ReleaseSlot, Outside
<1>7. ASSUME NEW u \in Tasks, WorkerCall(u) \/ WorkerReturn(u) PROVE Goal
      BY <1>1, <1>2, <1>7 DEF WorkerCall, WorkerReturn
<1>8. ASSUME NEW u \in Tasks, \/ WorkerPick(u) \/ WorkerDiscard(u) \/ WorkerReceive(u)
                              \/ WorkerMarkStarted(u) \/ WorkerCount(u) \/ WorkerFinish(u)
      PROVE  Goal
      BY <1>1, <1>8 DEF WorkerPick, WorkerDiscard, WorkerReceive, WorkerMarkStarted,
          WorkerCount, WorkerFinish, ReleaseSlot
<1>9. ASSUME NEW u \in Tasks, Guard(u) \/ Release(u) PROVE Goal
      BY <1>1, <1>9 DEF Guard, GuardRemove, GuardFinish, remove_abort_handle, ReleaseSlot,
          Release, ReleaseCount, ReleaseNotifyCapacity, ReleaseNotifyWaiters
<1>10. ASSUME NEW u \in Tasks, Cancel(u) \/ Canceller(u) PROVE Goal
      BY <1>1, <1>10 DEF Cancel, Canceller, CancelRemove, CancelFinish, CancelAbort,
          remove_abort_handle, ReleaseSlot
<1>11. ASSUME NEW s \in Stoppers, Sweep(s) PROVE Goal
      BY <1>1, <1>11 DEF Sweep, StopAbort, StopHook, StopCancelled, cancel_unstarted,
          ReleaseSlot
<1>12. ASSUME NEW s \in Stoppers, StopSnapshot(s) \/ StopTake(s)
       PROVE  UNCHANGED <<status, submitter>>
      BY <1>12 DEF StopSnapshot, StopTake
<1>13. ASSUME NEW c \in Closers, \/ Close(c) \/ CloseNotifyCapacity(c) \/ CloseCheck(c)
                                 \/ CloseNotifyWaiters(c)
       PROVE  UNCHANGED <<status, submitter>>
      BY <1>13 DEF Close, Shutdown, StopStore, CloseNotifyCapacity, CloseCheck,
          CloseNotifyWaiters
<1>14. ASSUME CloseRuntime \/ UNCHANGED vars PROVE UNCHANGED <<status, submitter>>
      BY <1>14 DEF CloseRuntime, vars
<1> HIDE DEF Goal
<1>15. Goal
      BY <1>3, <1>4, <1>5, <1>6, <1>7, <1>8, <1>9, <1>10, <1>11, <1>12, <1>13, <1>14
      DEF Next, Proceed, Submitter, Worker, Closer
<1> QED BY <1>15 DEF Goal

\* A step of the composition is, for the service, a step of its own specification.
LEMMA HandleIsNext == [HandleNext]_allVars => [Next]_vars
<1> SUFFICES ASSUME [HandleNext]_allVars PROVE [Next]_vars
    OBVIOUS
<1>1. ASSUME NEW t \in TrackedCallables, NEW e, CancelBy(t, e) PROVE [Next]_vars
      BY <1>1 DEF CancelBy, Next, Tasks
<1>2. ASSUME NEW t \in TrackedCallables, Owner(t) \/ Resolve(t) PROVE UNCHANGED vars
      BY <1>2 DEF Owner, Resolve, TryGet, Wait, Drop, CancellationHandle
<1> QED BY <1>1, <1>2 DEF HandleNext, allVars, Next

\* The initial state satisfies the invariant.
LEMMA HandleInit_Inv == HandleInit => HandleInv
<1> SUFFICES ASSUME HandleInit PROVE HandleInv
    OBVIOUS
<1>1. IndInv /\ StopInv
      BY IndInvInit, StopInvInit DEF HandleInit
<1>2. HandleTypeOK
      BY DEF HandleInit, HandleTypeOK, Callers
<1>3. ASSUME NEW t \in TrackedCallables PROVE StatusShape(t) /\ ResultGiven(t) /\ AnswerShape(t)
      BY DEF HandleInit, Init, Tasks, Callers, StatusShape, ResultGiven, AnswerShape,
          Outside
<1> QED BY <1>1, <1>2, <1>3 DEF HandleInv

\* cancel: the caller that finds the task pending becomes its only winner, and a status
\* that is no longer pending makes nobody one.
LEMMA CancelByInv ==
    ASSUME HandleInv, NEW t \in TrackedCallables, NEW e \in Callers, CancelBy(t, e)
    PROVE  HandleTypeOK' /\ \A u \in TrackedCallables : ResultGiven(u)' /\ AnswerShape(u)'
<1> USE DEF HandleInv, HandleTypeOK
<1>1. submitter[t] = "returned" /\ status[t] # "none"
      BY DEF CancelBy, Held, AnswerShape, StatusShape, Outside
<1>2. t \in Tasks /\ status \in [Tasks -> {"none", "pending", "running", "completed",
                                          "cancelled", "dropped"}]
      BY DEF Tasks, IndInv, TypeOK, SlotTypeOK
<1>3. /\ UNCHANGED <<submitter, handle, result>>
      /\ answers' = [answers EXCEPT ![t][e] = CancelResult(t)]
      BY DEF CancelBy, Cancel, vars
<1>4. CASE status[t] = "pending"
  <2>1. CancelResult(t) = "cancelled" /\ status' = [status EXCEPT ![t] = "cancelled"]
        BY <1>4 DEF CancelBy, Cancel, CancelResult, Done
  <2>2. HandleTypeOK'
        BY <1>3, <2>1
  <2>3. ASSUME NEW u \in TrackedCallables PROVE ResultGiven(u)' /\ AnswerShape(u)'
        BY <1>1, <1>2, <1>3, <1>4, <2>1 DEF ResultGiven, AnswerShape, Done
  <2> QED BY <2>2, <2>3
<1>5. CASE status[t] # "pending"
  <2>1. CancelResult(t) \in {"already_running", "already_finished"} /\ UNCHANGED status
        BY <1>1, <1>2, <1>5 DEF CancelBy, CancelResult, Done, vars
  <2>2. HandleTypeOK'
        BY <1>3, <2>1
  <2>3. ASSUME NEW u \in TrackedCallables PROVE ResultGiven(u)' /\ AnswerShape(u)'
        BY <1>1, <1>3, <2>1 DEF ResultGiven, AnswerShape, Done
  <2> QED BY <2>2, <2>3
<1> QED BY <1>4, <1>5

\* Every step preserves the invariant.
LEMMA HandleNext_Inv == HandleInv /\ [HandleNext]_allVars => HandleInv'
<1> SUFFICES ASSUME HandleInv, [HandleNext]_allVars PROVE HandleInv'
    OBVIOUS
<1>1. [Next]_vars /\ IndInv' /\ StopInv'
      BY HandleIsNext, IndInvNext, StopInvNext DEF HandleInv
<1>2. ASSUME NEW t \in TrackedCallables
      PROVE  /\ Done(t) => status'[t] = status[t]
             /\ StatusShape(t)'
             /\ submitter[t] = "returned" => submitter'[t] = "returned"
      BY <1>1, StatusNext DEF HandleInv
<1> DEFINE Goal == /\ HandleTypeOK'
                   /\ \A u \in TrackedCallables : ResultGiven(u)' /\ AnswerShape(u)'
<1>3. ASSUME NEW t \in TrackedCallables, NEW e \in Callers, CancelBy(t, e) PROVE Goal
      BY <1>3, CancelByInv
<1>4. ASSUME NEW t \in TrackedCallables, TryGet(t) \/ Wait(t) \/ Drop(t) \/ Resolve(t)
      PROVE  Goal
  <2>1. UNCHANGED <<status, submitter, answers>>
        BY <1>4 DEF TryGet, Wait, Drop, Resolve, vars
  <2>2. HandleTypeOK'
        BY <1>4 DEF TryGet, Wait, Drop, Resolve, HandleInv, HandleTypeOK, Done
  <2>3. ASSUME NEW u \in TrackedCallables PROVE ResultGiven(u)' /\ AnswerShape(u)'
        BY <1>4, <2>1 DEF TryGet, Wait, Drop, Resolve, HandleInv, HandleTypeOK, ResultGiven,
           AnswerShape, Done
  <2> QED BY <2>2, <2>3
<1>5. ASSUME NEW t \in TrackedCallables, NEW e \in Endpoints, CancellationHandle(t, e)
      PROVE  Goal
  <2>1. /\ UNCHANGED <<status, submitter, handle, result>> /\ submitter[t] = "returned"
        /\ answers' = [answers EXCEPT ![t][e] = "ready"]
        BY <1>5 DEF CancellationHandle, Held, vars
  <2>2. HandleTypeOK'
        BY <2>1 DEF HandleInv, HandleTypeOK
  <2>3. ASSUME NEW u \in TrackedCallables PROVE ResultGiven(u)' /\ AnswerShape(u)'
        BY <2>1 DEF HandleInv, HandleTypeOK, ResultGiven, AnswerShape, Done, Callers
  <2> QED BY <2>2, <2>3
<1>6. ASSUME UNCHANGED handleVars PROVE Goal
      BY <1>2, <1>6 DEF handleVars, HandleInv, HandleTypeOK, ResultGiven, AnswerShape, Done
<1> HIDE DEF Goal
<1>7. Goal
      BY <1>3, <1>4, <1>5, <1>6 DEF HandleNext, Owner, Callers, allVars
<1> QED BY <1>1, <1>2, <1>7 DEF Goal, HandleInv

\* The invariant holds in every reachable state.
THEOREM HandleInvariance == HandleSpec => []HandleInv
BY HandleInit_Inv, HandleNext_Inv, PTL DEF HandleSpec

\* A result that get, try_get or the future handed out never changes.
THEOREM ResultsAreFinal == HandleSpec => []ResultIsFinal
<1>1. HandleInv => ResultIsFinal
      BY DEF HandleInv, ResultGiven, ResultIsFinal
<1> QED BY <1>1, HandleInvariance, PTL

\* At most one endpoint is told that it cancelled a task, and that task reports Cancelled
\* and never runs.
THEOREM OneCancelWins == HandleSpec => []CancelHasOneWinner
<1>1. ASSUME HandleInv, NEW t \in TrackedCallables,
             NEW winners, winners = {e \in Callers : answers[t][e] = "cancelled"}
      PROVE  /\ Cardinality(winners) <= 1
             /\ winners # {} => status[t] = "cancelled" /\ t \notin called
  <2>1. CASE winners = {}
        BY <2>1, FS_EmptySet
  <2>2. CASE winners # {}
    <3>1. PICK e \in Callers : winners = {e} /\ answers[t][e] = "cancelled"
          BY <1>1, <2>2 DEF HandleInv, AnswerShape
    <3>2. status[t] = "cancelled" /\ Cardinality(winners) = 1
          BY <1>1, <3>1, FS_Singleton DEF HandleInv, AnswerShape
    <3>3. t \notin called
          BY <3>2, <1>1 DEF HandleInv, IndInv, TaskShape, OutcomeShape, Tasks
    <3> QED BY <3>2, <3>3
  <2> QED BY <2>1, <2>2
<1>2. HandleInv => CancelHasOneWinner
      BY <1>1 DEF CancelHasOneWinner, Callers
<1> QED BY <1>2, HandleInvariance, PTL
=============================================================================
