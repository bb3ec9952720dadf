------------------------ MODULE BlockingRetryProofs ------------------------
(***************************************************************************)
(* The retry protocol of the blocking service, for any number of           *)
(* producers, stops and shutdowns: no change of the capacity is missed and *)
(* a task that was handed back has left no trace.                          *)
(***************************************************************************)
EXTENDS BlockingRetry, BlockingStopProofs

USE DEF lifeVars, countVars, noteVars, trackVars, entryVars, slotVars, tokioVars,
        callerVars, stopVars

\* What a producer that sleeps may rely on: the service is open and full, or somebody
\* has yet to publish a change.
Excused ==
    \/ AdmissionOpen /\ ~HasCapacity
    \/ \E u \in Tasks : releasing[u] \in {"capacity", "capacity_last"}
    \/ \E c \in Closers : closer[c] \in {"stored", "snapshotted", "sweep", "capacity"}

RetryTypeOK ==
    /\ producer \in [Tasks -> {"start", "try", "inspect", "changed", "accepted", "refused"}]
    /\ changes \in [Tasks -> Nat]
    /\ rejected \in [Tasks -> {"none", "saturated", "shutdown"}]

\* A producer that holds its task is outside the service.
ProducerShape(t) ==
    /\ producer[t] \in {"start", "try", "changed", "refused"} => submitter[t] \in Outside
    /\ rejected[t] # "none" => producer[t] = "inspect" /\ submitter[t] \in Outside

\* A receiver has seen no version that was not published, and a producer that sleeps on
\* the current one, or is about to, is excused.
ReceiverShape(t) ==
    /\ changes[t] <= capacity_tx
    /\ (/\ producer[t] = "changed" \/ rejected[t] = "saturated"
        /\ changes[t] = capacity_tx) => Excused

\* The inductive invariant of the composition.
RetryInv == /\ IndInv /\ StopInv /\ RetryTypeOK
            /\ \A t \in Tasks : ProducerShape(t) /\ ReceiverShape(t)

\* The watch channel only moves forward, and a step that does not move it leaves a
\* sleeping producer excused.
LEMMA ExcusedNext ==
    ASSUME IndInv, [Next]_vars
    PROVE  \/ capacity_tx' = capacity_tx + 1
           \/ capacity_tx' = capacity_tx /\ (Excused => Excused')
<1> DEFINE Goal == \/ capacity_tx' = capacity_tx + 1
                   \/ capacity_tx' = capacity_tx /\ (Excused => Excused')
           Kept == \A u \in Tasks : releasing[u] \in {"capacity", "capacity_last"}
                                    => releasing'[u] \in {"capacity", "capacity_last"}
<1> USE DEF IndInv, TypeOK
<1>1. /\ queued \in Nat /\ running \in Nat /\ Capacity \in Nat
      /\ \A u \in Tasks : releasing[u] \in {"capacity", "capacity_last"}
                          => task_state[u] = "FINISHED"
      BY CapacityAssumption DEF ServiceTypeOK, TaskShape, TrackerShape
<1>2. ASSUME UNCHANGED <<capacity_tx, lifecycle, queued, running, closer>>, Kept PROVE Goal
      BY <1>2 DEF Excused, AdmissionOpen, HasCapacity, is_not_running, load, from_u8
<1>3. ASSUME NEW t \in Tasks, SubmitAccepted(t) \/ WorkerCount(t) PROVE Goal
  <2>1. UNCHANGED <<capacity_tx, lifecycle, releasing, closer>>
        BY <1>3 DEF SubmitAccepted, WorkerCount
  <2>2. ~HasCapacity => ~HasCapacity'
        BY <1>1, <1>3 DEF SubmitAccepted, WorkerCount, HasCapacity, saturating_dec
  <2> QED BY <2>1, <2>2 DEF Excused, AdmissionOpen, is_not_running, load, from_u8
<1>4. ASSUME NEW t \in Tasks, SubmitRejected(t) \/ Submitter(t) \/ Cancel(t) PROVE Goal
      BY <1>2, <1>4 DEF SubmitRejected, Submitter, SubmitSpawn, SubmitRegister,
          SubmitDeliver, SubmitReturn, Cancel
<1>5. ASSUME NEW t \in Tasks, Worker(t), ~WorkerCount(t) PROVE Goal
      BY <1>2, <1>5 DEF Worker, WorkerPick, WorkerDiscard, WorkerReceive,
          WorkerMarkStarted, WorkerCall, WorkerReturn, WorkerFinish
<1>6. ASSUME NEW t \in Tasks, Guard(t) \/ Canceller(t) PROVE Goal
      BY <1>1, <1>2, <1>6 DEF Guard, GuardRemove, GuardFinish, Canceller, CancelRemove,
          CancelFinish, CancelAbort, finish_queued, TrackTypeOK
<1>7. ASSUME NEW t \in Tasks, Release(t) PROVE Goal
  <2>1. CASE ReleaseCount(t)
        BY <2>1 DEF ReleaseCount, TrackTypeOK, Excused
  <2>2. CASE ReleaseNotifyCapacity(t)
        BY <2>2 DEF ReleaseNotifyCapacity
  <2>3. CASE ReleaseNotifyWaiters(t)
        BY <1>2, <2>3 DEF ReleaseNotifyWaiters, TrackTypeOK
  <2> QED BY <1>7, <2>1, <2>2, <2>3 DEF Release
<1>8. ASSUME NEW c \in Closers, Close(c) PROVE Goal
      BY <1>8 DEF Close, Shutdown, StopStore, CallerTypeOK, Excused
<1>9. ASSUME NEW s \in Stoppers, StopSnapshot(s) \/ StopTake(s) PROVE Goal
      BY <1>9 DEF StopSnapshot, StopTake, CallerTypeOK, Excused, Closers
<1>10. ASSUME NEW s \in Stoppers, Sweep(s) PROVE Goal
      BY <1>1, <1>2, <1>10 DEF Sweep, StopAbort, StopHook, StopCancelled, finish_queued,
          TrackTypeOK
<1>11. ASSUME NEW c \in Closers,
              CloseNotifyCapacity(c) \/ CloseCheck(c) \/ CloseNotifyWaiters(c)
       PROVE  Goal
      BY <1>11 DEF CloseNotifyCapacity, CloseCheck, CloseNotifyWaiters, CallerTypeOK,
          Excused, AdmissionOpen, HasCapacity, is_not_running, load, from_u8
<1>12. ASSUME CloseRuntime \/ UNCHANGED vars PROVE Goal
      BY <1>2, <1>12 DEF CloseRuntime, vars
<1> HIDE DEF Goal
<1>13. Goal
      BY <1>3, <1>4, <1>5, <1>6, <1>7, <1>8, <1>9, <1>10, <1>11, <1>12
      DEF Next, Proceed, Submit, Closer
<1> QED BY <1>13 DEF Goal

\* A step of the composition is, for the service, a step of its own specification.
LEMMA RetryIsNext == [RetryNext]_allVars => [Next]_vars
BY DEF RetryNext, allVars, Subscribe, Producer, Attempt, Inspect, Changed, Next

\* Only an attempt moves a submitter that is outside the service.
LEMMA OutsideStays ==
    ASSUME IndInv, Proceed, NEW t \in Tasks, submitter[t] \in Outside
    PROVE  submitter'[t] = submitter[t]
<1> USE DEF IndInv, TypeOK, CallerTypeOK, Outside
<1>1. ASSUME NEW u \in Tasks, Submitter(u) PROVE submitter'[t] = submitter[t]
      BY <1>1 DEF Submitter, SubmitSpawn, SubmitRegister, SubmitDeliver, SubmitReturn
<1>2. ASSUME NEW u \in Tasks, Worker(u) \/ Guard(u) \/ Release(u) \/ Canceller(u)
      PROVE  UNCHANGED submitter
      BY <1>2 DEF Worker, WorkerPick, WorkerDiscard, WorkerReceive, WorkerMarkStarted,
          WorkerCount, WorkerCall, WorkerReturn, WorkerFinish, Guard, GuardRemove,
          GuardFinish, Release, ReleaseCount, ReleaseNotifyCapacity, ReleaseNotifyWaiters,
          Canceller, CancelRemove, CancelFinish, CancelAbort
<1>3. ASSUME NEW c \in Closers, Close(c) \/ Closer(c) PROVE UNCHANGED submitter
      BY <1>3 DEF Close, Shutdown, StopStore, Closer, StopSnapshot, StopTake, Sweep,
          StopAbort, StopHook, StopCancelled, CloseNotifyCapacity, CloseCheck,
          CloseNotifyWaiters
<1>4. ASSUME CloseRuntime PROVE UNCHANGED submitter
      BY <1>4 DEF CloseRuntime
<1> QED BY <1>1, <1>2, <1>3, <1>4 DEF Proceed

\* The initial state satisfies the invariant.
LEMMA RetryInit_Inv == RetryInit => RetryInv
<1> SUFFICES ASSUME RetryInit PROVE RetryInv
    OBVIOUS
<1>1. IndInv /\ StopInv
      BY IndInvInit, StopInvInit DEF RetryInit
<1> QED BY <1>1 DEF RetryInit, Init, RetryInv, RetryTypeOK, ProducerShape, ReceiverShape,
                    Outside

\* Every step preserves it.
LEMMA RetryNext_Inv == RetryInv /\ [RetryNext]_allVars => RetryInv'
<1> SUFFICES ASSUME RetryInv, [RetryNext]_allVars PROVE RetryInv'
    OBVIOUS
<1>1. [Next]_vars /\ IndInv' /\ StopInv'
      BY RetryIsNext, IndInvNext, StopInvNext DEF RetryInv
<1>2. \/ capacity_tx' = capacity_tx + 1
      \/ capacity_tx' = capacity_tx /\ (Excused => Excused')
      BY <1>1, ExcusedNext DEF RetryInv
<1>3. capacity_tx \in Nat
      BY DEF RetryInv, IndInv, TypeOK, ServiceTypeOK
<1> DEFINE Goal == /\ RetryTypeOK'
                   /\ \A t \in Tasks : ProducerShape(t)' /\ ReceiverShape(t)'
<1> USE DEF RetryInv, RetryTypeOK
<1>4. ASSUME NEW t \in Tasks, Subscribe(t) \/ Inspect(t) \/ Changed(t) PROVE Goal
  <2>1. /\ capacity_tx' = capacity_tx /\ (Excused => Excused')
        /\ UNCHANGED submitter
        BY <1>2, <1>3, <1>4 DEF Subscribe, Inspect, Changed, vars
  <2>2. RetryTypeOK'
        BY <1>3, <1>4 DEF Subscribe, Inspect, Changed
  <2>3. ASSUME NEW u \in Tasks PROVE ProducerShape(u)' /\ ReceiverShape(u)'
        BY <1>3, <1>4, <2>1 DEF Subscribe, Inspect, Changed, ProducerShape, ReceiverShape
  <2> QED BY <2>2, <2>3
<1>5. ASSUME NEW t \in Tasks, Attempt(t) PROVE Goal
  <2>1. capacity_tx' = capacity_tx /\ (Excused => Excused')
        BY <1>2, <1>3, <1>5 DEF Attempt, Submit, SubmitRejected, SubmitAccepted
  <2>2. /\ submitter'[t] \in {"admitted", "saturated", "shutdown"}
        /\ submitter'[t] = "saturated" => Excused
        /\ \A u \in Tasks \ {t} : submitter'[u] = submitter[u]
        BY <1>5 DEF Attempt, Submit, SubmitRejected, SubmitAccepted, Excused, IndInv,
            TypeOK, CallerTypeOK
  <2>3. RetryTypeOK'
        BY <1>5, <2>2 DEF Attempt
  <2>4. ASSUME NEW u \in Tasks PROVE ProducerShape(u)' /\ ReceiverShape(u)'
        BY <1>3, <1>5, <2>1, <2>2 DEF Attempt, ProducerShape, ReceiverShape, Outside
  <2> QED BY <2>3, <2>4
<1>6. ASSUME UNCHANGED retryVars, Proceed \/ UNCHANGED vars PROVE Goal
  <2>1. \A t \in Tasks : submitter[t] \in Outside => submitter'[t] = submitter[t]
        BY <1>6, OutsideStays DEF vars
  <2> QED BY <1>2, <1>3, <1>6, <2>1 DEF retryVars, ProducerShape, ReceiverShape
<1> HIDE DEF Goal
<1>7. Goal
      BY <1>4, <1>5, <1>6 DEF RetryNext, Producer, allVars
<1> QED BY <1>1, <1>7 DEF Goal

\* The invariant holds in every reachable state.
THEOREM RetryInvariance == RetrySpec => []RetryInv
BY RetryInit_Inv, RetryNext_Inv, PTL DEF RetrySpec

\* A producer that awaits changed() never sleeps through a unit that was returned or a
\* close: the service is full and open, or a notification is coming.
THEOREM RetryMissesNoChange == RetrySpec => []NoMissedChange
<1>1. RetryInv => NoMissedChange
      BY DEF RetryInv, ReceiverShape, Excused, NoMissedChange
<1> QED BY <1>1, RetryInvariance, PTL

\* A task that was handed back holds no unit, guard, slot or blocking task, and its code
\* has not been called.
THEOREM RejectionLeavesNoTrace == RetrySpec => []RejectedLeavesNoTrace
<1>1. ASSUME RetryInv, NEW t \in Tasks,
             producer[t] \in {"try", "changed", "refused"} \/ rejected[t] # "none"
      PROVE  /\ t \notin Unfinished /\ t \notin called /\ t \notin abort_handles
             /\ guard[t] = "none" /\ blocking[t] = "none" /\ slot_refs[t] = {}
             /\ queued + running = Cardinality(Unfinished)
  <2> USE <1>1 DEF RetryInv, IndInv, TaskShape
  <2>1. submitter[t] \in Outside
        BY DEF ProducerShape
  <2>2. task_state[t] = "NONE" /\ guard[t] = "none" /\ blocking[t] = "none"
        BY <2>1 DEF AcceptanceShape
  <2>3. t \notin called /\ t \notin abort_handles /\ slot_refs[t] = {}
        BY <2>1, <2>2 DEF OutcomeShape, EntryShape, StopInv, SlotShape, ResultShape
  <2>4. t \notin Unfinished
        BY <2>2 DEF TrackerShape, TypeOK, TrackTypeOK, Unfinished, CountedQueued,
                    CountedRunning, CountsAsQueued, CountsAsRunning
  <2>5. queued + running = Cardinality(Unfinished)
        BY UnfinishedCount
  <2> QED BY <2>2, <2>3, <2>4, <2>5
<1>2. RetryInv => RejectedLeavesNoTrace
      BY <1>1 DEF RejectedLeavesNoTrace
<1> QED BY <1>2, RetryInvariance, PTL
=============================================================================
