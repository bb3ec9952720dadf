--------------------- MODULE BlockingTerminationProofs ---------------------
(***************************************************************************)
(* The waiters and observers of the blocking service, for any number of    *)
(* them: nobody hears of termination early, no wake-up is lost and a timed *)
(* wait notices a termination that came during one of its slices.          *)
(***************************************************************************)
EXTENDS BlockingTermination, BlockingStopProofs

USE DEF lifeVars, countVars, noteVars, trackVars, entryVars, slotVars, tokioVars,
        callerVars, stopVars, serviceVars, waitVars, observeVars

-----------------------------------------------------------------------------
(* The inductive invariant.                                                *)

WaitTypeOK ==
    /\ monitor \in Sleepers \cup {"free"}
    /\ waiter \in [Callers -> {"idle", "load", "read", "await", "top", "top_read", "err",
                               "err_read", "deadline", "ready", "open", "closed", "asleep",
                               "done", "true", "false"}]
    /\ left \in [TimedWaiters -> Nat] /\ owed \subseteq TimedWaiters
    /\ notified \subseteq Tasks \cup Closers

ObserveTypeOK ==
    /\ sample \in [Observers -> [at : {"start", "load", "read"}, queued : Nat, running : Nat,
                                 byte : {Running, ShuttingDown, Stopping}]]
    /\ report \in [Observers -> [queued : Nat, running : Nat,
                          lifecycle : {Running, ShuttingDown, Stopping, Terminated}]]

\* A caller is only at the positions of its own operation, and exactly the waiter inside
\* the monitor has read the byte there and not decided.
PositionShape(w) ==
    /\ waiter[w] \in {"ready", "open", "closed", "asleep"} => w \in Sleepers
    /\ waiter[w] \in {"top", "top_read", "err", "err_read", "deadline"} => w \in TimedWaiters
    /\ monitor = w <=> waiter[w] \in {"open", "closed"}

\* A byte that was read as not running still is: a closed service is never reopened.
ByteShape ==
    /\ \A w \in Callers : waiter[w] \in {"closed", "top_read", "err_read", "read"}
                          => is_not_running(lifecycle)
    /\ \A o \in Observers : sample[o].at = "read" /\ is_not_running(sample[o].byte)
                            => is_not_running(lifecycle)

\* notify_all is called by a thread that is about to call notify_waiters.
NotifiedShape ==
    \A n \in notified : \/ n \in Tasks /\ releasing[n] \in {"waiters", "done"}
                        \/ n \in Closers /\ closer[n] \in {"waiters", "done"}

\* While a waiter that read Running is in the monitor, whoever closed the service since
\* cannot have passed the monitor and has its check to make.
OpenShape ==
    (is_not_running(lifecycle) /\ \E w \in Sleepers : waiter[w] = "open")
    => \E c \in Closers : closer[c] \in {"stored", "capacity", "check"}

\* Nobody sleeps through termination.
AsleepShape ==
    (is_terminated /\ \E w \in Sleepers : waiter[w] = "asleep")
    => \E n \in Tasks \cup Closers : WillNotifyAll(n)

\* A timed wait that owes true is between the end of a slice and the answer of the test
\* that follows, and termination lasts: it cannot get to the deadline nor to a new slice.
OwedShape ==
    \A w \in owed : /\ is_terminated
                    /\ waiter[w] \in {"top", "top_read", "err", "err_read"}

TerminationInv ==
    /\ IndInv /\ StopInv
    /\ WaitTypeOK /\ ObserveTypeOK
    /\ \A w \in Callers : PositionShape(w)
    /\ ByteShape /\ NotifiedShape /\ OpenShape /\ AsleepShape
    /\ NoEarlyReturn /\ OwedShape

-----------------------------------------------------------------------------
(* What a step of the composition is for the service.                      *)

\* A step of the composition is, for the service, a step of its own specification.
LEMMA TerminationIsNext == [TerminationNext]_allVars => [Next]_vars
<1> SUFFICES ASSUME [TerminationNext]_allVars PROVE [Next]_vars
    OBVIOUS
<1>1. ASSUME InsideMonitor PROVE Next
      BY <1>1 DEF InsideMonitor, Next, Proceed, Worker, Release, Closer, Closers
<1>2. ASSUME OutsideMonitor PROVE Next
      BY <1>2 DEF OutsideMonitor, Next, Proceed, Worker, Release, Closer, Closers
<1>3. ASSUME NEW n, NotifyWaiters(n) PROVE Next
      BY <1>3 DEF NotifyWaiters, Next, Proceed, Release, Closer
<1>4. ASSUME NEW n, NotifyAll(n) PROVE UNCHANGED vars
      BY <1>4 DEF NotifyAll
<1>5. ASSUME NEW w, WaitCall(w) \/ Wait(w) \/ Tick(w) \/ TimedError(w)
      PROVE  UNCHANGED vars
      BY <1>5 DEF WaitCall, Wait, Tick, TimedError, WaitEnter, WaitLoad, WaitDecide,
                  TimedEnter, TimedLoad, TimedRead, TimedDeadline, TimedExpire, AwaitEnter,
                  AwaitLoad, AwaitRead, AwaitWake
<1>6. ASSUME NEW o, Observe(o) PROVE UNCHANGED vars
      BY <1>6 DEF Observe, StatsCounts, StatsLoad, StatsRead
<1>7. ASSUME UNCHANGED allVars PROVE UNCHANGED vars
      BY <1>7 DEF allVars
<1> QED BY <1>1, <1>2, <1>3, <1>4, <1>5, <1>6, <1>7 DEF TerminationNext, Service, Notifier

\* A task whose finish_task found the service terminated goes on to notify_waiters and
\* stays there until it calls it; one that is past that point stays past it.
LEMMA ReleasingNext ==
    ASSUME IndInv, [Next]_vars, NEW n \in Tasks
    PROVE  /\ releasing[n] = "capacity_last" => releasing'[n] \in {"capacity_last", "waiters"}
           /\ releasing[n] = "waiters" => releasing'[n] = "waiters" \/ ReleaseNotifyWaiters(n)
           /\ releasing[n] \in {"waiters", "done"} => releasing'[n] \in {"waiters", "done"}
<1> DEFINE Goal ==
      /\ releasing[n] = "capacity_last" => releasing'[n] \in {"capacity_last", "waiters"}
      /\ releasing[n] = "waiters" => releasing'[n] = "waiters" \/ ReleaseNotifyWaiters(n)
      /\ releasing[n] \in {"waiters", "done"} => releasing'[n] \in {"waiters", "done"}
<1> USE DEF IndInv, TypeOK, TrackTypeOK
<1>1. releasing[n] \in {"capacity_last", "waiters", "done"} => task_state[n] = "FINISHED"
      BY DEF TaskShape, TrackerShape
<1>2. ASSUME NEW t \in Tasks, Submit(t) \/ Submitter(t) \/ Cancel(t) \/ Worker(t) PROVE Goal
      BY <1>2 DEF Submit, SubmitRejected, SubmitAccepted, Submitter, SubmitSpawn,
          SubmitRegister, SubmitDeliver, SubmitReturn, Cancel, Worker, WorkerPick,
          WorkerDiscard, WorkerReceive, WorkerMarkStarted, WorkerCount, WorkerCall,
          WorkerReturn, WorkerFinish
<1>3. ASSUME NEW t \in Tasks, Guard(t) \/ Canceller(t) PROVE Goal
      BY <1>1, <1>3 DEF Guard, GuardRemove, GuardFinish, Canceller, CancelRemove,
          CancelFinish, CancelAbort, finish_queued
<1>4. ASSUME NEW t \in Tasks, Release(t) PROVE Goal
      BY <1>4 DEF Release, ReleaseCount, ReleaseNotifyCapacity, ReleaseNotifyWaiters
<1>5. ASSUME NEW c \in Closers, Close(c) \/ Closer(c) PROVE Goal
      BY <1>1, <1>5 DEF Close, Shutdown, StopStore, Closer, StopSnapshot, StopTake, Sweep,
          StopAbort, StopHook, StopCancelled, finish_queued, CloseNotifyCapacity, CloseCheck,
          CloseNotifyWaiters
<1>6. ASSUME CloseRuntime \/ UNCHANGED vars PROVE Goal
      BY <1>6 DEF CloseRuntime, vars
<1> HIDE DEF Goal
<1>7. Goal
      BY <1>2, <1>3, <1>4, <1>5, <1>6 DEF Next, Proceed
<1> QED BY <1>7 DEF Goal

\* The positions of a shutdown or stop that has yet to call notify_if_terminated.
BeforeCheck == {"stored", "snapshotted", "sweep", "capacity", "check"}

\* Likewise for a closer: on a terminated service its check leads to the notification.
LEMMA CloserPositionNext ==
    ASSUME IndInv, [Next]_vars, NEW n \in Closers
    PROVE  /\ is_terminated /\ closer[n] \in BeforeCheck =>
                 closer'[n] \in BeforeCheck \cup {"waiters"}
           /\ closer[n] = "waiters" => closer'[n] = "waiters" \/ CloseNotifyWaiters(n)
           /\ closer[n] \in {"waiters", "done"} => closer'[n] \in {"waiters", "done"}
<1> DEFINE Goal ==
      /\ is_terminated /\ closer[n] \in BeforeCheck =>
            closer'[n] \in BeforeCheck \cup {"waiters"}
      /\ closer[n] = "waiters" => closer'[n] = "waiters" \/ CloseNotifyWaiters(n)
      /\ closer[n] \in {"waiters", "done"} => closer'[n] \in {"waiters", "done"}
<1> USE DEF IndInv, TypeOK, CallerTypeOK, BeforeCheck
<1>1. ASSUME NEW t \in Tasks, \/ Submit(t) \/ Submitter(t) \/ Cancel(t) \/ Worker(t)
                              \/ Guard(t) \/ Release(t) \/ Canceller(t)
      PROVE  Goal
      BY <1>1 DEF Submit, SubmitRejected, SubmitAccepted, Submitter, SubmitSpawn,
          SubmitRegister, SubmitDeliver, SubmitReturn, Cancel, Worker, WorkerPick,
          WorkerDiscard, WorkerReceive, WorkerMarkStarted, WorkerCount, WorkerCall,
          WorkerReturn, WorkerFinish, Guard, GuardRemove, GuardFinish, Release, ReleaseCount,
          ReleaseNotifyCapacity, ReleaseNotifyWaiters, Canceller, CancelRemove, CancelFinish,
          CancelAbort
<1>2. ASSUME NEW c \in Closers, Close(c) \/ Closer(c) PROVE Goal
      BY <1>2 DEF Close, Shutdown, StopStore, Closer, StopSnapshot, StopTake, Sweep,
          StopAbort, StopHook, StopCancelled, CloseNotifyCapacity, CloseCheck,
          CloseNotifyWaiters
<1>3. ASSUME CloseRuntime \/ UNCHANGED vars PROVE Goal
      BY <1>3 DEF CloseRuntime, vars
<1> HIDE DEF Goal
<1>4. Goal
      BY <1>1, <1>2, <1>3 DEF Next, Proceed
<1> QED BY <1>4 DEF Goal

-----------------------------------------------------------------------------
(* The service's own steps.                                                *)

\* The steps that move neither the waiters nor the observers.
ServiceStep == \/ Service
               \/ \E n \in Tasks \cup Closers : NotifyWaiters(n)

\* The waiters, the observers and terminated_notify take no part in the other steps.
LEMMA ServiceKeeps ==
    Service => UNCHANGED <<terminated_notify, waitVars, notified, observeVars>>
<1> SUFFICES ASSUME Service PROVE UNCHANGED terminated_notify
    BY DEF Service
<1>1. ASSUME InsideMonitor PROVE UNCHANGED terminated_notify
      BY <1>1 DEF InsideMonitor, Submit, SubmitRejected, SubmitAccepted, WorkerCount,
                  ReleaseCount, StopSnapshot, CloseCheck
<1>2. ASSUME NEW t \in Tasks,
             \/ Submitter(t) \/ Guard(t) \/ Cancel(t) \/ Canceller(t)
             \/ WorkerPick(t) \/ WorkerDiscard(t) \/ WorkerReceive(t)
             \/ WorkerMarkStarted(t) \/ WorkerCall(t) \/ WorkerReturn(t)
             \/ WorkerFinish(t) \/ ReleaseNotifyCapacity(t)
      PROVE  UNCHANGED terminated_notify
      BY <1>2 DEF Submitter, SubmitSpawn, SubmitRegister, SubmitDeliver, SubmitReturn,
          Guard, GuardRemove, GuardFinish, Cancel, Canceller, CancelRemove, CancelFinish,
          CancelAbort, WorkerPick, WorkerDiscard, WorkerReceive, WorkerMarkStarted,
          WorkerCall, WorkerReturn, WorkerFinish, ReleaseNotifyCapacity
<1>3. ASSUME OutsideMonitor PROVE UNCHANGED terminated_notify
      BY <1>2, <1>3 DEF OutsideMonitor, Close, Shutdown, StopStore, CloseNotifyCapacity,
          StopTake, Sweep, StopAbort, StopHook, StopCancelled, CloseRuntime
<1> QED BY <1>1, <1>3 DEF Service

\* For the service, such a step is one of its own.
LEMMA ServiceIsNext == ServiceStep => [Next]_vars
BY TerminationIsNext DEF ServiceStep, TerminationNext, Notifier

\* Only a thread that has called notify_all calls notify_waiters.
LEMMA NotifiedFirst ==
    ASSUME IndInv, ServiceStep, NEW n,
           \/ n \in Tasks /\ ReleaseNotifyWaiters(n)
           \/ n \in Closers /\ CloseNotifyWaiters(n)
    PROVE  n \in notified
<1> USE DEF IndInv, TypeOK, TrackTypeOK, CallerTypeOK
<1>1. terminated_notify' # terminated_notify
      BY DEF ReleaseNotifyWaiters, CloseNotifyWaiters, ServiceTypeOK
<1>2. PICK m \in notified : \/ m \in Tasks /\ ReleaseNotifyWaiters(m)
                            \/ m \in Closers /\ CloseNotifyWaiters(m)
      BY <1>1, ServiceKeeps DEF ServiceStep, NotifyWaiters
<1> QED BY <1>2, CallersAssumption DEF ReleaseNotifyWaiters, CloseNotifyWaiters

\* While the service is terminated, a thread that will call notify_all stays one until it
\* does.
LEMMA WillNotifyNext ==
    ASSUME IndInv, is_terminated, ServiceStep,
           NEW n \in Tasks \cup Closers, WillNotifyAll(n)
    PROVE  WillNotifyAll(n)'
<1>1. [Next]_vars /\ UNCHANGED notified
      BY ServiceIsNext, ServiceKeeps DEF ServiceStep, NotifyWaiters
<1>2. CASE n \in Tasks /\ releasing[n] \in {"capacity_last", "waiters"}
  <2>1. ~ReleaseNotifyWaiters(n)
        BY <1>2, NotifiedFirst DEF WillNotifyAll
  <2> QED BY <1>1, <1>2, <2>1, ReleasingNext DEF WillNotifyAll
<1>3. CASE n \in Closers /\ closer[n] \in BeforeCheck \cup {"waiters"}
  <2>1. ~CloseNotifyWaiters(n)
        BY <1>3, NotifiedFirst DEF WillNotifyAll
  <2> QED BY <1>1, <1>3, <2>1, CloserPositionNext DEF WillNotifyAll, BeforeCheck
<1> QED BY <1>2, <1>3 DEF WillNotifyAll, BeforeCheck

\* The step that terminates the service commits its thread to notify_all.
LEMMA TerminatingStep ==
    ASSUME IndInv, NotifiedShape, ServiceStep, ~is_terminated, is_terminated'
    PROVE  \E n \in Tasks \cup Closers : WillNotifyAll(n)'
<1> USE DEF IndInv, TypeOK, TrackTypeOK, CallerTypeOK
<1>1. [Next]_vars /\ UNCHANGED notified
      BY ServiceIsNext, ServiceKeeps DEF ServiceStep, NotifyWaiters
<1>2. CASE \E t \in Tasks : ReleaseCount(t)
  <2>1. PICK t \in Tasks : ReleaseCount(t)
        BY <1>2
  <2>2. releasing'[t] = "capacity_last"
        BY <2>1 DEF ReleaseCount, is_terminated, is_empty, is_not_running, load, from_u8
  <2>3. t \notin notified
        BY <2>1, CallersAssumption DEF ReleaseCount, NotifiedShape
  <2> QED BY <1>1, <2>2, <2>3 DEF WillNotifyAll
<1>3. CASE \E c \in Closers : Close(c)
  <2>1. PICK c \in Closers : Close(c)
        BY <1>3
  <2>2. closer'[c] \in {"stored", "capacity"} /\ closer[c] = "idle"
        BY <2>1 DEF Close, Shutdown, StopStore
  <2>3. c \notin notified
        BY <2>2, CallersAssumption DEF NotifiedShape
  <2> QED BY <1>1, <2>2, <2>3 DEF WillNotifyAll
<1>4. CASE ~(\E t \in Tasks : ReleaseCount(t)) /\ ~(\E c \in Closers : Close(c))
  <2>1. is_not_running(lifecycle)' => is_not_running(lifecycle)
        BY <1>1, <1>4, OnlyCloseStores DEF is_not_running, load, from_u8
  <2>2. is_empty' => is_empty
    <3>1. ASSUME NEW t \in Tasks, SubmitAccepted(t) \/ WorkerCount(t) PROVE ~is_empty'
          BY <3>1 DEF SubmitAccepted, WorkerCount, is_empty, ServiceTypeOK
    <3>2. CASE ~CountingStep
          BY <1>1, <3>2, OtherStepsKeepCounts DEF is_empty
    <3> QED BY <1>4, <3>1, <3>2 DEF CountingStep
  <2> QED BY <2>1, <2>2 DEF is_terminated
<1> QED BY <1>2, <1>3, <1>4

\* No closer passes the monitor while a waiter is inside it.
LEMMA OpenNext ==
    ASSUME IndInv, StopInv, WaitTypeOK, \A w \in Callers : PositionShape(w), OpenShape,
           ServiceStep
    PROVE  OpenShape'
<1> SUFFICES ASSUME is_not_running(lifecycle)', NEW w \in Sleepers, waiter'[w] = "open"
             PROVE  \E c \in Closers : closer'[c] \in {"stored", "capacity", "check"}
    BY DEF OpenShape
<1> USE DEF IndInv, TypeOK, CallerTypeOK
<1>1. waiter[w] = "open" /\ monitor # "free"
      BY ServiceKeeps, CallersAssumption DEF ServiceStep, NotifyWaiters, Service,
         PositionShape, Callers
<1>2. OutsideMonitor \/ \E n \in Tasks \cup Closers : NotifyWaiters(n)
      BY <1>1 DEF ServiceStep, Service, MonitorFree
<1>3. CASE \E c \in Closers : Close(c)
      BY <1>3 DEF Close, Shutdown, StopStore
<1>4. CASE ~(\E c \in Closers : Close(c))
  <2>1. is_not_running(lifecycle)
        BY <1>4, ServiceIsNext, OnlyCloseStores DEF is_not_running, load, from_u8
  <2>2. PICK c \in Closers : closer[c] \in {"stored", "capacity", "check"}
        BY <1>1, <2>1 DEF OpenShape
  <2>3. closer'[c] \in {"stored", "capacity", "check"}
    <3>1. ASSUME NEW t \in Tasks,
                 \/ Submitter(t) \/ Guard(t) \/ Cancel(t) \/ Canceller(t)
                 \/ WorkerPick(t) \/ WorkerDiscard(t) \/ WorkerReceive(t)
                 \/ WorkerMarkStarted(t) \/ WorkerCall(t) \/ WorkerReturn(t)
                 \/ WorkerFinish(t) \/ ReleaseNotifyCapacity(t)
          PROVE  UNCHANGED closer
          BY <3>1 DEF Submitter, SubmitSpawn, SubmitRegister, SubmitDeliver, SubmitReturn,
              Guard, GuardRemove, GuardFinish, Cancel, Canceller, CancelRemove, CancelFinish,
              CancelAbort, WorkerPick, WorkerDiscard, WorkerReceive, WorkerMarkStarted,
              WorkerCall, WorkerReturn, WorkerFinish, ReleaseNotifyCapacity
    <3>2. ASSUME OutsideMonitor PROVE closer'[c] \in {"stored", "capacity", "check"}
          BY <1>4, <2>2, <3>1, <3>2 DEF OutsideMonitor, CloseNotifyCapacity, StopTake,
              Sweep, StopAbort, StopHook, StopCancelled, CloseRuntime
    <3>3. ASSUME NEW n, NotifyWaiters(n)
          PROVE  closer'[c] \in {"stored", "capacity", "check"}
          BY <2>2, <3>3 DEF NotifyWaiters, ReleaseNotifyWaiters, CloseNotifyWaiters
    <3> QED BY <1>2, <3>2, <3>3
  <2> QED BY <2>3
<1> QED BY <1>3, <1>4

\* Every step of the service preserves the invariant.
LEMMA ServiceStepInv ==
    ASSUME TerminationInv, ServiceStep PROVE TerminationInv'
<1> USE DEF TerminationInv
<1>1. [Next]_vars /\ UNCHANGED <<waitVars, notified, observeVars>>
      BY ServiceIsNext, ServiceKeeps DEF ServiceStep, NotifyWaiters
<1>2. IndInv' /\ StopInv'
      BY <1>1, IndInvNext, StopInvNext
<1>3. WaitTypeOK' /\ ObserveTypeOK' /\ \A w \in Callers : PositionShape(w)'
      BY <1>1 DEF WaitTypeOK, ObserveTypeOK, PositionShape
<1>4. ByteShape'
  <2>1. is_not_running(lifecycle) => is_not_running(lifecycle)'
        BY <1>1, NeverReopened
  <2>2. \A o \in Observers : is_not_running(sample[o].byte)' <=> is_not_running(sample[o].byte)
        BY <1>1 DEF is_not_running, load, from_u8
  <2> QED BY <1>1, <2>1, <2>2 DEF ByteShape
<1>5. NotifiedShape'
      BY <1>1, ReleasingNext, CloserPositionNext DEF NotifiedShape
<1>6. OpenShape'
      BY OpenNext
<1>7. AsleepShape'
  <2>1. CASE is_terminated
    <3>1. ASSUME \E w \in Sleepers : waiter[w] = "asleep"
          PROVE  \E n \in Tasks \cup Closers : WillNotifyAll(n)'
          BY <2>1, <3>1, WillNotifyNext DEF AsleepShape
    <3> QED BY <1>1, <3>1 DEF AsleepShape
  <2>2. CASE ~is_terminated
        BY <2>2, TerminatingStep DEF AsleepShape
  <2> QED BY <2>1, <2>2
<1>8. NoEarlyReturn' /\ OwedShape'
  <2>1. is_terminated => is_terminated'
        BY <1>1, TerminatedNext
  <2> QED BY <1>1, <2>1 DEF NoEarlyReturn, OwedShape
<1> QED BY <1>2, <1>3, <1>4, <1>5, <1>6, <1>7, <1>8

-----------------------------------------------------------------------------
(* The steps of the waiters, the observers and notify_all.                 *)

\* A terminated service has a notify_all to come for a waiter that read Running: the
\* closer whose check is still to be made.
LEMMA OpenIsNotified ==
    ASSUME OpenShape, NotifiedShape, is_terminated, NEW w \in Sleepers, waiter[w] = "open"
    PROVE  \E n \in Tasks \cup Closers : WillNotifyAll(n)
<1>1. PICK c \in Closers : closer[c] \in {"stored", "capacity", "check"}
      BY DEF OpenShape, is_terminated
<1>2. c \notin notified
      BY <1>1, CallersAssumption DEF NotifiedShape
<1> QED BY <1>1, <1>2 DEF WillNotifyAll

\* What the service means to the others does not change when it stands still.
LEMMA ServiceStands ==
    ASSUME TerminationInv, UNCHANGED serviceVars
    PROVE  /\ IndInv' /\ StopInv'
           /\ is_not_running(lifecycle)' <=> is_not_running(lifecycle)
           /\ is_terminated' <=> is_terminated
           /\ UNCHANGED <<releasing, closer, queued, running, lifecycle>>
           /\ UNCHANGED notified => \A n : WillNotifyAll(n)' <=> WillNotifyAll(n)
<1>1. IndInv' /\ StopInv'
      BY IndInvNext, StopInvNext DEF TerminationInv
<1>2. UNCHANGED <<releasing, closer, queued, running, lifecycle>>
      BY DEF vars
<1>3. is_not_running(lifecycle)' <=> is_not_running(lifecycle)
      BY <1>2 DEF is_not_running, load, from_u8
<1>4. is_terminated' <=> is_terminated
      BY <1>2, <1>3 DEF is_terminated, is_empty
<1>5. UNCHANGED notified => \A n : WillNotifyAll(n)' <=> WillNotifyAll(n)
      BY <1>2 DEF WillNotifyAll
<1> QED BY <1>1, <1>2, <1>3, <1>4, <1>5

\* The operations of one waiter.
WaiterStep(w) == WaitCall(w) \/ Wait(w) \/ Tick(w) \/ TimedError(w)

\* They move no thread of the service, no notifier, no observer and no other waiter.
LEMMA WaiterKeeps ==
    ASSUME NEW w \in Callers, WaiterStep(w), WaitTypeOK
    PROVE  /\ UNCHANGED <<serviceVars, notified, observeVars>>
           /\ \A v \in Callers \ {w} : waiter'[v] = waiter[v]
           /\ owed' \ {w} = owed \ {w}
<1> USE DEF WaitTypeOK, Go
<1>1. ASSUME WaitEnter(w) \/ WaitLoad(w) \/ WaitDecide(w)
      PROVE  /\ UNCHANGED <<serviceVars, notified, observeVars>>
             /\ \A v \in Callers \ {w} : waiter'[v] = waiter[v]
             /\ owed' \ {w} = owed \ {w}
      BY <1>1 DEF WaitEnter, WaitLoad, WaitDecide
<1>2. ASSUME \/ TimedEnter(w) \/ TimedLoad(w) \/ TimedRead(w) \/ TimedDeadline(w)
             \/ TimedExpire(w) \/ Tick(w) \/ TimedError(w)
      PROVE  /\ UNCHANGED <<serviceVars, notified, observeVars>>
             /\ \A v \in Callers \ {w} : waiter'[v] = waiter[v]
             /\ owed' \ {w} = owed \ {w}
      BY <1>2 DEF TimedEnter, TimedLoad, TimedRead, TimedDeadline, TimedExpire, Tick,
                  TimedError, Owe
<1>3. ASSUME AwaitEnter(w) \/ AwaitLoad(w) \/ AwaitRead(w) \/ AwaitWake(w)
      PROVE  /\ UNCHANGED <<serviceVars, notified, observeVars>>
             /\ \A v \in Callers \ {w} : waiter'[v] = waiter[v]
             /\ owed' \ {w} = owed \ {w}
      BY <1>3 DEF AwaitEnter, AwaitLoad, AwaitRead, AwaitWake
<1> QED BY <1>1, <1>2, <1>3 DEF WaiterStep, WaitCall, Wait

\* A waiter stays within the positions of its operation, and enters and leaves the
\* monitor as its program counter says.
LEMMA WaiterPositions ==
    ASSUME TerminationInv, NEW w \in Callers, WaiterStep(w)
    PROVE  WaitTypeOK' /\ \A v \in Callers : PositionShape(v)'
<1> USE CallersAssumption DEF TerminationInv, WaitTypeOK, PositionShape, Go, Callers, Sleepers
<1> DEFINE Goal == WaitTypeOK' /\ \A v \in Callers : PositionShape(v)'
<1>1. ASSUME WaitEnter(w) PROVE Goal
      BY <1>1 DEF WaitEnter
<1>2. ASSUME WaitLoad(w) PROVE Goal
      BY <1>2 DEF WaitLoad, MonitorFree
<1>3. ASSUME WaitDecide(w) PROVE Goal
      BY <1>3 DEF WaitDecide, Success
<1>4. ASSUME TimedEnter(w) PROVE Goal
      BY <1>4, HoursAssumption DEF TimedEnter, Owe
<1>5. ASSUME TimedLoad(w) PROVE Goal
      BY <1>5 DEF TimedLoad
<1>6. ASSUME TimedRead(w) PROVE Goal
      BY <1>6 DEF TimedRead
<1>7. ASSUME TimedDeadline(w) \/ TimedExpire(w) \/ TimedError(w) PROVE Goal
      BY <1>7 DEF TimedDeadline, TimedExpire, TimedError, Owe
<1>8. ASSUME Tick(w) PROVE Goal
      BY <1>8 DEF Tick
<1>9. ASSUME AwaitEnter(w) \/ AwaitLoad(w) \/ AwaitRead(w) \/ AwaitWake(w) PROVE Goal
      BY <1>9 DEF AwaitEnter, AwaitLoad, AwaitRead, AwaitWake
<1> HIDE DEF Goal
<1>10. Goal
      BY <1>1, <1>2, <1>3, <1>4, <1>5, <1>6, <1>7, <1>8, <1>9 DEF WaiterStep, WaitCall, Wait
<1> QED BY <1>10 DEF Goal

\* What a waiter may conclude from the byte and the counts, and where it may fall asleep.
LEMMA WaiterConclusions ==
    ASSUME TerminationInv, NEW w \in Callers, WaiterStep(w)
    PROVE  /\ waiter'[w] \in {"closed", "top_read", "err_read", "read"}
                 => is_not_running(lifecycle)
           /\ waiter'[w] \in {"done", "true"} => is_terminated
           /\ waiter'[w] = "open" => waiter[w] = "open" \/ ~is_not_running(lifecycle)
           /\ waiter'[w] = "asleep" => \/ waiter[w] = "asleep" \/ ~is_terminated
                                       \/ waiter[w] = "open" /\ w \in Sleepers
           /\ w \in owed' => /\ is_terminated
                             /\ waiter'[w] \in {"top", "top_read", "err", "err_read"}
<1> USE DEF TerminationInv, WaitTypeOK, Go, Callers, Sleepers
<1>0. PositionShape(w)
      OBVIOUS
<1> DEFINE Goal ==
      /\ waiter'[w] \in {"closed", "top_read", "err_read", "read"} => is_not_running(lifecycle)
      /\ waiter'[w] \in {"done", "true"} => is_terminated
      /\ waiter'[w] = "open" => waiter[w] = "open" \/ ~is_not_running(lifecycle)
      /\ waiter'[w] = "asleep" => \/ waiter[w] = "asleep" \/ ~is_terminated
                                  \/ waiter[w] = "open" /\ w \in Sleepers
      /\ w \in owed' => /\ is_terminated
                        /\ waiter'[w] \in {"top", "top_read", "err", "err_read"}
<1>1. /\ waiter[w] \in {"closed", "top_read", "err_read", "read"} => is_not_running(lifecycle)
      /\ waiter[w] \in {"done", "true"} => is_terminated
      /\ w \in owed => /\ is_terminated
                       /\ waiter[w] \in {"top", "top_read", "err", "err_read"}
      BY DEF ByteShape, NoEarlyReturn, OwedShape
<1>2. ASSUME WaitEnter(w) PROVE Goal
      BY <1>1, <1>2 DEF WaitEnter
<1>3. ASSUME WaitLoad(w) PROVE Goal
      BY <1>1, <1>3 DEF WaitLoad
<1>4. ASSUME WaitDecide(w) PROVE Goal
      BY <1>0, <1>1, <1>4 DEF WaitDecide, Success, PositionShape, is_terminated
<1>5. ASSUME TimedEnter(w) \/ TimedExpire(w) \/ TimedError(w) PROVE Goal
      BY <1>1, <1>5 DEF TimedEnter, TimedExpire, TimedError, Owe
<1>6. ASSUME TimedLoad(w) PROVE Goal
      BY <1>1, <1>6 DEF TimedLoad, is_terminated
<1>7. ASSUME TimedRead(w) PROVE Goal
      BY <1>1, <1>7 DEF TimedRead, is_terminated
<1>8. ASSUME TimedDeadline(w) PROVE Goal
      BY <1>1, <1>8 DEF TimedDeadline
<1>9. ASSUME Tick(w) PROVE Goal
      BY <1>1, <1>9 DEF Tick
<1>10. ASSUME AwaitEnter(w) \/ AwaitLoad(w) \/ AwaitRead(w) \/ AwaitWake(w) PROVE Goal
      BY <1>1, <1>10 DEF AwaitEnter, AwaitLoad, AwaitRead, AwaitWake, is_terminated
<1> HIDE DEF Goal
<1>11. Goal
      BY <1>2, <1>3, <1>4, <1>5, <1>6, <1>7, <1>8, <1>9, <1>10
      DEF WaiterStep, WaitCall, Wait
<1> QED BY <1>11 DEF Goal

\* Every step of a waiter preserves the invariant.
LEMMA WaiterStepInv ==
    ASSUME TerminationInv, NEW w \in Callers, WaiterStep(w) PROVE TerminationInv'
<1>1. /\ UNCHANGED <<serviceVars, notified, observeVars>>
      /\ \A v \in Callers \ {w} : waiter'[v] = waiter[v]
      /\ owed' \ {w} = owed \ {w}
      BY WaiterKeeps DEF TerminationInv
<1>2. /\ IndInv' /\ StopInv'
      /\ is_not_running(lifecycle)' <=> is_not_running(lifecycle)
      /\ is_terminated' <=> is_terminated
      /\ UNCHANGED <<releasing, closer>>
      /\ \A n : WillNotifyAll(n)' <=> WillNotifyAll(n)
      BY <1>1, ServiceStands
<1>3. WaitTypeOK' /\ \A v \in Callers : PositionShape(v)'
      BY WaiterPositions
<1>4. ObserveTypeOK' /\ NotifiedShape'
      BY <1>1, <1>2 DEF TerminationInv, ObserveTypeOK, NotifiedShape
<1>5. /\ waiter'[w] \in {"closed", "top_read", "err_read", "read"} => is_not_running(lifecycle)
      /\ waiter'[w] \in {"done", "true"} => is_terminated
      /\ waiter'[w] = "open" => waiter[w] = "open" \/ ~is_not_running(lifecycle)
      /\ waiter'[w] = "asleep" => \/ waiter[w] = "asleep" \/ ~is_terminated
                                  \/ waiter[w] = "open" /\ w \in Sleepers
      /\ w \in owed' => /\ is_terminated
                        /\ waiter'[w] \in {"top", "top_read", "err", "err_read"}
      BY WaiterConclusions
<1>6. ByteShape'
  <2>1. \A o \in Observers : is_not_running(sample[o].byte)' <=> is_not_running(sample[o].byte)
        BY <1>1 DEF is_not_running, load, from_u8
  <2> QED BY <1>1, <1>2, <1>5, <2>1 DEF TerminationInv, ByteShape
<1>7. OpenShape'
      BY <1>1, <1>2, <1>5 DEF TerminationInv, OpenShape, Callers
<1>8. AsleepShape'
  <2>1. is_terminated /\ waiter[w] = "open" /\ w \in Sleepers
        => \E n \in Tasks \cup Closers : WillNotifyAll(n)
        BY OpenIsNotified DEF TerminationInv
  <2> QED BY <1>1, <1>2, <1>5, <2>1 DEF TerminationInv, AsleepShape, Callers
<1>9. NoEarlyReturn'
      BY <1>1, <1>2, <1>5 DEF TerminationInv, NoEarlyReturn
<1>10. OwedShape'
      BY <1>1, <1>2, <1>5 DEF TerminationInv, OwedShape, WaitTypeOK, Callers, Sleepers
<1> QED BY <1>2, <1>3, <1>4, <1>6, <1>7, <1>8, <1>9, <1>10 DEF TerminationInv

\* notify_all leaves nobody asleep, and a waiter in the monitor still has the check of
\* the thread that closed the service before it.
LEMMA NotifyAllInv ==
    ASSUME TerminationInv, NEW n \in Tasks \cup Closers, NotifyAll(n) PROVE TerminationInv'
<1>1. /\ UNCHANGED <<serviceVars, monitor, left, owed, observeVars>>
      /\ notified' = notified \cup {n}
      /\ waiter' = [w \in Callers |-> IF waiter[w] = "asleep" THEN "ready" ELSE waiter[w]]
      BY DEF NotifyAll, Woken
<1>2. /\ IndInv' /\ StopInv'
      /\ is_not_running(lifecycle)' <=> is_not_running(lifecycle)
      /\ is_terminated' <=> is_terminated
      /\ UNCHANGED <<releasing, closer>>
      BY <1>1, ServiceStands
<1>3. WaitTypeOK' /\ \A v \in Callers : PositionShape(v)'
      BY <1>1 DEF TerminationInv, WaitTypeOK, PositionShape
<1>4. ObserveTypeOK' /\ NotifiedShape'
      BY <1>1, <1>2 DEF NotifyAll, TerminationInv, ObserveTypeOK, NotifiedShape
<1>5. ByteShape'
  <2>1. \A o \in Observers : is_not_running(sample[o].byte)' <=> is_not_running(sample[o].byte)
        BY <1>1 DEF is_not_running, load, from_u8
  <2> QED BY <1>1, <1>2, <2>1 DEF TerminationInv, ByteShape
<1>6. OpenShape' /\ AsleepShape'
      BY <1>1, <1>2 DEF TerminationInv, OpenShape, AsleepShape, Callers
<1>7. NoEarlyReturn' /\ OwedShape'
      BY <1>1, <1>2 DEF TerminationInv, NoEarlyReturn, OwedShape, WaitTypeOK, Callers,
          Sleepers
<1> QED BY <1>2, <1>3, <1>4, <1>5, <1>6, <1>7 DEF TerminationInv

\* stats reports Terminated only from a byte and counts that mean it: the byte was not
\* running when it was loaded, and the counts are read after it.
LEMMA ObserveInv ==
    ASSUME TerminationInv, NEW o \in Observers, Observe(o) PROVE TerminationInv'
<1>1. UNCHANGED <<serviceVars, waitVars, notified>>
      BY DEF Observe, StatsCounts, StatsLoad, StatsRead
<1>2. /\ IndInv' /\ StopInv'
      /\ is_not_running(lifecycle)' <=> is_not_running(lifecycle)
      /\ is_terminated' <=> is_terminated
      /\ UNCHANGED <<releasing, closer, lifecycle>>
      /\ \A n : WillNotifyAll(n)' <=> WillNotifyAll(n)
      BY <1>1, ServiceStands
<1>3. /\ WaitTypeOK' /\ \A v \in Callers : PositionShape(v)'
      /\ NotifiedShape' /\ OpenShape' /\ AsleepShape' /\ OwedShape'
      BY <1>1, <1>2 DEF TerminationInv, WaitTypeOK, PositionShape, NotifiedShape, OpenShape,
                        AsleepShape, OwedShape
<1> USE DEF Running, ShuttingDown, Stopping, Terminated, is_not_running, load, from_u8
<1>4. /\ queued \in Nat /\ running \in Nat /\ lifecycle \in {Running, ShuttingDown, Stopping}
      BY DEF TerminationInv, IndInv, TypeOK, ServiceTypeOK
<1>5. ObserveTypeOK'
  <2>1. CASE StatsCounts(o)
        BY <1>4, <2>1 DEF StatsCounts, TerminationInv, ObserveTypeOK
  <2>2. CASE StatsLoad(o)
    <3>1. PICK b \in {Running, ShuttingDown, Stopping} : b = load(lifecycle)
          BY <1>4
    <3>2. sample' = [sample EXCEPT ![o].at = "read", ![o].byte = b] /\ UNCHANGED report
          BY <2>2, <3>1 DEF StatsLoad
    <3>3. ASSUME NEW r \in [at : {"start", "load", "read"}, queued : Nat, running : Nat,
                            byte : {Running, ShuttingDown, Stopping}]
          PROVE  [r EXCEPT !.at = "read", !.byte = b]
                     \in [at : {"start", "load", "read"}, queued : Nat, running : Nat,
                          byte : {Running, ShuttingDown, Stopping}]
          OBVIOUS
    <3> QED BY <3>2, <3>3 DEF TerminationInv, ObserveTypeOK
  <2>3. CASE StatsRead(o)
        BY <1>4, <2>3 DEF StatsRead, TerminationInv, ObserveTypeOK
  <2> QED BY <2>1, <2>2, <2>3 DEF Observe
<1>6. ByteShape'
      BY <1>1, <1>2, <1>4 DEF Observe, StatsCounts, StatsLoad, StatsRead, TerminationInv,
                              ObserveTypeOK, ByteShape
<1>7. NoEarlyReturn'
  <2>1. \A w \in Callers : waiter'[w] \in {"done", "true"} => is_terminated'
        BY <1>1, <1>2 DEF TerminationInv, NoEarlyReturn
  <2>2. \A p \in Observers : report[p].lifecycle = Terminated => is_terminated'
        BY <1>2 DEF TerminationInv, NoEarlyReturn
  <2>3. CASE StatsCounts(o) \/ StatsLoad(o)
        BY <2>1, <2>2, <2>3 DEF StatsCounts, StatsLoad, NoEarlyReturn
  <2>4. CASE StatsRead(o)
    <3>1. sample[o].at = "read" /\ sample[o].byte \in {Running, ShuttingDown, Stopping}
          BY <2>4 DEF StatsRead, TerminationInv, ObserveTypeOK
    <3>2. is_not_running(sample[o].byte) => is_not_running(lifecycle)
          BY <3>1 DEF TerminationInv, ByteShape
    <3>3. report'[o].lifecycle = Terminated => is_not_running(sample[o].byte) /\ is_empty
          BY <2>4, <3>1 DEF StatsRead, TerminationInv, ObserveTypeOK
    <3>4. \A p \in Observers \ {o} : report'[p] = report[p]
          BY <2>4 DEF StatsRead, TerminationInv, ObserveTypeOK
    <3>5. report'[o].lifecycle = Terminated => is_terminated'
          BY <1>2, <3>2, <3>3 DEF is_terminated
    <3> QED BY <2>1, <2>2, <3>4, <3>5 DEF NoEarlyReturn
  <2> QED BY <2>3, <2>4 DEF Observe
<1> QED BY <1>2, <1>3, <1>5, <1>6, <1>7 DEF TerminationInv

-----------------------------------------------------------------------------
(* The theorems.                                                           *)

\* The initial state satisfies the invariant.
LEMMA TerminationInit_Inv == TerminationInit => TerminationInv
<1> SUFFICES ASSUME TerminationInit PROVE TerminationInv
    OBVIOUS
<1>1. IndInv /\ StopInv
      BY IndInvInit, StopInvInit DEF TerminationInit
<1>2. WaitTypeOK /\ \A w \in Callers : PositionShape(w)
      BY CallersAssumption DEF TerminationInit, WaitTypeOK, PositionShape, Callers, Sleepers
<1>3. ObserveTypeOK
      BY DEF TerminationInit, ObserveTypeOK
<1>4. ByteShape /\ NotifiedShape /\ OpenShape /\ AsleepShape
      BY DEF TerminationInit, ByteShape, NotifiedShape, OpenShape, AsleepShape, Callers
<1>5. NoEarlyReturn /\ OwedShape
      BY DEF TerminationInit, NoEarlyReturn, OwedShape, Callers, Sleepers, Running,
             Terminated
<1> QED BY <1>1, <1>2, <1>3, <1>4, <1>5 DEF TerminationInv

\* Every step preserves it.
LEMMA TerminationNext_Inv == TerminationInv /\ [TerminationNext]_allVars => TerminationInv'
<1> SUFFICES ASSUME TerminationInv, [TerminationNext]_allVars PROVE TerminationInv'
    OBVIOUS
<1>1. ASSUME UNCHANGED allVars PROVE TerminationInv'
  <2>1. /\ IndInv' /\ StopInv'
        /\ is_not_running(lifecycle)' <=> is_not_running(lifecycle)
        /\ is_terminated' <=> is_terminated
        /\ UNCHANGED <<releasing, closer>>
        /\ \A n : WillNotifyAll(n)' <=> WillNotifyAll(n)
        BY <1>1, ServiceStands DEF allVars
  <2>2. \A o \in Observers : is_not_running(sample[o].byte)' <=> is_not_running(sample[o].byte)
        BY <1>1 DEF allVars, is_not_running, load, from_u8
  <2> QED BY <1>1, <2>1, <2>2 DEF allVars, TerminationInv, WaitTypeOK, ObserveTypeOK,
          PositionShape, ByteShape, NotifiedShape, OpenShape, AsleepShape, NoEarlyReturn,
          OwedShape
<1> QED BY <1>1, ServiceStepInv, WaiterStepInv, NotifyAllInv, ObserveInv
        DEF TerminationNext, ServiceStep, Notifier, WaiterStep

\* The invariant holds in every reachable state.
THEOREM TerminationInvariance == TerminationSpec => []TerminationInv
BY TerminationInit_Inv, TerminationNext_Inv, PTL DEF TerminationSpec

\* Nobody hears of termination early: a wait that returns, or stats that report
\* Terminated, tell the truth.
THEOREM WaitersReturnTheTruth == TerminationSpec => []NoEarlyReturn
<1>1. TerminationInv => NoEarlyReturn
      BY DEF TerminationInv
<1> QED BY <1>1, TerminationInvariance, PTL

\* No wake-up is lost between the store of the byte, made outside the monitor, and a
\* waiter about to sleep or asleep.
THEOREM NoWakeupIsLost == TerminationSpec => []NoLostWakeup
<1>1. TerminationInv => NoLostWakeup
      BY OpenIsNotified DEF TerminationInv, AsleepShape, NoLostWakeup
<1> QED BY <1>1, TerminationInvariance, PTL

\* wait_termination_timeout does not answer false for a service that was terminated when
\* the call began or during one of its slices, whether the slice ended by the clock or by
\* an error of the monitor, and however late the notification came.
THEOREM TimedWaitsNoticeTermination == TerminationSpec => []NoFalseAfterTermination
<1>1. TerminationInv => NoFalseAfterTermination
      BY DEF TerminationInv, OwedShape, NoFalseAfterTermination
<1> QED BY <1>1, TerminationInvariance, PTL
=============================================================================
