------------------------------ MODULE IoService ------------------------------
(***************************************************************************)
(* TokioIoExecutorService: a managed service that spawns user futures as   *)
(* Tokio tasks.  One atomic counter of accepted, unfinished tasks replaces *)
(* the queued/running pair of the blocking service, abort is final for any *)
(* suspended future, and termination waiters are async only.               *)
(*   submitter[t]  the caller inside try_spawn                             *)
(*   task[t]       Tokio's task for t: it waits for the payload, is polled,*)
(*                 suspended, and ends by completion or cancellation       *)
(*   guard[t]      the drop of t's TokioIoServiceTaskGuard, by its owner   *)
(*   closer[c]     a call of stop (c \in Stoppers) or shutdown (Shutters)  *)
(*   waiter[w]     a call of await_termination                             *)
(***************************************************************************)
EXTENDS ExecutorServiceLifecycleBits, FiniteSets

CONSTANTS
    Tasks, Capacity, Stoppers, Shutters, Waiters,
    RuntimeMayClose    \* may the bound runtime be shut down under the service?

Closers == Stoppers \cup Shutters

ASSUME TasksAssumption == IsFiniteSet(Tasks)
ASSUME ClosersAssumption == IsFiniteSet(Closers) /\ Stoppers \cap Shutters = {}
ASSUME CapacityAssumption == Capacity \in Nat \ {0}
ASSUME RuntimeAssumption == RuntimeMayClose \in BOOLEAN

VARIABLES
    \* TokioIoExecutorServiceState
    lifecycle, submission_lock, active_tasks,
    abort_handles,       \* tasks with an entry in the abort_handles map
    marker,              \* tasks whose TokioTaskRegistration is finished
    capacity_tx,         \* generation of the capacity watch channel
    termination_notify,  \* calls of notify_waiters
    \* Tokio and the payload
    task, channel, aborted, rt_closed,
    future,              \* where the user future is; "gone", or "discarded" unpolled
    outcome,             \* how the Tokio task ends
    guard,
    \* callers
    submitter, closer, handles, snapshot, cancelled,
    waiter, seen         \* seen: notify_waiters calls when notified() was created

lifeVars   == <<lifecycle, submission_lock>>
noteVars   == <<capacity_tx, termination_notify>>
entryVars  == <<abort_handles, marker>>
tokioVars  == <<task, channel, aborted, rt_closed, outcome>>
loadVars   == <<future, guard>>
stopVars   == <<handles, snapshot, cancelled>>
waitVars   == <<waiter, seen>>
vars == <<lifeVars, active_tasks, noteVars, entryVars, tokioVars, loadVars,
          submitter, closer, stopVars, waitVars>>

-----------------------------------------------------------------------------
(* Helpers.                                                                *)

is_terminated == is_not_running(lifecycle) /\ active_tasks = 0

\* submission_lock can be acquired.
\* Faulty variant: the caller does not lock.
lock_submission_skipped == TRUE

lock_submission == ~submission_lock

\* try_accept_task's test; the increment is an operation of its own on the counter.
HasCapacity == active_tasks < Capacity

\* prepare_spawn's first test, made under submission_lock.
AdmissionOpen == ~is_not_running(lifecycle)

\* A TokioGuardedIoFuture is dropped: its fields go in order, the user future and
\* then the guard.
\* Faulty variant: the guard is declared before the future.
DropPayload_guard_first(t) ==
    /\ guard' = [guard EXCEPT ![t] = "dropping"]
    /\ UNCHANGED future

DropPayload(t) ==
    /\ future' = [future EXCEPT ![t] = IF @ = "task" THEN "gone" ELSE "discarded"]
    /\ guard' = [guard EXCEPT ![t] = "dropping"]

-----------------------------------------------------------------------------
(* try_spawn: prepare_spawn under submission_lock, then deliver.            *)

\* prepare_spawn, rejected: the caller gets the future back.
SubmitRejected(t) ==
    /\ submitter[t] \in {"idle", "saturated"} /\ lock_submission
    /\ \/ /\ ~AdmissionOpen
          /\ submitter' = [submitter EXCEPT ![t] = "shutdown"]
       \/ /\ AdmissionOpen /\ ~HasCapacity
          /\ submitter' = [submitter EXCEPT ![t] = "saturated"]
    /\ UNCHANGED <<lifeVars, active_tasks, noteVars, entryVars, tokioVars, loadVars,
                   closer, stopVars, waitVars>>

\* prepare_spawn and try_accept_task pass their tests: active_tasks.get() is below the
\* capacity, and submission_lock stays held.
SubmitCheck(t) ==
    /\ submitter[t] \in {"idle", "saturated"} /\ lock_submission
    /\ AdmissionOpen /\ HasCapacity
    /\ submission_lock' = TRUE
    /\ submitter' = [submitter EXCEPT ![t] = "checked"]
    /\ UNCHANGED <<lifecycle, active_tasks, noteVars, entryVars, tokioVars, loadVars, closer,
                   stopVars, waitVars>>

\* active_tasks.inc(), which tests nothing, and the guard that will undo it.
SubmitAccepted(t) ==
    /\ submitter[t] = "checked"
    /\ active_tasks' = active_tasks + 1
    /\ submitter' = [submitter EXCEPT ![t] = "admitted"]
    /\ guard' = [guard EXCEPT ![t] = "held"]
    /\ future' = [future EXCEPT ![t] = "caller"]
    /\ UNCHANGED <<lifeVars, noteVars, entryVars, tokioVars, closer, stopVars, waitVars>>

\* runtime.spawn of the receiver-only task; a closed runtime cancels it at once.
SubmitSpawn(t) ==
    /\ submitter[t] = "admitted"
    /\ submitter' = [submitter EXCEPT ![t] = "spawned"]
    /\ task' = [task EXCEPT ![t] = IF rt_closed THEN "finished" ELSE "waiting"]
    /\ channel' = [channel EXCEPT ![t] = IF rt_closed THEN "closed" ELSE "open"]
    /\ outcome' = [outcome EXCEPT ![t] = IF rt_closed THEN "cancelled" ELSE @]
    /\ UNCHANGED <<lifeVars, active_tasks, noteVars, entryVars, aborted, rt_closed,
                   loadVars, closer, stopVars, waitVars>>

\* register_abort_handle; leaving prepare_spawn drops the admission guard.
SubmitRegister(t) ==
    /\ submitter[t] = "spawned"
    /\ submitter' = [submitter EXCEPT ![t] = "registered"]
    /\ submission_lock' = FALSE
    /\ abort_handles' = IF t \notin marker /\ task[t] # "finished"
                        THEN abort_handles \cup {t} ELSE abort_handles
    /\ UNCHANGED <<lifecycle, active_tasks, noteVars, marker, tokioVars, loadVars,
                   closer, stopVars, waitVars>>

\* TokioIoSpawnHandoff::deliver.
SubmitDeliver(t) ==
    /\ submitter[t] = "registered"
    /\ \/ /\ channel[t] = "open"
          /\ channel' = [channel EXCEPT ![t] = "sent"]
          /\ future' = [future EXCEPT ![t] = "channel"]
          /\ submitter' = [submitter EXCEPT ![t] = "returned"]
          /\ UNCHANGED guard
       \/ /\ channel[t] = "closed"
          /\ DropPayload(t)
          /\ submitter' = [submitter EXCEPT ![t] = "undelivered"]
          /\ UNCHANGED channel
    /\ UNCHANGED <<lifeVars, active_tasks, noteVars, entryVars, task, aborted, rt_closed,
                   outcome, closer, stopVars, waitVars>>

SubmitReturn(t) ==
    /\ submitter[t] = "undelivered" /\ guard[t] = "gone"
    /\ submitter' = [submitter EXCEPT ![t] = "returned"]
    /\ UNCHANGED <<lifeVars, active_tasks, noteVars, entryVars, tokioVars, loadVars,
                   closer, stopVars, waitVars>>

-----------------------------------------------------------------------------
(* The spawned task, scheduled by Tokio.                                    *)

\* A poll begins: of a suspended user future, or of the receiver once the payload
\* is there.  Tokio does not poll an aborted task again.
TaskPoll(t) ==
    /\ t \notin aborted
    /\ \/ task[t] = "waiting" /\ channel[t] = "sent"
       \/ task[t] = "suspended"
    /\ task' = [task EXCEPT ![t] = "polling"]
    /\ channel' = [channel EXCEPT ![t] = "received"]
    /\ future' = [future EXCEPT ![t] = "task"]
    /\ UNCHANGED <<lifeVars, active_tasks, noteVars, entryVars, aborted, rt_closed,
                   outcome, guard, submitter, closer, stopVars, waitVars>>

\* The user future returns Pending; an abort that arrived meanwhile is seen later.
TaskPending(t) ==
    /\ task[t] = "polling"
    /\ task' = [task EXCEPT ![t] = "suspended"]
    /\ UNCHANGED <<lifeVars, active_tasks, noteVars, entryVars, channel, aborted,
                   rt_closed, outcome, loadVars, submitter, closer, stopVars, waitVars>>

\* The user future is ready or panics: the payload is dropped inside this poll.
TaskReady(t) ==
    /\ task[t] = "polling"
    /\ task' = [task EXCEPT ![t] = "ending"]
    /\ \E o \in {"completed", "panicked"} : outcome' = [outcome EXCEPT ![t] = o]
    /\ DropPayload(t)
    /\ UNCHANGED <<lifeVars, active_tasks, noteVars, entryVars, channel, aborted,
                   rt_closed, submitter, closer, stopVars, waitVars>>

\* Tokio cancels an aborted task, or any task once the runtime shuts down, when it
\* is not being polled; the receiver or the guarded future is dropped.
TaskCancel(t) ==
    /\ t \in aborted \/ rt_closed
    /\ \/ /\ task[t] = "waiting" /\ channel[t] = "open"
          /\ channel' = [channel EXCEPT ![t] = "closed"]
          /\ UNCHANGED loadVars
       \/ /\ (task[t] = "waiting" /\ channel[t] = "sent") \/ task[t] = "suspended"
          /\ channel' = [channel EXCEPT ![t] = "received"]
          /\ DropPayload(t)
    /\ task' = [task EXCEPT ![t] = "ending"]
    /\ outcome' = [outcome EXCEPT ![t] = "cancelled"]
    /\ UNCHANGED <<lifeVars, active_tasks, noteVars, entryVars, aborted, rt_closed,
                   submitter, closer, stopVars, waitVars>>

\* Its captures dropped, the task completes and its JoinHandle becomes ready: the
\* guard is a field of the future it owned, unless the payload never arrived.
\* Faulty variant: the guard is owned elsewhere and dropped at some other time.
TaskFinish_detached(t) ==
    /\ task[t] = "ending"
    /\ task' = [task EXCEPT ![t] = "finished"]
    /\ UNCHANGED <<lifeVars, active_tasks, noteVars, entryVars, channel, aborted,
                   rt_closed, outcome, loadVars, submitter, closer, stopVars, waitVars>>

TaskFinish(t) ==
    /\ task[t] = "ending"
    /\ channel[t] = "closed" \/ guard[t] = "gone"
    /\ task' = [task EXCEPT ![t] = "finished"]
    /\ UNCHANGED <<lifeVars, active_tasks, noteVars, entryVars, channel, aborted,
                   rt_closed, outcome, loadVars, submitter, closer, stopVars, waitVars>>

CloseRuntime ==
    /\ RuntimeMayClose /\ ~rt_closed
    /\ rt_closed' = TRUE
    /\ UNCHANGED <<lifeVars, active_tasks, noteVars, entryVars, task, channel, aborted,
                   outcome, loadVars, submitter, closer, stopVars, waitVars>>

\* TokioTaskHandle::cancel on an unfinished task.
Cancel(t) ==
    /\ submitter[t] = "returned" /\ task[t] # "finished"
    /\ aborted' = aborted \cup {t}
    /\ UNCHANGED <<lifeVars, active_tasks, noteVars, entryVars, task, channel, rt_closed,
                   outcome, loadVars, submitter, closer, stopVars, waitVars>>

-----------------------------------------------------------------------------
(* Drop of TokioIoServiceTaskGuard.                                         *)

\* remove_abort_handle.
\* Faulty variant: only the marker is set, the entry stays.
GuardRemove_marker_only(t) ==
    /\ guard[t] = "dropping"
    /\ guard' = [guard EXCEPT ![t] = "removed"]
    /\ marker' = marker \cup {t}
    /\ UNCHANGED <<abort_handles, lifeVars, active_tasks, noteVars, tokioVars, future,
                   submitter, closer, stopVars, waitVars>>

GuardRemove(t) ==
    /\ guard[t] = "dropping"
    /\ guard' = [guard EXCEPT ![t] = "removed"]
    /\ marker' = marker \cup {t}
    /\ abort_handles' = abort_handles \ {t}
    /\ UNCHANGED <<lifeVars, active_tasks, noteVars, tokioVars, future, submitter, closer,
                   stopVars, waitVars>>

\* active_tasks.dec.
GuardDecrement(t) ==
    /\ guard[t] = "removed"
    /\ guard' = [guard EXCEPT ![t] = "released"]
    /\ active_tasks' = active_tasks - 1
    /\ UNCHANGED <<lifeVars, noteVars, entryVars, tokioVars, future, submitter, closer,
                   stopVars, waitVars>>

\* notify_capacity_changed.
\* Faulty variant: the unit is returned without a word.
GuardNotifyCapacity_skipped(t) ==
    /\ guard[t] = "released"
    /\ guard' = [guard EXCEPT ![t] = "notified"]
    /\ UNCHANGED <<lifeVars, active_tasks, noteVars, entryVars, tokioVars, future,
                   submitter, closer, stopVars, waitVars>>

GuardNotifyCapacity(t) ==
    /\ guard[t] = "released"
    /\ guard' = [guard EXCEPT ![t] = "notified"]
    /\ capacity_tx' = capacity_tx + 1
    /\ UNCHANGED <<lifeVars, active_tasks, termination_notify, entryVars, tokioVars, future,
                   submitter, closer, stopVars, waitVars>>

\* Faulty variant: the last guard leaves the waiters asleep.
GuardNotifyWaiters_skipped(t) ==
    /\ guard[t] = "notified"
    /\ guard' = [guard EXCEPT ![t] = "gone"]
    /\ UNCHANGED <<lifeVars, active_tasks, noteVars, entryVars, tokioVars, future,
                   submitter, closer, stopVars, waitVars>>

GuardNotifyWaiters(t) ==
    /\ guard[t] = "notified"
    /\ guard' = [guard EXCEPT ![t] = "gone"]
    /\ termination_notify' = termination_notify + 1
    /\ UNCHANGED <<lifeVars, active_tasks, capacity_tx, entryVars, tokioVars, future,
                   submitter, closer, stopVars, waitVars>>

-----------------------------------------------------------------------------
(* shutdown and stop.                                                       *)

Shutdown(c) ==
    /\ c \in Shutters /\ closer[c] = "idle" /\ lock_submission
    /\ lifecycle' = shutdown_bits(lifecycle)
    /\ closer' = [closer EXCEPT ![c] = "capacity"]
    /\ UNCHANGED <<submission_lock, active_tasks, noteVars, entryVars, tokioVars, loadVars,
                   submitter, stopVars, waitVars>>

StopStore(s) ==
    /\ s \in Stoppers /\ closer[s] = "idle" /\ lock_submission
    /\ submission_lock' = TRUE
    /\ lifecycle' = stop_bits(lifecycle)
    /\ closer' = [closer EXCEPT ![s] = "stored"]
    /\ UNCHANGED <<active_tasks, noteVars, entryVars, tokioVars, loadVars, submitter,
                   stopVars, waitVars>>

StopSnapshot(s) ==
    /\ closer[s] = "stored"
    /\ snapshot' = [snapshot EXCEPT ![s] = active_tasks]
    /\ submission_lock' = FALSE
    /\ closer' = [closer EXCEPT ![s] = "snapshotted"]
    /\ UNCHANGED <<lifecycle, active_tasks, noteVars, entryVars, tokioVars, loadVars,
                   submitter, handles, cancelled, waitVars>>

StopTake(s) ==
    /\ closer[s] = "snapshotted"
    /\ handles' = [handles EXCEPT ![s] = abort_handles]
    /\ abort_handles' = {}
    /\ closer' = [closer EXCEPT ![s] = "sweep"]
    /\ UNCHANGED <<lifeVars, active_tasks, noteVars, marker, tokioVars, loadVars,
                   submitter, snapshot, cancelled, waitVars>>

\* abort_tracked_tasks: an unfinished entry is aborted and counted.
StopAbort(s, t) ==
    /\ closer[s] = "sweep" /\ t \in handles[s]
    /\ handles' = [handles EXCEPT ![s] = @ \ {t}]
    /\ IF task[t] = "finished" THEN UNCHANGED <<aborted, cancelled>>
       ELSE /\ aborted' = aborted \cup {t}
            /\ cancelled' = [cancelled EXCEPT ![s] = @ \cup {t}]
    /\ UNCHANGED <<lifeVars, active_tasks, noteVars, entryVars, task, channel, rt_closed,
                   outcome, loadVars, submitter, closer, snapshot, waitVars>>

CloseNotifyCapacity(c) ==
    /\ \/ closer[c] = "capacity"
       \/ c \in Stoppers /\ closer[c] = "sweep" /\ handles[c] = {}
    /\ capacity_tx' = capacity_tx + 1
    /\ closer' = [closer EXCEPT ![c] = "waiters"]
    /\ UNCHANGED <<lifeVars, active_tasks, termination_notify, entryVars, tokioVars,
                   loadVars, submitter, stopVars, waitVars>>

CloseNotifyWaiters(c) ==
    /\ closer[c] = "waiters"
    /\ termination_notify' = termination_notify + 1
    /\ closer' = [closer EXCEPT ![c] = "done"]
    /\ UNCHANGED <<lifeVars, active_tasks, capacity_tx, entryVars, tokioVars, loadVars,
                   submitter, stopVars, waitVars>>

-----------------------------------------------------------------------------
(* await_termination.  notified() remembers how often waiters were notified *)
(* before it, so a notification after its creation completes it.           *)

\* notified() on entry.
WaiterEnter(w) ==
    /\ waiter[w] = "idle"
    /\ waiter' = [waiter EXCEPT ![w] = "load"]
    /\ seen' = [seen EXCEPT ![w] = termination_notify]
    /\ UNCHANGED <<lifeVars, active_tasks, noteVars, entryVars, tokioVars, loadVars,
                   submitter, closer, stopVars>>

\* lifecycle(): the byte is loaded first, the counter afterwards.
\* Faulty variant: an idle counter alone counts as terminated.
WaiterLoad_unchecked(w) ==
    /\ waiter[w] = "load"
    /\ waiter' = [waiter EXCEPT ![w] = "read"]
    /\ UNCHANGED <<lifeVars, active_tasks, noteVars, entryVars, tokioVars, loadVars,
                   submitter, closer, stopVars, seen>>

WaiterLoad(w) ==
    /\ waiter[w] = "load"
    /\ waiter' = [waiter EXCEPT ![w] =
          IF is_not_running(lifecycle) THEN "read" ELSE "await"]
    /\ UNCHANGED <<lifeVars, active_tasks, noteVars, entryVars, tokioVars, loadVars,
                   submitter, closer, stopVars, seen>>

WaiterRead(w) ==
    /\ waiter[w] = "read"
    /\ waiter' = [waiter EXCEPT ![w] = IF active_tasks = 0 THEN "done" ELSE "await"]
    /\ UNCHANGED <<lifeVars, active_tasks, noteVars, entryVars, tokioVars, loadVars,
                   submitter, closer, stopVars, seen>>

\* The notified() completes and is replaced by a fresh one before the next check.
WaiterWake(w) ==
    /\ waiter[w] = "await" /\ termination_notify # seen[w]
    /\ waiter' = [waiter EXCEPT ![w] = "load"]
    /\ seen' = [seen EXCEPT ![w] = termination_notify]
    /\ UNCHANGED <<lifeVars, active_tasks, noteVars, entryVars, tokioVars, loadVars,
                   submitter, closer, stopVars>>

-----------------------------------------------------------------------------
Init ==
    /\ lifecycle = Running /\ submission_lock = FALSE /\ active_tasks = 0
    /\ abort_handles = {} /\ marker = {}
    /\ capacity_tx = 0 /\ termination_notify = 0
    /\ task = [t \in Tasks |-> "none"]
    /\ channel = [t \in Tasks |-> "none"]
    /\ aborted = {} /\ rt_closed = FALSE
    /\ outcome = [t \in Tasks |-> "none"]
    /\ future = [t \in Tasks |-> "none"]
    /\ guard = [t \in Tasks |-> "none"]
    /\ submitter = [t \in Tasks |-> "idle"]
    /\ closer = [c \in Closers |-> "idle"]
    /\ handles = [s \in Stoppers |-> {}]
    /\ snapshot = [s \in Stoppers |-> 0]
    /\ cancelled = [s \in Stoppers |-> {}]
    /\ waiter = [w \in Waiters |-> "idle"]
    /\ seen = [w \in Waiters |-> 0]

Submit(t) == SubmitRejected(t) \/ SubmitCheck(t)
Submitter(t) == \/ SubmitAccepted(t) \/ SubmitSpawn(t) \/ SubmitRegister(t)
                \/ SubmitDeliver(t) \/ SubmitReturn(t)
Schedule(t) == TaskPoll(t) \/ TaskCancel(t) \/ TaskFinish(t)
UserCode(t) == TaskPending(t) \/ TaskReady(t)
Guard(t) == \/ GuardRemove(t) \/ GuardDecrement(t) \/ GuardNotifyCapacity(t)
            \/ GuardNotifyWaiters(t)
Close(c) == Shutdown(c) \/ StopStore(c)
Sweep(s) == \E t \in Tasks : StopAbort(s, t)
Closer(c) == \/ c \in Stoppers /\ (StopSnapshot(c) \/ StopTake(c) \/ Sweep(c))
             \/ CloseNotifyCapacity(c) \/ CloseNotifyWaiters(c)
Waiter(w) == WaiterLoad(w) \/ WaiterRead(w) \/ WaiterWake(w)

\* Every call has returned or awaits termination (WaitersReturn: not forever).
Settled ==
    /\ \A t \in Tasks : \/ submitter[t] \in {"idle", "saturated", "shutdown"}
                        \/ submitter[t] = "returned" /\ task[t] = "finished"
    /\ \A c \in Closers : closer[c] \in {"idle", "done"}
    /\ \A w \in Waiters : waiter[w] \in {"idle", "await", "done"}

\* Every step but the two that a task's owner decides on.
Proceed ==
    \/ \E t \in Tasks : Submitter(t) \/ Schedule(t) \/ UserCode(t) \/ Guard(t)
    \/ \E c \in Closers : Close(c) \/ Closer(c)
    \/ \E w \in Waiters : WaiterEnter(w) \/ Waiter(w)
    \/ CloseRuntime

Next ==
    \/ \E t \in Tasks : Submit(t) \/ Cancel(t)
    \/ Proceed
    \/ Settled /\ UNCHANGED vars

Spec == Init /\ [][Next]_vars

(***************************************************************************)
(* Fairness: callers inside the service and Tokio's scheduler make         *)
(* progress, an aborted or shut-down task is eventually cancelled, and a   *)
(* user future that is polled eventually becomes ready unless it is        *)
(* cancelled first.                                                        *)
(***************************************************************************)
Fairness ==
    /\ \A t \in Tasks :
          /\ WF_vars(Submitter(t)) /\ WF_vars(Schedule(t)) /\ WF_vars(Guard(t))
          /\ WF_vars(UserCode(t)) /\ SF_vars(TaskReady(t))
    /\ \A c \in Closers : WF_vars(Closer(c))
    /\ \A w \in Waiters : WF_vars(Waiter(w))

FairSpec == Spec /\ Fairness

-----------------------------------------------------------------------------
(* Properties.                                                             *)

\* The tasks that occupy a unit: from the increment to the decrement of active_tasks.
Unfinished == {t \in Tasks : guard[t] \in {"held", "dropping", "removed"}}

\* try_accept_task reads the counter and increments it in two operations, and guards
\* decrement it at any time in between; because the submitters share submission_lock no
\* two of them take the last unit, and no unit is lost or invented.
ActiveExact == /\ active_tasks = Cardinality(Unfinished)
               /\ active_tasks <= Capacity

\* The abort map holds unfinished tasks only: an entry leaves it before its unit is
\* released, and registration never adds one afterwards.
AbortEntriesLive == \A t \in abort_handles : guard[t] \in {"held", "dropping"}

\* Terminated means that every accepted user future has been destroyed: the guarded
\* future drops it before it drops the guard that releases the unit.
TerminatedDestroysFutures ==
    is_terminated => \A t \in Tasks : future[t] \in {"none", "gone", "discarded"}

\* Whoever holds the handle and sees the task finished finds its unit released:
\* unlike in the blocking service the guard is dropped before the result is published.
ResultImpliesReleased ==
    \A t \in Tasks : (submitter[t] = "returned" /\ task[t] = "finished")
                     => t \notin Unfinished

\* After a stop has returned, every task that is not finished or ending is aborted, or
\* a concurrent stop is about to abort it: no accepted task escapes the sweep.
StopReachesEveryTask ==
    \A s \in Stoppers : closer[s] = "done" =>
        \A t \in Tasks :
            task[t] \in {"waiting", "polling", "suspended"}
            => t \in aborted \/ \E r \in Stoppers : t \in handles[r]

\* A waiter that returned saw a terminated service, and it stays terminated.
WaitersSeeTermination == \A w \in Waiters : waiter[w] = "done" => is_terminated

\* After shutdown or stop every accepted future ends, however many polls it takes, and
\* no wake-up is lost: a waiter inside await_termination returns, whether the last guard,
\* shutdown or stop notified before or after its check.
WaitersReturn ==
    \A w \in Waiters : (waiter[w] # "idle" /\ is_not_running(lifecycle))
                       ~> waiter[w] = "done"
=============================================================================
