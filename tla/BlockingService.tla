--------------------------- MODULE BlockingService ---------------------------
(***************************************************************************)
(* TokioExecutorService: a managed service that runs blocking closures on  *)
(* Tokio's blocking pool, with bounded admission, queued/running           *)
(* accounting, shutdown, stop and per-task cancellation.                   *)
(*                                                                         *)
(* Every thread that touches the service is modelled at the granularity of *)
(* its atomic accesses: one mutex section, one atomic read-modify-write or *)
(* one notification per step.                                              *)
(*   submitter[t]  the caller inside try_submit*                           *)
(*   blocking[t]   Tokio's blocking task for t and the pool worker on it   *)
(*   guard[t]      the drop of t's TokioServiceTaskGuard, by its owner     *)
(*   releasing[t]  finish_task, by whichever thread won t's last transition*)
(*   canceller[t]  the TokioBlockingTaskHandle::cancel that wins t's status*)
(*   closer[c]     a call of stop (c \in Stoppers) or shutdown (Shutters)  *)
(***************************************************************************)
EXTENDS ExecutorServiceLifecycleBits, FiniteSets

CONSTANTS
    Runnables,         \* tasks given to try_submit: no result handle
    Callables,         \* tasks given to try_submit_callable
    TrackedCallables,  \* tasks given to try_submit_tracked_callable
    Capacity,          \* task_capacity: NonZeroUsize
    Stoppers,          \* calls of stop
    Shutters,          \* calls of shutdown
    RuntimeMayClose    \* may the bound runtime be shut down under the service?

Tasks   == Runnables \cup Callables \cup TrackedCallables
Closers == Stoppers \cup Shutters
HasSlot(t) == t \in Callables \cup TrackedCallables

ASSUME TasksAssumption ==
    /\ IsFiniteSet(Tasks)
    /\ Runnables \cap (Callables \cup TrackedCallables) = {}
    /\ Callables \cap TrackedCallables = {}
ASSUME ClosersAssumption ==
    /\ IsFiniteSet(Closers)
    /\ Stoppers \cap Shutters = {}
ASSUME CapacityAssumption == Capacity \in Nat \ {0}
ASSUME RuntimeAssumption == RuntimeMayClose \in BOOLEAN

VARIABLES
    \* TokioExecutorServiceState
    lifecycle,          \* the lifecycle byte
    submission_lock,    \* is submission_lock held?
    queued, running,    \* task_counts, read and written under its monitor
    abort_handles,      \* tasks with an entry in the abort_handles map
    capacity_tx,        \* generation of the capacity watch channel
    terminated_notify,  \* notifications sent to the termination waiters
    \* one accepted task: registration marker, tracker, guard
    marker,             \* tasks whose TokioTaskRegistration is finished
    task_state,         \* TokioServiceTaskTracker::task_state
    guard, releasing,
    \* the result slot shared by the closure and the stop hook
    slot_refs,          \* owners of the Arc<TaskSlotCell>
    cell,               \* "full" while the TaskSlot is in the cell
    status,             \* the task status the handle observes
    \* Tokio: the blocking task and the oneshot that delivers the closure
    blocking, channel, aborted, rt_closed,
    called,             \* tasks whose user closure has been entered
    \* callers
    submitter, canceller,
    closer,
    handles,            \* entries a stop took out of abort_handles
    hook,               \* progress of the stop hook of a taken entry
    snapshot,           \* the counts a stop saw
    cancelled           \* the tasks a stop counted as cancelled

lifeVars   == <<lifecycle, submission_lock>>
countVars  == <<queued, running>>
noteVars   == <<capacity_tx, terminated_notify>>
trackVars  == <<task_state, guard, releasing>>
entryVars  == <<abort_handles, marker>>
slotVars   == <<slot_refs, cell, status>>
tokioVars  == <<blocking, channel, aborted, rt_closed, called>>
stopVars   == <<handles, hook, snapshot, cancelled>>
callerVars == <<submitter, canceller, closer, stopVars>>
vars == <<lifeVars, countVars, noteVars, trackVars, entryVars, slotVars,
          tokioVars, callerVars>>

-----------------------------------------------------------------------------
(* Helpers.                                                                *)

\* Faulty variant: started tasks are forgotten.
is_empty_queued_only == queued = 0

is_empty == queued = 0 /\ running = 0

\* lifecycle() == Terminated.
is_terminated == is_not_running(lifecycle) /\ is_empty

\* submission_lock can be acquired.
\* Faulty variant: the caller does not lock.
lock_submission_skipped == TRUE

lock_submission == ~submission_lock

\* try_accept_task's test.
\* Faulty variant: only queued tasks count against the capacity.
HasCapacity_queued_only == queued < Capacity

HasCapacity == queued + running < Capacity

\* prepare_blocking_submission's first test, made under submission_lock.
\* Faulty variant: the lifecycle is not consulted.
AdmissionOpen_unchecked == TRUE

AdmissionOpen == ~is_not_running(lifecycle)

saturating_dec(n) == IF n > 0 THEN n - 1 ELSE 0

\* Dropping some of the owners of t's slot cell.  The last owner drops the
\* TaskSlot if nobody took it, and an unfinished slot publishes Dropped.
\* Faulty variant: the slot is leaked and its handle never hears of it.
ReleaseSlot_leaked(t, owners) ==
    /\ slot_refs' = [slot_refs EXCEPT ![t] = @ \ owners]
    /\ UNCHANGED <<status, cell>>

\* Faulty variant: the last owner reports Dropped whatever the handle was told before.
ReleaseSlot_overwrites(t, owners) ==
    /\ slot_refs' = [slot_refs EXCEPT ![t] = @ \ owners]
    /\ status' = [status EXCEPT ![t] =
          IF slot_refs[t] # {} /\ slot_refs[t] \subseteq owners /\ cell[t] = "full"
          THEN "dropped" ELSE @]
    /\ UNCHANGED cell

ReleaseSlot(t, owners) ==
    /\ slot_refs' = [slot_refs EXCEPT ![t] = @ \ owners]
    /\ status' = [status EXCEPT ![t] =
          IF /\ slot_refs[t] # {} /\ slot_refs[t] \subseteq owners
             /\ cell[t] = "full" /\ status[t] = "pending"
          THEN "dropped" ELSE @]
    /\ UNCHANGED cell

\* The slot is taken out of its cell and, if still pending, cancelled.
\* Faulty variant: the hook only settles the accounting.
cancel_unstarted_skipped(t) == UNCHANGED <<cell, status>>

cancel_unstarted(t) ==
    /\ cell' = [cell EXCEPT ![t] = IF @ = "full" THEN "taken" ELSE @]
    /\ status' = [status EXCEPT ![t] =
          IF cell[t] = "full" /\ @ = "pending" THEN "cancelled" ELSE @]

\* marker.finish(), then the entry (and the hook in it) leaves the map.
\* Faulty variant: the entry stays in the map.
remove_abort_handle_marker_only(t) ==
    marker' = marker \cup {t} /\ UNCHANGED <<abort_handles, slotVars>>

remove_abort_handle(t) ==
    /\ marker' = marker \cup {t}
    /\ abort_handles' = abort_handles \ {t}
    /\ ReleaseSlot(t, IF t \in abort_handles THEN {"hook"} ELSE {})

\* AbortHandle::abort reaches a blocking task only while it is queued.
abort(t) == aborted' = IF blocking[t] = "queued" THEN aborted \cup {t} ELSE aborted

\* compare_exchange(QUEUED, FINISHED); the winner goes on to finish_task(false).
\* Faulty variant: an unconditional store.
finish_queued_stored(t) ==
    /\ task_state' = [task_state EXCEPT ![t] = "FINISHED"]
    /\ releasing' = [releasing EXCEPT ![t] = "queued"]

finish_queued(t) ==
    /\ task_state[t] = "QUEUED"
    /\ task_state' = [task_state EXCEPT ![t] = "FINISHED"]
    /\ releasing' = [releasing EXCEPT ![t] = "queued"]

\* The guard of t is gone: another thread had finished t, or its own finish ended.
GuardDropped(t) == \/ guard[t] = "gone"
                   \/ guard[t] = "finishing" /\ releasing[t] = "done"

-----------------------------------------------------------------------------
(* Submission: try_submit, try_submit_callable, try_submit_tracked_callable *)

\* prepare_blocking_submission, rejected: the caller gets the task back.
\* Faulty variant: the unit is taken before the capacity is compared.
SubmitRejected_counted(t) ==
    /\ submitter[t] \in {"idle", "saturated"} /\ lock_submission
    /\ \/ /\ ~AdmissionOpen
          /\ submitter' = [submitter EXCEPT ![t] = "shutdown"]
          /\ UNCHANGED queued
       \/ /\ AdmissionOpen /\ ~HasCapacity
          /\ submitter' = [submitter EXCEPT ![t] = "saturated"]
          /\ queued' = queued + 1
    /\ UNCHANGED <<lifeVars, running, noteVars, trackVars, entryVars, slotVars,
                   tokioVars, canceller, closer, stopVars>>

SubmitRejected(t) ==
    /\ submitter[t] \in {"idle", "saturated"} /\ lock_submission
    /\ \/ /\ ~AdmissionOpen
          /\ submitter' = [submitter EXCEPT ![t] = "shutdown"]
       \/ /\ AdmissionOpen /\ ~HasCapacity
          /\ submitter' = [submitter EXCEPT ![t] = "saturated"]
    /\ UNCHANGED <<lifeVars, countVars, noteVars, trackVars, entryVars, slotVars,
                   tokioVars, canceller, closer, stopVars>>

\* prepare_blocking_submission, accepted: the admission guard stays held.
SubmitAccepted(t) ==
    /\ submitter[t] \in {"idle", "saturated"} /\ lock_submission
    /\ AdmissionOpen /\ HasCapacity
    /\ queued' = queued + 1
    /\ submission_lock' = TRUE
    /\ submitter' = [submitter EXCEPT ![t] = "admitted"]
    /\ task_state' = [task_state EXCEPT ![t] = "QUEUED"]
    /\ guard' = [guard EXCEPT ![t] = "held"]
    /\ UNCHANGED <<lifecycle, running, noteVars, releasing, entryVars, slotVars,
                   tokioVars, canceller, closer, stopVars>>

\* Endpoint pair, shared slot and spawn_blocking.  A closed runtime drops the
\* spawned closure, and with it the receiver, at once.
SubmitSpawn(t) ==
    /\ submitter[t] = "admitted"
    /\ submitter' = [submitter EXCEPT ![t] = "spawned"]
    /\ IF HasSlot(t)
       THEN /\ slot_refs' = [slot_refs EXCEPT ![t] = {"closure", "hook"}]
            /\ cell' = [cell EXCEPT ![t] = "full"]
            /\ status' = [status EXCEPT ![t] = "pending"]
       ELSE UNCHANGED slotVars
    /\ blocking' = [blocking EXCEPT ![t] = IF rt_closed THEN "finished" ELSE "queued"]
    /\ channel' = [channel EXCEPT ![t] = IF rt_closed THEN "closed" ELSE "open"]
    /\ UNCHANGED <<lifeVars, countVars, noteVars, trackVars, entryVars, aborted,
                   rt_closed, called, canceller, closer, stopVars>>

\* register_abort_handle, then the admission guard is dropped.
SubmitRegister(t) ==
    /\ submitter[t] = "spawned"
    /\ submitter' = [submitter EXCEPT ![t] = "registered"]
    /\ submission_lock' = FALSE
    /\ IF t \notin marker /\ blocking[t] # "finished"
       THEN /\ abort_handles' = abort_handles \cup {t}
            /\ UNCHANGED slotVars
       ELSE /\ ReleaseSlot(t, {"hook"})
            /\ UNCHANGED abort_handles
    /\ UNCHANGED <<lifecycle, countVars, noteVars, trackVars, marker, tokioVars,
                   canceller, closer, stopVars>>

\* sender.send: delivered, or the receiver is gone and the caller drops the
\* closure and then the guard.
SubmitDeliver(t) ==
    /\ submitter[t] = "registered"
    /\ \/ /\ channel[t] = "open"
          /\ channel' = [channel EXCEPT ![t] = "sent"]
          /\ submitter' = [submitter EXCEPT ![t] = "returned"]
          /\ UNCHANGED <<slotVars, guard>>
       \/ /\ channel[t] = "closed"
          /\ ReleaseSlot(t, {"closure"})
          /\ guard' = [guard EXCEPT ![t] = "dropping"]
          /\ submitter' = [submitter EXCEPT ![t] = "undelivered"]
          /\ UNCHANGED channel
    /\ UNCHANGED <<lifeVars, countVars, noteVars, task_state, releasing, entryVars,
                   blocking, aborted, rt_closed, called, canceller, closer, stopVars>>

\* The undelivered payload is dropped; the handle is returned.
SubmitReturn(t) ==
    /\ submitter[t] = "undelivered" /\ GuardDropped(t)
    /\ submitter' = [submitter EXCEPT ![t] = "returned"]
    /\ UNCHANGED <<lifeVars, countVars, noteVars, trackVars, entryVars, slotVars,
                   tokioVars, canceller, closer, stopVars>>

-----------------------------------------------------------------------------
(* The blocking pool and the closure spawn_accepted_blocking_task gives it. *)

\* A pool worker starts the queued task and waits for its payload.
WorkerPick(t) ==
    /\ blocking[t] = "queued" /\ t \notin aborted
    /\ blocking' = [blocking EXCEPT ![t] = "recv"]
    /\ UNCHANGED <<lifeVars, countVars, noteVars, trackVars, entryVars, slotVars,
                   channel, aborted, rt_closed, called, callerVars>>

\* The pool drops an aborted task, or any queued task once the runtime shuts
\* down; a payload already in the channel is dropped with the receiver.
WorkerDiscard(t) ==
    /\ blocking[t] = "queued" /\ (t \in aborted \/ rt_closed)
    /\ \/ /\ channel[t] = "open"
          /\ channel' = [channel EXCEPT ![t] = "closed"]
          /\ blocking' = [blocking EXCEPT ![t] = "finished"]
          /\ UNCHANGED <<slotVars, guard>>
       \/ /\ channel[t] = "sent"
          /\ channel' = [channel EXCEPT ![t] = "received"]
          /\ ReleaseSlot(t, {"closure"})
          /\ guard' = [guard EXCEPT ![t] = "dropping"]
          /\ blocking' = [blocking EXCEPT ![t] = "discard"]
    /\ UNCHANGED <<lifeVars, countVars, noteVars, task_state, releasing, entryVars,
                   aborted, rt_closed, called, callerVars>>

\* receiver.blocking_recv().
WorkerReceive(t) ==
    /\ blocking[t] = "recv" /\ channel[t] = "sent"
    /\ channel' = [channel EXCEPT ![t] = "received"]
    /\ blocking' = [blocking EXCEPT ![t] = "mark"]
    /\ UNCHANGED <<lifeVars, countVars, noteVars, trackVars, entryVars, slotVars,
                   aborted, rt_closed, called, callerVars>>

\* guard.mark_started(): compare_exchange(QUEUED, RUNNING).  Called once per guard,
\* so RUNNING, which the code accepts too, is never found.  When the exchange
\* loses, the worker drops the guard first and the closure after it.
WorkerMarkStarted(t) ==
    /\ blocking[t] = "mark"
    /\ \/ /\ task_state[t] = "QUEUED"
          /\ task_state' = [task_state EXCEPT ![t] = "RUNNING"]
          /\ blocking' = [blocking EXCEPT ![t] = "count"]
          /\ UNCHANGED guard
       \/ /\ task_state[t] = "FINISHED"
          /\ guard' = [guard EXCEPT ![t] = "dropping"]
          /\ blocking' = [blocking EXCEPT ![t] = "skip"]
          /\ UNCHANGED task_state
    /\ UNCHANGED <<lifeVars, countVars, noteVars, releasing, entryVars, slotVars,
                   channel, aborted, rt_closed, called, callerVars>>

\* mark_task_started: one write of the counts.
WorkerCount(t) ==
    /\ blocking[t] = "count"
    /\ queued' = saturating_dec(queued)
    /\ running' = running + 1
    /\ blocking' = [blocking EXCEPT ![t] = "take"]
    /\ UNCHANGED <<lifeVars, noteVars, trackVars, entryVars, slotVars, channel,
                   aborted, rt_closed, called, callerVars>>

\* task(): the closure takes its slot and TaskRunner starts the user code,
\* unless the handle was cancelled in the meantime.
WorkerCall(t) ==
    /\ blocking[t] = "take"
    /\ cell' = [cell EXCEPT ![t] = IF @ = "full" THEN "taken" ELSE @]
    /\ \/ /\ ~HasSlot(t) \/ (cell[t] = "full" /\ status[t] = "pending")
          /\ called' = called \cup {t}
          /\ status' = [status EXCEPT ![t] = IF HasSlot(t) THEN "running" ELSE @]
          /\ blocking' = [blocking EXCEPT ![t] = "call"]
          /\ UNCHANGED <<guard, slot_refs>>
       \/ /\ HasSlot(t) /\ ~(cell[t] = "full" /\ status[t] = "pending")
          /\ slot_refs' = [slot_refs EXCEPT ![t] = @ \ {"closure"}]
          /\ guard' = [guard EXCEPT ![t] = "dropping"]
          /\ blocking' = [blocking EXCEPT ![t] = "unwind"]
          /\ UNCHANGED <<called, status>>
    /\ UNCHANGED <<lifeVars, countVars, noteVars, task_state, releasing, entryVars,
                   channel, aborted, rt_closed, callerVars>>

\* The user code returns or panics; TaskRunner publishes the result, the closure
\* is consumed and the guard goes out of scope.
WorkerReturn(t) ==
    /\ blocking[t] = "call"
    /\ status' = [status EXCEPT ![t] = IF HasSlot(t) THEN "completed" ELSE @]
    /\ slot_refs' = [slot_refs EXCEPT ![t] = @ \ {"closure"}]
    /\ guard' = [guard EXCEPT ![t] = "dropping"]
    /\ blocking' = [blocking EXCEPT ![t] = "unwind"]
    /\ UNCHANGED <<lifeVars, countVars, noteVars, task_state, releasing, entryVars,
                   cell, channel, aborted, rt_closed, called, callerVars>>

\* The blocking task completes once its captures are dropped.
WorkerFinish(t) ==
    /\ blocking[t] \in {"skip", "unwind", "discard"} /\ GuardDropped(t)
    /\ blocking' = [blocking EXCEPT ![t] = "finished"]
    /\ IF blocking[t] = "skip" THEN ReleaseSlot(t, {"closure"}) ELSE UNCHANGED slotVars
    /\ UNCHANGED <<lifeVars, countVars, noteVars, trackVars, entryVars, channel,
                   aborted, rt_closed, called, callerVars>>

\* The owner of the runtime shuts it down.
CloseRuntime ==
    /\ RuntimeMayClose /\ ~rt_closed
    /\ rt_closed' = TRUE
    /\ UNCHANGED <<lifeVars, countVars, noteVars, trackVars, entryVars, slotVars,
                   blocking, channel, aborted, called, callerVars>>

-----------------------------------------------------------------------------
(* Drop of TokioServiceTaskGuard, and finish_task.                          *)

GuardRemove(t) ==
    /\ guard[t] = "dropping"
    /\ guard' = [guard EXCEPT ![t] = "removed"]
    /\ remove_abort_handle(t)
    /\ UNCHANGED <<lifeVars, countVars, noteVars, task_state, releasing, tokioVars,
                   callerVars>>

\* tracker.finish(): swap(FINISHED); only the first to finish releases the counts.
GuardFinish(t) ==
    /\ guard[t] = "removed"
    /\ task_state' = [task_state EXCEPT ![t] = "FINISHED"]
    /\ \/ /\ task_state[t] = "FINISHED"
          /\ guard' = [guard EXCEPT ![t] = "gone"]
          /\ UNCHANGED releasing
       \/ /\ task_state[t] # "FINISHED"
          /\ guard' = [guard EXCEPT ![t] = "finishing"]
          /\ releasing' = [releasing EXCEPT ![t] =
                IF task_state[t] = "RUNNING" THEN "running" ELSE "queued"]
    /\ UNCHANGED <<lifeVars, countVars, noteVars, entryVars, slotVars, tokioVars,
                   callerVars>>

\* finish_task: the counts are released and the lifecycle read in one write section.
ReleaseCount(t) ==
    /\ releasing[t] \in {"queued", "running"}
    /\ queued' = IF releasing[t] = "queued" THEN saturating_dec(queued) ELSE queued
    /\ running' = IF releasing[t] = "running" THEN saturating_dec(running) ELSE running
    /\ releasing' = [releasing EXCEPT ![t] =
          IF is_not_running(lifecycle) /\ queued' = 0 /\ running' = 0
          THEN "capacity_last" ELSE "capacity"]
    /\ UNCHANGED <<lifeVars, noteVars, task_state, guard, entryVars, slotVars,
                   tokioVars, callerVars>>

ReleaseNotifyCapacity(t) ==
    /\ releasing[t] \in {"capacity", "capacity_last"}
    /\ capacity_tx' = capacity_tx + 1
    /\ releasing' = [releasing EXCEPT ![t] =
          IF @ = "capacity_last" THEN "waiters" ELSE "done"]
    /\ UNCHANGED <<lifeVars, countVars, terminated_notify, task_state, guard,
                   entryVars, slotVars, tokioVars, callerVars>>

ReleaseNotifyWaiters(t) ==
    /\ releasing[t] = "waiters"
    /\ terminated_notify' = terminated_notify + 1
    /\ releasing' = [releasing EXCEPT ![t] = "done"]
    /\ UNCHANGED <<lifeVars, countVars, capacity_tx, task_state, guard,
                   entryVars, slotVars, tokioVars, callerVars>>

-----------------------------------------------------------------------------
(* TokioBlockingTaskHandle::cancel and its cancellation endpoints.  A cancel *)
(* that does not win the status transition returns without any effect.      *)

Cancel(t) ==
    /\ t \in TrackedCallables /\ submitter[t] = "returned"
    /\ status[t] = "pending"
    /\ status' = [status EXCEPT ![t] = "cancelled"]
    /\ canceller' = [canceller EXCEPT ![t] = "won"]
    /\ UNCHANGED <<lifeVars, countVars, noteVars, trackVars, entryVars, slot_refs,
                   cell, tokioVars, submitter, closer, stopVars>>

CancelRemove(t) ==
    /\ canceller[t] = "won"
    /\ canceller' = [canceller EXCEPT ![t] = "removed"]
    /\ remove_abort_handle(t)
    /\ UNCHANGED <<lifeVars, countVars, noteVars, trackVars, tokioVars, submitter,
                   closer, stopVars>>

CancelFinish(t) ==
    /\ canceller[t] = "removed"
    /\ \/ /\ finish_queued(t)
          /\ canceller' = [canceller EXCEPT ![t] = "finishing"]
       \/ /\ task_state[t] # "QUEUED"
          /\ canceller' = [canceller EXCEPT ![t] = "lost"]
          /\ UNCHANGED <<task_state, releasing>>
    /\ UNCHANGED <<lifeVars, countVars, noteVars, guard, entryVars, slotVars,
                   tokioVars, submitter, closer, stopVars>>

CancelAbort(t) ==
    /\ \/ canceller[t] = "lost"
       \/ canceller[t] = "finishing" /\ releasing[t] = "done"
    /\ canceller' = [canceller EXCEPT ![t] = "done"]
    /\ abort(t)
    /\ UNCHANGED <<lifeVars, countVars, noteVars, trackVars, entryVars, slotVars,
                   blocking, channel, rt_closed, called, submitter, closer, stopVars>>

-----------------------------------------------------------------------------
(* shutdown and stop.                                                       *)

\* Faulty variant: shutdown aborts the queued tasks as well.
Shutdown_aborting(c) ==
    /\ c \in Shutters /\ closer[c] = "idle" /\ lock_submission
    /\ lifecycle' = shutdown_bits(lifecycle)
    /\ closer' = [closer EXCEPT ![c] = "capacity"]
    /\ aborted' = aborted \cup {t \in Tasks : blocking[t] = "queued"}
    /\ UNCHANGED <<submission_lock, countVars, noteVars, trackVars, entryVars,
                   slotVars, blocking, channel, rt_closed, called, submitter,
                   canceller, stopVars>>

Shutdown(c) ==
    /\ c \in Shutters /\ closer[c] = "idle" /\ lock_submission
    /\ lifecycle' = shutdown_bits(lifecycle)
    /\ closer' = [closer EXCEPT ![c] = "capacity"]
    /\ UNCHANGED <<submission_lock, countVars, noteVars, trackVars, entryVars,
                   slotVars, tokioVars, submitter, canceller, stopVars>>

StopStore(s) ==
    /\ s \in Stoppers /\ closer[s] = "idle" /\ lock_submission
    /\ submission_lock' = TRUE
    /\ lifecycle' = stop_bits(lifecycle)
    /\ closer' = [closer EXCEPT ![s] = "stored"]
    /\ UNCHANGED <<countVars, noteVars, trackVars, entryVars, slotVars, tokioVars,
                   submitter, canceller, stopVars>>

StopSnapshot(s) ==
    /\ closer[s] = "stored"
    /\ snapshot' = [snapshot EXCEPT ![s] = [queued |-> queued, running |-> running]]
    /\ submission_lock' = FALSE
    /\ closer' = [closer EXCEPT ![s] = "snapshotted"]
    /\ UNCHANGED <<lifecycle, countVars, noteVars, trackVars, entryVars, slotVars,
                   tokioVars, submitter, canceller, handles, hook, cancelled>>

\* abort_tracked_tasks: the whole map is taken, then swept entry by entry.
StopTake(s) ==
    /\ closer[s] = "snapshotted"
    /\ handles' = [handles EXCEPT ![s] = abort_handles]
    /\ abort_handles' = {}
    /\ closer' = [closer EXCEPT ![s] = "sweep"]
    /\ UNCHANGED <<lifeVars, countVars, noteVars, trackVars, marker, slotVars,
                   tokioVars, submitter, canceller, hook, snapshot, cancelled>>

\* if !handle.is_finished() { handle.abort(); ... }: a finished entry is dropped.
StopAbort(s, t) ==
    /\ closer[s] = "sweep" /\ t \in handles[s]
    /\ \A u \in handles[s] : hook[u] = "idle"
    /\ \/ /\ blocking[t] = "finished"
          /\ handles' = [handles EXCEPT ![s] = @ \ {t}]
          /\ ReleaseSlot(t, {"hook"})
          /\ UNCHANGED <<aborted, hook>>
       \/ /\ blocking[t] # "finished"
          /\ abort(t)
          /\ hook' = [hook EXCEPT ![t] = "aborted"]
          /\ UNCHANGED <<slotVars, handles>>
    /\ UNCHANGED <<lifeVars, countVars, noteVars, trackVars, entryVars, blocking,
                   channel, rt_closed, called, submitter, canceller, closer,
                   snapshot, cancelled>>

\* (tracked.cancel)(): finish_queued; a hook that loses is dropped uncounted.
StopHook(s, t) ==
    /\ t \in handles[s] /\ hook[t] = "aborted"
    /\ \/ /\ finish_queued(t)
          /\ hook' = [hook EXCEPT ![t] = "finishing"]
          /\ UNCHANGED <<slotVars, handles>>
       \/ /\ task_state[t] # "QUEUED"
          /\ handles' = [handles EXCEPT ![s] = @ \ {t}]
          /\ hook' = [hook EXCEPT ![t] = "idle"]
          /\ ReleaseSlot(t, {"hook"})
          /\ UNCHANGED <<task_state, releasing>>
    /\ UNCHANGED <<lifeVars, countVars, noteVars, guard, entryVars, tokioVars,
                   submitter, canceller, closer, snapshot, cancelled>>

\* slot.cancel_unstarted() once the accounting is released; the hook returns true.
StopCancelled(s, t) ==
    /\ t \in handles[s] /\ hook[t] = "finishing" /\ releasing[t] = "done"
    /\ handles' = [handles EXCEPT ![s] = @ \ {t}]
    /\ hook' = [hook EXCEPT ![t] = "idle"]
    /\ cancelled' = [cancelled EXCEPT ![s] = @ \cup {t}]
    /\ cancel_unstarted(t)
    /\ slot_refs' = [slot_refs EXCEPT ![t] = @ \ {"hook"}]
    /\ UNCHANGED <<lifeVars, countVars, noteVars, trackVars, entryVars, tokioVars,
                   submitter, canceller, closer, snapshot>>

\* notify_capacity_changed, of shutdown at once and of stop after the sweep.
\* Faulty variant: only a released unit counts as a change.
CloseNotifyCapacity_skipped(c) ==
    /\ \/ closer[c] = "capacity"
       \/ c \in Stoppers /\ closer[c] = "sweep" /\ handles[c] = {}
    /\ closer' = [closer EXCEPT ![c] = "check"]
    /\ UNCHANGED <<lifeVars, countVars, noteVars, trackVars, entryVars,
                   slotVars, tokioVars, submitter, canceller, stopVars>>

CloseNotifyCapacity(c) ==
    /\ \/ closer[c] = "capacity"
       \/ c \in Stoppers /\ closer[c] = "sweep" /\ handles[c] = {}
    /\ capacity_tx' = capacity_tx + 1
    /\ closer' = [closer EXCEPT ![c] = "check"]
    /\ UNCHANGED <<lifeVars, countVars, terminated_notify, trackVars, entryVars,
                   slotVars, tokioVars, submitter, canceller, stopVars>>

\* notify_if_terminated: the check under the monitor, then the notification.
\* Faulty variant: only finish_task looks for termination.
CloseCheck_skipped(c) ==
    /\ closer[c] = "check"
    /\ closer' = [closer EXCEPT ![c] = "done"]
    /\ UNCHANGED <<lifeVars, countVars, noteVars, trackVars, entryVars, slotVars,
                   tokioVars, submitter, canceller, stopVars>>

CloseCheck(c) ==
    /\ closer[c] = "check"
    /\ closer' = [closer EXCEPT ![c] = IF is_terminated THEN "waiters" ELSE "done"]
    /\ UNCHANGED <<lifeVars, countVars, noteVars, trackVars, entryVars, slotVars,
                   tokioVars, submitter, canceller, stopVars>>

CloseNotifyWaiters(c) ==
    /\ closer[c] = "waiters"
    /\ terminated_notify' = terminated_notify + 1
    /\ closer' = [closer EXCEPT ![c] = "done"]
    /\ UNCHANGED <<lifeVars, countVars, capacity_tx, trackVars, entryVars, slotVars,
                   tokioVars, submitter, canceller, stopVars>>

-----------------------------------------------------------------------------
Init ==
    /\ lifecycle = Running /\ submission_lock = FALSE
    /\ queued = 0 /\ running = 0
    /\ abort_handles = {} /\ marker = {}
    /\ capacity_tx = 0 /\ terminated_notify = 0
    /\ task_state = [t \in Tasks |-> "NONE"]
    /\ guard = [t \in Tasks |-> "none"]
    /\ releasing = [t \in Tasks |-> "none"]
    /\ slot_refs = [t \in Tasks |-> {}]
    /\ cell = [t \in Tasks |-> "none"]
    /\ status = [t \in Tasks |-> "none"]
    /\ blocking = [t \in Tasks |-> "none"]
    /\ channel = [t \in Tasks |-> "none"]
    /\ aborted = {} /\ rt_closed = FALSE /\ called = {}
    /\ submitter = [t \in Tasks |-> "idle"]
    /\ canceller = [t \in Tasks |-> "idle"]
    /\ closer = [c \in Closers |-> "idle"]
    /\ handles = [s \in Stoppers |-> {}]
    /\ hook = [t \in Tasks |-> "idle"]
    /\ snapshot = [s \in Stoppers |-> [queued |-> 0, running |-> 0]]
    /\ cancelled = [s \in Stoppers |-> {}]

\* The threads, each as the disjunction of its steps.
Submit(t) == SubmitRejected(t) \/ SubmitAccepted(t)
Submitter(t) == \/ SubmitSpawn(t) \/ SubmitRegister(t) \/ SubmitDeliver(t)
                \/ SubmitReturn(t)
Worker(t) == \/ WorkerPick(t) \/ WorkerDiscard(t) \/ WorkerReceive(t)
             \/ WorkerMarkStarted(t) \/ WorkerCount(t) \/ WorkerCall(t)
             \/ WorkerReturn(t) \/ WorkerFinish(t)
Guard(t) == GuardRemove(t) \/ GuardFinish(t)
Release(t) == ReleaseCount(t) \/ ReleaseNotifyCapacity(t) \/ ReleaseNotifyWaiters(t)
Canceller(t) == CancelRemove(t) \/ CancelFinish(t) \/ CancelAbort(t)
Close(c) == Shutdown(c) \/ StopStore(c)
Sweep(s) == \E t \in Tasks : StopAbort(s, t) \/ StopHook(s, t) \/ StopCancelled(s, t)
Closer(c) == \/ c \in Stoppers /\ (StopSnapshot(c) \/ StopTake(c) \/ Sweep(c))
             \/ CloseNotifyCapacity(c) \/ CloseCheck(c) \/ CloseNotifyWaiters(c)

\* Every call has returned and every accepted task has left the pool.
Settled ==
    /\ \A t \in Tasks :
          /\ \/ submitter[t] \in {"idle", "saturated", "shutdown"}
             \/ submitter[t] = "returned" /\ blocking[t] = "finished"
          /\ releasing[t] \in {"none", "done"}
          /\ canceller[t] \in {"idle", "done"}
    /\ \A c \in Closers : closer[c] \in {"idle", "done"}

\* Every step but the two that a task's owner decides on.
Proceed ==
    \/ \E t \in Tasks : \/ Submitter(t) \/ Worker(t) \/ Guard(t) \/ Release(t)
                        \/ Canceller(t)
    \/ \E c \in Closers : Close(c) \/ Closer(c)
    \/ CloseRuntime

Next ==
    \/ \E t \in Tasks : Submit(t) \/ Cancel(t)
    \/ Proceed
    \/ Settled /\ UNCHANGED vars

Spec == Init /\ [][Next]_vars

(***************************************************************************)
(* Fairness: every thread inside the service or inside Tokio is scheduled, *)
(* and user code returns.  Nobody has to submit, cancel, shut down, stop   *)
(* or close the runtime.                                                   *)
(***************************************************************************)
Fairness ==
    /\ \A t \in Tasks :
          /\ WF_vars(Submitter(t)) /\ WF_vars(Worker(t)) /\ WF_vars(Guard(t))
          /\ WF_vars(Release(t)) /\ WF_vars(Canceller(t))
    /\ \A c \in Closers : WF_vars(Closer(c))

FairSpec == Spec /\ Fairness

-----------------------------------------------------------------------------
(* Properties.                                                             *)

ServiceTypeOK ==
    /\ lifecycle \in {Running, ShuttingDown, Stopping}
    /\ submission_lock \in BOOLEAN
    /\ queued \in Nat /\ running \in Nat
    /\ capacity_tx \in Nat /\ terminated_notify \in Nat
    /\ abort_handles \subseteq Tasks /\ marker \subseteq Tasks

TrackTypeOK ==
    /\ task_state \in [Tasks -> {"NONE", "QUEUED", "RUNNING", "FINISHED"}]
    /\ guard \in [Tasks -> {"none", "held", "dropping", "removed", "finishing", "gone"}]
    /\ releasing \in [Tasks -> {"none", "queued", "running", "capacity",
                                "capacity_last", "waiters", "done"}]

SlotTypeOK ==
    /\ slot_refs \in [Tasks -> SUBSET {"closure", "hook"}]
    /\ cell \in [Tasks -> {"none", "full", "taken"}]
    /\ status \in [Tasks -> {"none", "pending", "running", "completed", "cancelled",
                             "dropped"}]

TokioTypeOK ==
    /\ blocking \in [Tasks -> {"none", "queued", "recv", "mark", "count", "take", "call",
                               "skip", "unwind", "discard", "finished"}]
    /\ channel \in [Tasks -> {"none", "open", "sent", "received", "closed"}]
    /\ aborted \subseteq Tasks /\ called \subseteq Tasks
    /\ rt_closed \in BOOLEAN

CallerTypeOK ==
    /\ submitter \in [Tasks -> {"idle", "saturated", "shutdown", "admitted", "spawned",
                                "registered", "undelivered", "returned"}]
    /\ canceller \in [Tasks -> {"idle", "won", "removed", "finishing", "lost", "done"}]
    /\ closer \in [Closers -> {"idle", "stored", "snapshotted", "sweep", "capacity",
                               "check", "waiters", "done"}]

StopTypeOK ==
    /\ handles \in [Stoppers -> SUBSET Tasks]
    /\ hook \in [Tasks -> {"idle", "aborted", "finishing"}]
    /\ snapshot \in [Stoppers -> [queued : Nat, running : Nat]]
    /\ cancelled \in [Stoppers -> SUBSET Tasks]

\* Every variable stays in its domain; in particular the byte Terminated is only
\* ever observed, never stored by shutdown or stop (executor_service_lifecycle_bits).
TypeOK == /\ ServiceTypeOK /\ TrackTypeOK /\ SlotTypeOK
          /\ TokioTypeOK /\ CallerTypeOK /\ StopTypeOK

\* The tasks that occupy a queued, respectively a running, unit of task_counts:
\* the counts lag behind task_state while a thread is between its transition of
\* the tracker and its write of the counts.
CountsAsQueued(t)  == \/ task_state[t] = "QUEUED"
                      \/ task_state[t] = "RUNNING" /\ blocking[t] = "count"
                      \/ releasing[t] = "queued"
CountsAsRunning(t) == \/ task_state[t] = "RUNNING" /\ blocking[t] # "count"
                      \/ releasing[t] = "running"
CountedQueued  == {t \in Tasks : CountsAsQueued(t)}
CountedRunning == {t \in Tasks : CountsAsRunning(t)}
Unfinished == CountedQueued \cup CountedRunning

\* Each accepted task occupies exactly one unit of queued or running until one
\* thread releases it, however cancel, stop, the worker and the guard interleave:
\* the debug_assert!s of TokioExecutorTaskCounts hold and saturating_sub never acts.
CountsExact ==
    /\ queued = Cardinality(CountedQueued)
    /\ running = Cardinality(CountedRunning)

\* try_accept_task admits under the monitor, so the unfinished tasks never exceed
\* task_capacity.
CapacityBound == queued + running <= Capacity

\* The abort_handles map holds unfinished tasks only: every path that finishes a
\* task takes its entry out first, and register_abort_handle never adds one late.
AbortEntriesLive == \A t \in abort_handles : task_state[t] \in {"QUEUED", "RUNNING"}

\* A service that reports Terminated is at rest: no user closure is running or can
\* still be started, and the abort map is empty.
TerminatedIsQuiescent ==
    is_terminated =>
        /\ abort_handles = {}
        /\ \A t \in Tasks : /\ blocking[t] \notin {"count", "take", "call"}
                            /\ task_state[t] \in {"NONE", "FINISHED"}

\* Once Terminated, always Terminated: admission and lifecycle share submission_lock.
TerminatedStable == [][is_terminated => is_terminated']_vars

\* A task that stop counted, or whose handle reports Cancelled or Dropped, never
\* runs user code, and a closure runs at most in one of them.
CancelledNeverRuns ==
    \A t \in called : /\ status[t] \notin {"cancelled", "dropped"}
                      /\ \A s \in Stoppers : t \notin cancelled[s]

\* A stop counts only tasks that were queued in its own snapshot, and concurrent
\* stops never count the same task twice.
StopReportSound ==
    \A s \in Stoppers :
        /\ Cardinality(cancelled[s]) <= snapshot[s].queued
        /\ \A r \in Stoppers \ {s} : cancelled[s] \cap cancelled[r] = {}

\* A task that a stop counted as cancelled reports Cancelled, never Dropped.
CountedResultIsCancelled ==
    \A s \in Stoppers : \A t \in cancelled[s] : HasSlot(t) => status[t] = "cancelled"

\* After a stop has returned no queued task is started any more: the sweep reaches
\* every accepted task, because registration happens under submission_lock.  What
\* can still move to RUNNING is a task whose own cancel is under way (its closure
\* is not entered) or that a concurrent stop is about to sweep.
NoStartAfterStop ==
    [][\A t \in Tasks :
          (/\ task_state[t] = "QUEUED" /\ task_state'[t] = "RUNNING"
           /\ \E s \in Stoppers : closer[s] = "done")
          => \/ status[t] = "cancelled"
             \/ \E s \in Stoppers : t \in handles[s]]_vars

\* Termination is never reached silently: while the service is Terminated and its
\* waiters have not been notified, some thread is committed to notify them; and
\* waiters are notified only when it is Terminated.
TerminationIsSignalled ==
    /\ terminated_notify > 0 => is_terminated
    /\ is_terminated =>
          \/ terminated_notify > 0
          \/ \E t \in Tasks : releasing[t] \in {"capacity_last", "waiters"}
          \/ \E c \in Closers : closer[c] \in {"stored", "snapshotted", "sweep",
                                              "capacity", "check", "waiters"}

\* shutdown lets accepted work finish: without a stop or a closing runtime, every
\* accepted task is eventually entered unless its own handle cancelled it.
AcceptedTasksRun ==
    \A t \in Tasks : submitter[t] = "admitted" ~> (t \in called \/ canceller[t] = "done")

\* (Refuted.)  Once every call has returned, a task that was accepted and neither
\* ran nor was cancelled through its handle was counted by some stop.
StopCountsEveryCancelledTask ==
    (Settled /\ ~rt_closed) =>
        \A t \in Tasks : (submitter[t] = "returned" /\ t \notin called
                           /\ canceller[t] = "idle")
                         => \E s \in Stoppers : t \in cancelled[s]

\* (Refuted.)  A completed result is published after the accounting is released.
ResultImpliesReleased ==
    \A t \in Tasks : status[t] = "completed" => t \notin Unfinished
=============================================================================
