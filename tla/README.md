# A TLA+ verification of rs-tokio-executor

`qubit-tokio-executor` puts two managed executor services on top of a Tokio
runtime that somebody else owns. `TokioExecutorService` runs blocking closures
on Tokio's blocking pool; `TokioIoExecutorService` spawns futures as Tokio
tasks. Both bound the number of accepted, unfinished tasks, reject work after
`shutdown` or `stop`, keep a map of abort handles for `stop` to sweep, and
report `Terminated` once they are closed and empty. What makes the code hard
is that the submitter, the pool worker, the task's guard, a cancelling handle,
concurrent `stop`/`shutdown` calls, termination waiters and the owner of the
runtime act on the same task at the same time, and the accounting, the abort map
and the result slot must agree whatever the order.

Paths below are relative to the repository (`src/` there is `src/src/` in
`PROJECT.json`).

## 1. Inventory

| Component | State | Operations | Correct when |
| --- | --- | --- | --- |
| Lifecycle bits (`executor_service_lifecycle_bits.rs`) | one `AtomicU8` | `load`, `shutdown` (Running only), `stop` (always) | the byte never goes back, and `Terminated` is derived, never stored |
| `TokioExecutorService` (`tokio_executor_service.rs`) | shared state, runtime handle | `try_submit`, `try_submit_callable`, `try_submit_tracked_callable`, `submit*`, `shutdown`, `stop`, `wait_termination*`, `await_termination` | capacity is respected, nothing starts after `stop`, `shutdown` lets accepted work finish, every handle resolves |
| `TokioExecutorServiceState` (`tokio_executor_service_state.rs`, `internal/`) | lifecycle, `task_counts` in a monitor, `submission_lock`, `abort_handles`, `capacity_tx`, `terminated_notify` | admission, `mark_task_started`, `finish_task`, registering, removing and sweeping abort handles, notification | the counts are exact, the map holds unfinished tasks only, nobody sleeps through termination |
| Guard and tracker (`tokio_service_task_guard.rs`, `internal/`) | `task_state`: QUEUED, RUNNING, FINISHED | `mark_started`, `finish_queued`, `cancel_queued`, `finish` on drop | exactly one thread releases the unit |
| `TokioTaskRegistration` | finished flag, address as key | `finish`, `is_finished` | no entry is registered late |
| Slot cancellation (`tokio_task_slot_cancellation.rs`) | an `Arc<TaskSlotCell>` shared by closure and stop hook | take, cancel if queued | a counted task reports Cancelled; a started one is never cancelled |
| `TokioBlockingTaskHandle` | tracked handle, abort handle, callback | `get`, `try_get`, `into_future`, `cancel`, `cancellation_handle`, reads | a cancelled closure is not entered, one canceller wins, a result is final, dropping cancels nothing |
| `TokioIoExecutorService` and state | lifecycle, `active_tasks`, `submission_lock`, `abort_handles`, `termination_notify`, `capacity_tx` | `spawn`, `try_spawn`, `shutdown`, `stop`, `await_termination` | one exact counter, every accepted future aborted by `stop`, waiters woken |
| Guarded future, handoff (`internal/`) | user future, guard, oneshot sender | `deliver`, `poll`, drop | the future is destroyed before its unit is released |
| `TokioTaskHandle` | a `JoinHandle` | `cancel`, `poll`, `is_done` | a finished handle implies a released unit |
| Capacity subscription | watch generation | `capacity_changes` | a rejected submitter that subscribed first hears of every release |
| `TokioExecutor` (`tokio_executor.rs`) | the runtime's handle | `call` | every handle resolves once, to what really happened, also on a closing runtime |
| `RejectedTask` | reason and task | `into_parts` | the task comes back untouched |
| Stats records | immutable | `stats` | although read in pieces, never an early or revoked Terminated |

Interaction. A submission takes `submission_lock`, checks the lifecycle, counts
the task, spawns a Tokio task that only waits on a oneshot receiver, registers
its abort handle, releases the lock and then delivers the payload (user code and
guard) through the oneshot. The Tokio task receives the payload, marks the task
as started and runs it; dropping the guard removes the abort entry and releases
the unit. If Tokio has already dropped the receiver, the submitter drops the
payload itself. `stop` takes the whole abort map and, entry by entry, aborts the
Tokio task and (blocking service only) calls a hook that finishes a task still
queued and cancels its result. `cancel` on a tracked handle first wins the
result's status and then finishes the queued accounting.

The hazards this gives rise to are listed in `PROJECT.json` at the line where
each one bites, with the properties that watch it.

## 2. Modules

| Module | What it is |
| --- | --- |
| `ExecutorServiceLifecycleBits` | the lifecycle byte |
| `BlockingService` | `TokioExecutorService` with its state, guard, tracker, slot and handle; Tokio's blocking pool as an environment |
| `BlockingServiceInvariant` | its inductive invariants: `IndInv` for the accounting, `StopInv` for slots, sweeps and notifications |
| `BlockingServiceProofs`, `BlockingStopProofs` | its theorems, the refinement among them |
| `MCBlockingService` | the invariant and the refinement mapping brought together, and symmetry, for TLC |
| `IoService`, `MCIoService` | `TokioIoExecutorService`, its guard, handoff, handle and async waiters; Tokio's scheduler as an environment |
| `IoServiceInvariant`, `IoServiceProofs` | its inductive invariant and its theorems, with the refinement and the producers of `IoRetry` |
| `ExecutorServiceSpec` | what either service promises, without threads or locks |
| `BlockingRefinement`, `IoRefinement` | the mappings of the two services to it |
| `BlockingTermination`, `MCBlockingTermination` | `BlockingService` composed with its synchronous, timed and asynchronous termination waiters and with observers of `stats` |
| `BlockingRetry`, `IoRetry` | each service composed with producers that follow the documented capacity-retry loop |
| `BlockingHandle` | `BlockingService` composed with the owner of a `TokioBlockingTaskHandle` and its cancellation endpoints |
| `Reentrancy` | the lock sections of both services' operations, and user code that calls the service from inside them |
| `TokioExecutor` | the executor without a service, on a bounded FIFO blocking pool |
| `BlockingTerminationProofs`, `BlockingRetryProofs`, `BlockingHandleProofs`, `ReentrancyProofs`, `TokioExecutorProofs` | the theorems about the module each is named after |

### Granularity

One step is one mutex section, one atomic read-modify-write or one
notification. `submission_lock` is a variable because it is held over several
steps; the monitor of `task_counts` and the lock of `abort_handles` are held for
one step at a time and are not (`BlockingTermination` and `Reentrancy` make them
state, because there a thread does something else while it holds one). The atomics are modelled as sequentially
consistent: every pair of accesses that a property relates is ordered in the
code by a lock, or is a single read-modify-write.

### BlockingService

| Variable | Code |
| --- | --- |
| `lifecycle`, `submission_lock`, `queued`/`running`, `abort_handles`, `capacity_tx`, `terminated_notify` | the fields of `TokioExecutorServiceState`; the notifications are counted |
| `marker` | tasks whose `TokioTaskRegistration` is finished |
| `task_state`, `guard`, `releasing` | the tracker's word, the progress of the guard's drop, and the progress of `finish_task` by whichever thread won |
| `slot_refs`, `cell`, `status` | owners of the shared `TaskSlotCell`, whether the slot is still in it, and the status the handle reads |
| `blocking`, `channel`, `aborted`, `rt_closed`, `called` | Tokio's task and the worker on it, the oneshot, the abort flag, the runtime, and the closures that were entered |
| `submitter`, `canceller`, `closer`, `handles`, `hook`, `snapshot`, `cancelled` | the positions and locals of the calls |

Actions are named after the thread that takes them: `Submit*` is the caller in
`try_submit*`, `Worker*` the pool thread, `Guard*` and `Release*` the drop of the
guard and `finish_task`, `Cancel*` the handle, `Shutdown` and `Stop*` the closing
calls, `Close*` their common tail. The tasks given to the three submission
methods are three constants: a runnable has no result slot, and only a tracked
callable can be cancelled through its handle. A submission that was rejected as
saturated may be made again. Each task, `stop` and `shutdown` call is one
element of a constant, which bounds the model without any counter bound. `Proceed`
is every step but those a task's owner decides on (submit, cancel); the modules that
compose the service with such owners take the rest of the steps from it.

External, modelled from the way the code uses them: Tokio's blocking pool
(`WorkerPick`; `WorkerDiscard`, which drops an aborted task, or any queued task of
a closed runtime; abort has no effect on a started blocking task), the owner of
the runtime (`CloseRuntime`), and the drop of the last owner of an unfinished slot,
which publishes Dropped (`ReleaseSlot`). A closing runtime may still run a queued
task first. User code is one step, `WorkerReturn`; returning, failing and
panicking are the same to the service because `TaskRunner` turns each into a
published result.

### IoService

`active_tasks` is one counter, `task` is Tokio's task (waiting for the payload,
polling, suspended, ending, finished), `future` is where the user future lives,
and `guard` is the drop of the guard. Abort takes effect between two polls. A
future may be suspended any number of times. `await_termination` is modelled
step by step: `notified()` remembers how many notifications preceded it, the
lifecycle byte and the counter are read in two steps. So is `try_accept_task`: it
reads the counter in one step (`SubmitCheck`) and increments it, without a further
test, in another (`SubmitAccepted`), and only `submission_lock`, which guards do not
take, lies between two submitters that both see the last unit free.

### BlockingTermination

The lifecycle byte is stored under `submission_lock`, not in the monitor, so a
waiter inside the monitor reads the byte in one step (`WaitLoad`) and decides in
another (`WaitDecide`, which returns or goes to sleep and releases the monitor);
`monitor` keeps everybody who needs the counts out in between. `NotifyAll` and
`NotifyWaiters` are the two halves of `notify_termination_waiters`. A timed wait
runs through the loop of `wait_termination_timeout`: the check outside the monitor,
the deadline, one slice in the monitor, the error branch. Time is counted in slices
(`Hours`), `Tick` lets it pass for a call at any point, and a slice ends when the
time it was given has passed. The error branch makes the same test as the top of the
loop and may answer false before the deadline. `owed` is history: it holds the timed
waits that began, ended a slice or met an error on a service that was terminated by
then. They must answer true (`NoFalseAfterTermination`). A service that terminates
after the last test of a call and before its deadline test is answered with false,
as in the code. An asynchronous waiter and `stats` read the byte and then the
counts, each in its own step. The monitor itself belongs to another crate; spurious
wake-ups need no step because they only repeat the check.

### BlockingRetry and IoRetry

One producer per task follows the loop of `examples/capacity_retry_callable.rs`
and `examples/capacity_retry_future.rs`: subscribe, submit, take reason and task out
of the `RejectedTask`, and after Saturated await `changed()`. A watch receiver is
the version it has seen. Producers do not cancel what they submitted.

### BlockingHandle

`get` and `into_future` are `Wait` followed by `Resolve`, `try_get` that is ready is
`TryGet` (a pending one changes nothing), and `Drop` drops the handle or the future.
An endpoint can be taken from a handle that is still held and lives on without it.
`answers` remembers what each caller of `cancel` was told; the winning call goes
on with the `Cancel*` steps of `BlockingService`.

### Reentrancy

Every operation is written as the sequence of its lock sections and of the points
at which it runs user code: capacity wakers, termination wakers, result wakers,
and user code or captures that are called or dropped. Such a point may be replaced
by a whole further call of the service on the same thread, up to `MaxReentries` in
all. The variable `kind` chooses the service once and for all, in the initial state.
The data is left out: every operation may take every path, so the module has more
behaviours than the code.

One kind of user code is left out of the re-entrant kinds of the run, `"dropped"`, and
it is the only one that runs under `abort_handles`: no property covers that lock section.
When a closing runtime discards a queued task, the guard's `remove_abort_handle`
drops the last owner of the result slot inside the statement that locks
`abort_handles` (`src/tokio_executor_service_state.rs:218`), so the result's waker
is woken with the lock held; with `"dropped"` in `Reentrant`, TLC finds a thread
that waits for its own lock when this waker calls `stop`. The repository promises
re-entrancy of capacity wakers (lines 319 and 327) and tests it for termination and
result wakers on other paths, not on this one.

### TokioExecutor

`call` puts a wrapper in the pool's queue and never fails; on a closed runtime the
wrapper and its slot are dropped at once. A pool thread takes the oldest wrapper,
or drops it once the runtime is closed. The handle's `cancel` leaves the wrapper
where it is.

### Faulty variants

An operator whose name extends another's (`finish_queued_stored`,
`HasCapacity_queued_only`, ...) is that operator with a plausible mistake. It is
not part of any specification; substituting it for the original makes the
property it is paired with in `PROJECT.json` fail.

## 3. Runs

| Run | Instance | Checks |
| --- | --- | --- |
| `blocking_safety` | two tracked tasks, capacity 2, one stop | exact counts, live abort entries, quiescent termination, cancelled work never runs, Cancelled results of counted tasks, no start after stop |
| `blocking_runtime` | a runnable and a callable, capacity 1, two stops, one shutdown, the runtime may close | the inductive invariant (with the type invariant), the capacity bound, concurrent stop reports, termination neither silent nor revoked, `ExecutorServiceSpec` is implemented |
| `blocking_handle` | a tracked task, its owner and one endpoint, one stop, the runtime may close | results are final, one winner of cancel, `get` and the future return, dropping the handle cancels nothing |
| `blocking_observers` | a tracked task, one stop, closing runtime, one synchronous waiter, one observer of `stats` | nobody sees Terminated early, no lost wake-up |
| `blocking_waiters` | one runnable, one shutdown, one waiter of each kind, the timed one over two slices | waiters return, timed waits return in any case but never with false for a service that terminated before or during a slice, accepted tasks run |
| `blocking_retry` | a runnable and a callable, capacity 1, one stop | no missed capacity change, rejected tasks untouched; if closures end every producer is accepted or refused, and if they do not, waiting producers still hear of the stop |
| `io_safety` | two futures, capacity 2, two stops, one shutdown, handle aborts, closing runtime | live abort entries, futures destroyed before termination, results after release, no task escapes a sweep |
| `io_clients` | two futures with producers that retry, capacity 1, one shutdown, one waiter, closing runtime | the counter is exact and two producers never share the last unit, no early return, no missed change, waiters return, producers conclude, `ExecutorServiceSpec` is implemented |
| `reentrancy` | two threads, either service, one nested call, from any user code but `"dropped"` | no thread waits for its own lock, every operation returns |
| `executor_races` | three callables, two blocking threads, closing runtime | results are final, handles resolve |
| `blocking_stop_uncounted`, `blocking_result_before_release` | one task | refuted, see below |

Why the bounds are enough to be interesting. All interactions of the code are
between the threads of one task, or between one task and a closer, or through
the counts: two tasks exercise contention for the counts, the lock and the last
unit (capacity 1 with two tasks reaches saturation and retry; capacity 2 lets
both run), two stops exercise concurrent sweeps, and every kind of submission
occurs with a stop. For the waiters, two slices make a timed wait go round its
loop, and a waiter needs only one task and one closer to be caught between its
check and its sleep; of two producers for one unit one is rejected, waits and tries
again. Two threads and one nested call are enough for a self-deadlock or for two locks
taken in opposite orders. Stop and shutdown share their tail and differ in the sweep:
the liveness runs use whichever of the two makes their property harder (a stop for
producers and handles, a shutdown, which leaves the tasks to end by themselves, for
waiters). What these bounds leave open for safety is closed by the proofs: every
invariant and action property of a passing run is also a theorem for all values of the
constants (section 4). For liveness the bounds stand.

Fairness. Weak fairness of each thread that is inside the service or inside
Tokio: a call that has begun goes on, the pool polls queued tasks, user code
returns. For the IO service a future that is polled again and again must become
ready unless it is cancelled (strong fairness of `TaskReady`), which is the
assumption on user code the guide makes: a future that stays pending keeps the
service active. It assumes the bound runtime is driven, as the README of the
crate demands. Nobody is obliged to submit, cancel, close the service, wait or
close the runtime. Waiters and producers that can move are scheduled, and time
passes (`Tick`). `Reentrancy` assumes that a lock which is released again and again is
handed over to a waiting thread in the end (strong fairness of `Acquire`), as
`parking_lot` does. `EndlessFairness` asks nothing of the pool's workers, so that a
closure may run for ever; `RetryConcludes` of the blocking service therefore states
its assumption, `ClosuresEnd`, itself. Deadlock is checked in every run but one: `Settled`, or
its counterpart in the composed modules, is the only state in which everything may
stop. `reentrancy` checks `OperationsReturn` instead, which a deadlock
violates.

### Disagreements with the documentation

* **Stop race (`blocking_stop_uncounted`).**
  `abort_tracked_tasks` aborts before it calls the cancellation hook
  (`src/tokio_executor_service_state.rs:231-232`). If a pool worker pops the aborted
  task in between, it drops the payload and the guard finishes the task; the hook
  then loses `finish_queued`. The unit is still released exactly once and the
  closure never runs, but the handle reports Dropped instead of Cancelled, on a
  live runtime, and `StopReport.cancelled` leaves out a task that `stop` did
  prevent from starting. The comment on the hook ("Completion hook used to publish
  cancellation for result handles.") and a test of `stop` expect Cancelled.
* **Result before release (`blocking_result_before_release`).** A blocking
  task's result is published before its guard releases the counts, so `stats()`
  read after awaiting the result may still count it. A test asserts zero counts
  at that point without waiting. The IO service orders the two the other way
  round, which `io_safety` checks under the same name.

## 4. Proofs

Every safety property of a passing run, invariant or action property, and both
refinements are proved for all values of the constants.

| Module | Theorem | What it states |
| --- | --- | --- |
| `BlockingServiceProofs` | `TypeCorrect` | `TypeOK`, the first conjunct of `IndInv` |
| | `Invariance` | `IndInv` |
| | `ExactAccounting` | `CountsExact`: the debug assertions hold, `saturating_sub` never acts |
| | `BoundedCapacity` | `CapacityBound` |
| | `LiveAbortEntries` | `AbortEntriesLive` |
| | `CancelledTasksNeverRun` | `CancelledNeverRuns` |
| | `QuiescentTermination` | `TerminatedIsQuiescent` |
| | `StableTermination` | `TerminatedStable`, an action property |
| `BlockingStopProofs` | `StopInvariance` | `IndInv` and `StopInv` |
| | `CountedTasksReportCancelled` | `CountedResultIsCancelled` |
| | `SoundStopReports` | `StopReportSound`, for concurrent stops |
| | `SignalledTermination` | `TerminationIsSignalled` |
| | `StopPreventsStarts` | `NoStartAfterStop`, an action property |
| | `BlockingImplementsExecutorService` | `BlockingService` implements `ExecutorServiceSpec` |
| `BlockingTerminationProofs` | `TerminationInvariance` | `TerminationInv` |
| | `WaitersReturnTheTruth` | `NoEarlyReturn`, for waits of all three kinds and `stats` |
| | `NoWakeupIsLost` | `NoLostWakeup` |
| | `TimedWaitsNoticeTermination` | `NoFalseAfterTermination`, for any timeout |
| `BlockingRetryProofs` | `RetryInvariance` | `RetryInv` |
| | `RetryMissesNoChange` | `NoMissedChange` |
| | `RejectionLeavesNoTrace` | `RejectedLeavesNoTrace` |
| `BlockingHandleProofs` | `HandleInvariance` | `HandleInv` |
| | `ResultsAreFinal` | `ResultIsFinal` |
| | `OneCancelWins` | `CancelHasOneWinner` |
| `IoServiceProofs` | `IoInvariance` | `IndInv` of `IoServiceInvariant` |
| | `IoExactAccounting` | `ActiveExact`, with the capacity bound |
| | `IoLiveAbortEntries` | `AbortEntriesLive` |
| | `IoTerminatedDestroysFutures` | `TerminatedDestroysFutures` |
| | `IoResultImpliesReleased` | `ResultImpliesReleased` |
| | `IoStopReachesEveryTask` | `StopReachesEveryTask` |
| | `IoWaitersSeeTermination` | `WaitersSeeTermination` |
| | `IoImplementsExecutorService` | `IoService` implements `ExecutorServiceSpec` |
| | `IoNoMissedChange` | `NoMissedChange` of `IoRetry` |
| `ReentrancyProofs` | `NoOperationBlocksItself` | `NoSelfDeadlock`, given `"dropped" \notin Reentrant` |
| `TokioExecutorProofs` | `ExecutorInvariance` | `ExecutorInv` |
| | `OutcomesAreFinal` | `OutcomeIsFinal`, an action property |

Assumptions. Tasks and closers are finite, the three kinds of tasks are disjoint,
stops and shutdowns are disjoint, the capacity is a positive natural.
`BlockingTermination` further assumes that the kinds of waiters are disjoint and that
the names of tasks and closers differ from each other, and those of waiters from the
mark of a free monitor: `notified` holds tasks and closers in one set, and the proof
attempt showed that a shared name would let one thread's notification pass for
another's. `BlockingHandle` assumes that no endpoint is called `"handle"`,
`Reentrancy` that no thread is called `"none"`. These are conditions on names, not
on the code. `NoOperationBlocksItself` is the one theorem with a hypothesis about the
program: the waker of an orphaned slot does not call the service. It is needed
(see Reentrancy in section 2), the run makes it too, and every other kind of user code
may be re-entrant.

### The blocking service

None of the properties is inductive alone. `CountsExact` needs to
know that the thread about to write the counts is the only one entitled to, and
that is a statement about positions: `IndInv` adds the *shape* of each task.
`AcceptanceShape` ties acceptance to the tracker's existence; `TrackerShape` says
that exactly one thread is in `finish_task` once the word is FINISHED and that
the worker is in the closure only while it is RUNNING; `EntryShape` says that an
entry leaves the abort map before its task can finish and cannot come back (the
marker, the order of the guard's drop, and registration before delivery);
`OutcomeShape` separates the two ways out of QUEUED, so that a task that was
entered is never one that a stop counted. `ShapeNext` proves that the shape of
one task is preserved by every step of every thread, the steps of other tasks
included. The accounting then follows from a classification of steps: only
acceptance, `WorkerCount` and `ReleaseCount` change the counted sets
(`OtherStepsKeepCounts`), and each changes them by exactly one task
(`AcceptCounts`, `StartCounts`, `ReleaseCounts`, with the cardinality theorems of
finite sets). Quiescence follows because empty counts mean empty counted sets
(`EmptyCounts`), and stability because a closed service accepts nothing and is
never reopened (`NeverReopened`).

`StopInv` is a second layer on top. `SlotShape` follows the shared slot: while the
hook owns it and the task has not started, the slot is in its cell and its result is
open or was cancelled, so a hook that wins `finish_queued` also wins the result.
`SweepShape` says that an entry is in the hands of one stop at most and that a task
which can still start is in the map, in a sweep, or cancelled by its handle; with
`CloserShape` (after a stop has taken the map, nothing is added) this gives
`NoStartAfterStop`. `ReportShape` bounds what a stop counts: the tasks that it has
counted or may still count (`Countable`) are at most the queued ones of its snapshot,
a set that only shrinks because the service is closed. `SignalShape` strengthens
`TerminationIsSignalled` with what each notifier has already seen. `HandoffShape` says
that the closure of a payload is entered once, by the worker that received it.

### Refinement

`ExecutorServiceSpec` gives a task the phases new, pending, inside, completed and
withdrawn, and the service an open flag, the set of tasks that hold a unit and a signal.
The mapping takes the phase from the closures that were entered, the worker's
position, the result and the tracker; the units are `Unfinished`, the tasks that the
counts must equal. Each step of the detailed module is shown to be a step of the
abstract one or a stutter, by the part of the state it changes: acceptance, entering and
leaving user code, the settling of a result, the return of a unit, the closing of the
service, the notification of the waiters, and the others, which
change nothing the mapping reads. The invariants are needed where
the abstract guard says more than the detailed one: that the counts the code compares
with the capacity are the size of `Unfinished`, that user code is entered once and left
before the unit is returned, that only a task which was never entered is withdrawn, and
that waiters are signalled only after termination. The IO service is shown to implement
the same specification.

### The compositions

The compositions with waiters, producers and handle owners take their service steps
from `BlockingService`, so each proof first shows that a step of the composition is
a step of the service (`TerminationIsNext` and its counterparts) and inherits `IndInv`
and `StopInv`.

* `TerminationInv` says that the waiter inside the monitor is the one that has read
  the byte there and not decided, that a byte read as closed still is (`ByteShape`),
  and, as the heart of the lost wake-up argument, that while a waiter which read
  Running is in the monitor, whoever closed the service since has its own check in that
  monitor still to make (`OpenShape`). A waiter that falls asleep is therefore asleep
  before the notification (`AsleepShape`). A timed wait that owes true is between the
  end of a slice and the answer of the test that follows, and the service is still
  terminated then (`OwedShape`): that test reads the byte and the counts in two steps,
  so the argument needs `TerminatedStable`.
* `RetryInv` says that a producer asleep on the current generation is *excused*: the
  service is open and full, or some thread has released or closed and not yet
  published. `ExcusedNext` shows that every step either publishes or keeps the excuse.
* `HandleInv` says that a result was handed out only when final, and that whoever was
  told `cancelled` is the one whose call changed the status. It rests on `StatusNext`:
  a final status never changes.

### The IO service

Its `IndInv` has the same structure with one counter. `PayloadShape` treats future and
guard as one unit of ownership, with the future destroyed first; `HandoffShape` derives
who holds the payload from submitter, channel and task, which is why a finished task
implies a released unit; `EntryShape` gives the sweep its completeness.
`AdmissionShape` carries the free unit from the check to the increment of
`active_tasks`, which tests nothing: while a submitter is at `checked` it holds
`submission_lock`, no other submitter is between its own check and registration, so
nobody else increments, and the decrements, which are not under the lock, only make
room. `CountNext` and the refinement's `AcceptStep` take the capacity bound from it.
`WaiterShape` uses that the byte is read before the counter.

### Locks and the executor

`ReentrancyProofs` treats what a thread has still to do as a sequence. It is *sound*
if every lock in it is followed by its release before any further use of that lock, and
if nothing is left to release where re-entrant user code runs. Sound sequences that
release only what they lock can be concatenated, and put inside a lock section when
they neither touch that lock nor run re-entrant code (`Bracket`); each
operation is built in these two ways. The invariant `LockInv` adds that a
thread which owns a lock has its release ahead. So a thread that re-enters owns
nothing, and one about to lock does not own that lock. `TokioExecutorProofs` needs only
that a thread is inside the callable of a running task.

All inductive invariants were also evaluated by TLC on the instances of the runs:
`IndInv` of the blocking service in `blocking_runtime`, the others in the course of the
proofs (up to 2.7 million states, for the IO service, up to symmetry).

Only model-checked: liveness, because fairness and `ENABLED` are out of the prover's
reach (`WaitersReturn` of both services, `TimedWaitsReturn`, `AcceptedTasksRun`,
`WaitingResolves`, `DropDoesNotCancel`, `RetryConcludes`, `ClosingReachesProducers`,
`OperationsReturn`, `HandleResolves`). The two refuted properties are refuted by TLC.

## 5. Not modelled

* The result waker of a queued task that a closing runtime discards, when it calls
  the service again: see `Reentrancy` above.
* A driver thread that blocks itself: waiting synchronously for work that only the
  waiting thread could drive, which the user guide rules out.
* `Debug` and `Display` of `RejectedTask` and of the handles, the accessors that
  return one read of the lifecycle, re-exports: formatting and single reads.
* `stats` of the IO service: one record from the derivation of `Terminated` that the
  waiters of `IoService` make, and a later read of the counter.
* The configured default capacity: `Capacity` is any positive number.
* Wrap-around of the capacity generation (2^64 changes).
* Reordering of memory accesses beyond the locks and acquire/release pairs, see
  Granularity.

## 6. Plan

What is left:

1. A lock order for `Reentrancy`: that no set of threads waits in a circle (S before M
   and A, and neither of these before another) is the safety half of `OperationsReturn`
   and within reach of the invariant's method.
2. The `stats` record of the IO service, a listed hazard without a property (the other
   one, the waker under `abort_handles`, needs a change of the code).
3. Facts that say more about the abstract specification itself (that it returns
   every unit and never signals early), so that both services inherit them.
