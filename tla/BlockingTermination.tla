------------------------- MODULE BlockingTermination -------------------------
(***************************************************************************)
(* Everything that waits for, or looks at, the lifecycle of the blocking   *)
(* service, composed with the service itself.                              *)
(*   w \in Waiters       wait_termination: sleeps on the task_counts       *)
(*                       monitor                                           *)
(*   w \in TimedWaiters  wait_termination_timeout: the same in slices of   *)
(*                       an hour, under a total deadline                   *)
(*   w \in AsyncWaiters  await_termination: sleeps on terminated_notify    *)
(*   o \in Observers     stats, again and again                            *)
(* The lifecycle byte is stored outside the monitor, so a waiter inside    *)
(* the monitor reads the byte in one step and decides in another; whoever  *)
(* else needs the counts waits until it has decided.                       *)
(***************************************************************************)
EXTENDS BlockingService

CONSTANTS
    Waiters, TimedWaiters, AsyncWaiters, Observers,
    Hours    \* the timeout of a timed wait, in slices of 3600 seconds

Sleepers == Waiters \cup TimedWaiters
Callers  == Sleepers \cup AsyncWaiters

ASSUME CallersAssumption ==
    /\ Waiters \cap TimedWaiters = {} /\ AsyncWaiters \cap Sleepers = {}
    /\ "free" \notin Callers
    /\ Tasks \cap Closers = {}   \* the threads that notify are told apart by name
ASSUME HoursAssumption == Hours \in Nat

VARIABLES
    monitor,   \* the waiter deciding inside the monitor, or "free"
    waiter,    \* program counter of every waiter
    left,      \* time until a timed wait's deadline
    slice,     \* what is left of that time when the current slice ends
    seen,      \* terminated_notify when notified() was created
    notified,  \* threads between notify_all and notify_waiters
    sample,    \* what an observer has read so far, and its position
    report,    \* the last stats an observer returned
    \* history, read by NoFalseAfterTermination only
    owed       \* timed waits that owe their caller the answer true

serviceVars == vars
waitVars    == <<monitor, waiter, left, slice, seen, owed>>
observeVars == <<sample, report>>
allVars     == <<serviceVars, waitVars, notified, observeVars>>

-----------------------------------------------------------------------------
(* The service's own steps.                                                *)

\* task_counts can be locked.
\* Faulty variant: the counts are read without the monitor.
MonitorFree_unlocked == TRUE

MonitorFree == monitor = "free"

\* try_accept_task, mark_task_started and finish_task write the counts, a stop's
\* snapshot and notify_if_terminated read them: all inside the monitor.
InsideMonitor ==
    \/ \E t \in Tasks : Submit(t) \/ WorkerCount(t) \/ ReleaseCount(t)
    \/ \E s \in Stoppers : StopSnapshot(s)
    \/ \E c \in Closers : CloseCheck(c)

\* The steps that touch neither the counts nor the termination waiters.
OutsideMonitor ==
    \/ \E t \in Tasks :
          \/ Submitter(t) \/ Guard(t) \/ Cancel(t) \/ Canceller(t)
          \/ WorkerPick(t) \/ WorkerDiscard(t) \/ WorkerReceive(t)
          \/ WorkerMarkStarted(t) \/ WorkerCall(t) \/ WorkerReturn(t)
          \/ WorkerFinish(t) \/ ReleaseNotifyCapacity(t)
    \/ \E c \in Closers : Close(c) \/ CloseNotifyCapacity(c)
    \/ \E s \in Stoppers : StopTake(s) \/ Sweep(s)
    \/ CloseRuntime

\* Every thread asleep in the monitor goes on to check its predicate again.
Woken == [w \in Callers |-> IF waiter[w] = "asleep" THEN "ready" ELSE waiter[w]]

\* notify_termination_waiters: notify_all on the monitor comes first.
\* Faulty variant: only async waiters are told.
NotifyAll_skipped(n) ==
    /\ n \notin notified
    /\ \/ n \in Tasks /\ releasing[n] = "waiters"
       \/ n \in Closers /\ closer[n] = "waiters"
    /\ notified' = notified \cup {n}
    /\ UNCHANGED <<serviceVars, waitVars, observeVars>>

NotifyAll(n) ==
    /\ n \notin notified
    /\ \/ n \in Tasks /\ releasing[n] = "waiters"
       \/ n \in Closers /\ closer[n] = "waiters"
    /\ notified' = notified \cup {n}
    /\ waiter' = Woken
    /\ UNCHANGED <<serviceVars, monitor, left, slice, seen, owed, observeVars>>

\* ... terminated_notify.notify_waiters() second.
NotifyWaiters(n) ==
    /\ n \in notified
    /\ \/ n \in Tasks /\ ReleaseNotifyWaiters(n)
       \/ n \in Closers /\ CloseNotifyWaiters(n)
    /\ UNCHANGED <<notified, waitVars, observeVars>>

Service ==
    \/ /\ MonitorFree /\ InsideMonitor
       /\ UNCHANGED <<waitVars, notified, observeVars>>
    \/ OutsideMonitor /\ UNCHANGED <<waitVars, notified, observeVars>>

-----------------------------------------------------------------------------
(* The predicate is_not_running() && counts.is_empty(), evaluated by a     *)
(* waiter inside wait_until_ready: the byte, then the counts.              *)

Go(w, pc) == waiter' = [waiter EXCEPT ![w] = pc]

\* What a waiter returns when it finds the service terminated.
Success(w) == IF w \in TimedWaiters THEN "true" ELSE "done"

WaitEnter(w) ==
    /\ w \in Waiters /\ waiter[w] = "idle"
    /\ Go(w, "ready")
    /\ UNCHANGED <<serviceVars, monitor, left, slice, seen, owed, notified, observeVars>>

WaitLoad(w) ==
    /\ waiter[w] = "ready" /\ MonitorFree
    /\ monitor' = w
    /\ Go(w, IF is_not_running(lifecycle) THEN "closed" ELSE "open")
    /\ UNCHANGED <<serviceVars, left, slice, seen, owed, notified, observeVars>>

\* Ready, or asleep on the condition variable: either way the monitor is released.
\* Faulty variant: the lifecycle byte does not take part in the predicate.
WaitDecide_idle_is_terminated(w) ==
    /\ monitor = w
    /\ monitor' = "free"
    /\ Go(w, IF is_empty THEN Success(w) ELSE "asleep")
    /\ UNCHANGED <<serviceVars, left, slice, seen, owed, notified, observeVars>>

WaitDecide(w) ==
    /\ monitor = w
    /\ monitor' = "free"
    /\ Go(w, IF waiter[w] = "closed" /\ is_empty THEN Success(w) ELSE "asleep")
    /\ UNCHANGED <<serviceVars, left, slice, seen, owed, notified, observeVars>>

-----------------------------------------------------------------------------
(* wait_termination_timeout.                                               *)

\* A service that is terminated now is found terminated by the next test of the loop.
Owe(w) == owed' = IF is_terminated THEN owed \cup {w} ELSE owed

TimedEnter(w) ==
    /\ w \in TimedWaiters /\ waiter[w] = "idle"
    /\ Go(w, "top") /\ Owe(w)
    /\ left' = [left EXCEPT ![w] = Hours]
    /\ UNCHANGED <<serviceVars, monitor, slice, seen, notified, observeVars>>

\* Time passes for a call that has not returned.
Tick(w) ==
    /\ w \in TimedWaiters /\ left[w] > 0
    /\ waiter[w] \notin {"idle", "true", "false"}
    /\ left' = [left EXCEPT ![w] = @ - 1]
    /\ UNCHANGED <<serviceVars, monitor, waiter, slice, seen, owed, notified, observeVars>>

\* The test at the top of the loop: the byte outside the monitor, then the counts.
\* The Err branch makes the same test and returns its outcome, before the deadline or not.
TimedLoad(w) ==
    /\ waiter[w] \in {"top", "err"}
    /\ Go(w, IF waiter[w] = "top"
             THEN IF is_not_running(lifecycle) THEN "top_read" ELSE "deadline"
             ELSE IF is_not_running(lifecycle) THEN "err_read" ELSE "false")
    /\ UNCHANGED <<serviceVars, monitor, left, slice, seen, owed, notified, observeVars>>

TimedRead(w) ==
    /\ waiter[w] \in {"top_read", "err_read"} /\ MonitorFree
    /\ Go(w, IF is_empty THEN "true"
             ELSE IF waiter[w] = "top_read" THEN "deadline" ELSE "false")
    /\ owed' = IF is_empty THEN owed \ {w} ELSE owed   \* true pays the debt
    /\ UNCHANGED <<serviceVars, monitor, left, slice, seen, notified, observeVars>>

\* remaining.is_zero() ends the call; otherwise one slice of at most an hour begins.
\* Faulty variant: the deadline is not looked at.
TimedDeadline_unchecked(w) ==
    /\ waiter[w] = "deadline"
    /\ Go(w, "ready")
    /\ slice' = [slice EXCEPT ![w] = left[w] - 1]
    /\ UNCHANGED <<serviceVars, monitor, left, seen, owed, notified, observeVars>>

TimedDeadline(w) ==
    /\ waiter[w] = "deadline"
    /\ Go(w, IF left[w] = 0 THEN "false" ELSE "ready")
    /\ slice' = [slice EXCEPT ![w] = IF left[w] = 0 THEN @ ELSE left[w] - 1]
    /\ UNCHANGED <<serviceVars, monitor, left, seen, owed, notified, observeVars>>

\* The slice is over, the monitor reports that the predicate did not hold, and the loop
\* starts again.
\* Faulty variant: the end of a slice is taken for the end of the wait.
TimedExpire_gives_up(w) ==
    /\ w \in TimedWaiters /\ waiter[w] \in {"ready", "asleep"}
    /\ left[w] <= slice[w]
    /\ Go(w, "false") /\ Owe(w)
    /\ UNCHANGED <<serviceVars, monitor, left, slice, seen, notified, observeVars>>

TimedExpire(w) ==
    /\ w \in TimedWaiters /\ waiter[w] \in {"ready", "asleep"}
    /\ left[w] <= slice[w]
    /\ Go(w, "top") /\ Owe(w)
    /\ slice' = [slice EXCEPT ![w] = 0]
    /\ UNCHANGED <<serviceVars, monitor, left, seen, notified, observeVars>>

\* The monitor cannot wait and returns an error.
TimedError(w) ==
    /\ w \in TimedWaiters /\ waiter[w] = "ready"
    /\ Go(w, "err") /\ Owe(w)
    /\ UNCHANGED <<serviceVars, monitor, left, slice, seen, notified, observeVars>>

-----------------------------------------------------------------------------
(* await_termination: a notified() created before each check completes with *)
(* the first notify_waiters after its creation.                            *)

AwaitEnter(w) ==
    /\ w \in AsyncWaiters /\ waiter[w] = "idle"
    /\ Go(w, "load")
    /\ seen' = [seen EXCEPT ![w] = terminated_notify]
    /\ UNCHANGED <<serviceVars, monitor, left, slice, owed, notified, observeVars>>

\* is_terminated(): lifecycle() loads the byte and then reads the counts.
AwaitLoad(w) ==
    /\ waiter[w] = "load"
    /\ Go(w, IF is_not_running(lifecycle) THEN "read" ELSE "await")
    /\ UNCHANGED <<serviceVars, monitor, left, slice, seen, owed, notified, observeVars>>

AwaitRead(w) ==
    /\ waiter[w] = "read" /\ MonitorFree
    /\ Go(w, IF is_empty THEN "done" ELSE "await")
    /\ UNCHANGED <<serviceVars, monitor, left, slice, seen, owed, notified, observeVars>>

AwaitWake(w) ==
    /\ waiter[w] = "await" /\ terminated_notify # seen[w]
    /\ Go(w, "load")
    /\ seen' = [seen EXCEPT ![w] = terminated_notify]
    /\ UNCHANGED <<serviceVars, monitor, left, slice, owed, notified, observeVars>>

-----------------------------------------------------------------------------
(* stats: the counts in one section of the monitor, then lifecycle(), which *)
(* loads the byte and reads the counts once more.                          *)

StatsCounts(o) ==
    /\ sample[o].at = "start" /\ MonitorFree
    /\ sample' = [sample EXCEPT ![o] =
          [at |-> "load", queued |-> queued, running |-> running, byte |-> Running]]
    /\ UNCHANGED <<serviceVars, waitVars, notified, report>>

StatsLoad(o) ==
    /\ sample[o].at = "load"
    /\ sample' = [sample EXCEPT ![o].at = "read", ![o].byte = load(lifecycle)]
    /\ UNCHANGED <<serviceVars, waitVars, notified, report>>

\* Faulty variant: the counts sampled before the byte decide about Terminated.
StatsRead_stale_counts(o) ==
    /\ sample[o].at = "read" /\ MonitorFree
    /\ sample' = [sample EXCEPT ![o] =
          [at |-> "start", queued |-> 0, running |-> 0, byte |-> Running]]
    /\ report' = [report EXCEPT ![o] =
          [queued |-> sample[o].queued, running |-> sample[o].running,
           lifecycle |-> IF /\ is_not_running(sample[o].byte)
                            /\ sample[o].queued = 0 /\ sample[o].running = 0
                         THEN Terminated ELSE sample[o].byte]]
    /\ UNCHANGED <<serviceVars, waitVars, notified>>

StatsRead(o) ==
    /\ sample[o].at = "read" /\ MonitorFree
    /\ sample' = [sample EXCEPT ![o] =
          [at |-> "start", queued |-> 0, running |-> 0, byte |-> Running]]
    /\ report' = [report EXCEPT ![o] =
          [queued |-> sample[o].queued, running |-> sample[o].running,
           lifecycle |-> IF is_not_running(sample[o].byte) /\ is_empty
                         THEN Terminated ELSE sample[o].byte]]
    /\ UNCHANGED <<serviceVars, waitVars, notified>>

-----------------------------------------------------------------------------
TerminationInit ==
    /\ Init
    /\ monitor = "free" /\ notified = {}
    /\ waiter = [w \in Callers |-> "idle"]
    /\ left = [w \in TimedWaiters |-> 0]
    /\ slice = [w \in TimedWaiters |-> 0]
    /\ owed = {}
    /\ seen = [w \in AsyncWaiters |-> 0]
    /\ sample = [o \in Observers |->
          [at |-> "start", queued |-> 0, running |-> 0, byte |-> Running]]
    /\ report = [o \in Observers |-> [queued |-> 0, running |-> 0, lifecycle |-> Running]]

WaitCall(w) == WaitEnter(w) \/ TimedEnter(w) \/ AwaitEnter(w)
Wait(w) == \/ WaitLoad(w) \/ WaitDecide(w)
           \/ TimedLoad(w) \/ TimedRead(w) \/ TimedDeadline(w) \/ TimedExpire(w)
           \/ AwaitLoad(w) \/ AwaitRead(w) \/ AwaitWake(w)
Observe(o) == StatsCounts(o) \/ StatsLoad(o) \/ StatsRead(o)
Notifier(n) == NotifyAll(n) \/ NotifyWaiters(n)

\* Nothing is left to do but wait for a shutdown that nobody asked for.
TerminationSettled ==
    /\ Settled
    /\ \A w \in Callers : waiter[w] \in {"idle", "asleep", "await", "done", "true",
                                         "false"}

TerminationNext ==
    \/ Service
    \/ \E n \in Tasks \cup Closers : Notifier(n)
    \/ \E w \in Callers : WaitCall(w) \/ Wait(w) \/ Tick(w) \/ TimedError(w)
    \/ \E o \in Observers : Observe(o)
    \/ TerminationSettled /\ UNCHANGED allVars

TerminationSpec == TerminationInit /\ [][TerminationNext]_allVars

(***************************************************************************)
(* Fairness: the threads of the service as before, every waiter that can   *)
(* move is scheduled (parking_lot hands its mutex over eventually), and    *)
(* time passes.                                                            *)
(***************************************************************************)
TerminationFairness ==
    /\ Fairness
    /\ \A n \in Tasks \cup Closers : WF_allVars(Notifier(n))
    /\ \A w \in Callers : WF_allVars(Wait(w)) /\ WF_allVars(Tick(w))

TerminationFairSpec == TerminationSpec /\ TerminationFairness

-----------------------------------------------------------------------------
(* Properties.                                                             *)

\* Whoever is told that the service has terminated is told the truth, although the
\* byte and the counts are read in two steps and stats reads the counts twice:
\* wait_termination and await_termination return, wait_termination_timeout returns true
\* and stats reports Terminated only for a terminated service.
NoEarlyReturn ==
    /\ \A w \in Callers : waiter[w] \in {"done", "true"} => is_terminated
    /\ \A o \in Observers : report[o].lifecycle = Terminated => is_terminated

\* A thread that will still call notify_all: the last finish_task, or a shutdown or
\* stop that has stored its byte and not yet passed notify_if_terminated.
WillNotifyAll(n) ==
    /\ n \notin notified
    /\ \/ n \in Tasks /\ releasing[n] \in {"capacity_last", "waiters"}
       \/ n \in Closers /\ closer[n] \in {"stored", "snapshotted", "sweep", "capacity",
                                          "check", "waiters"}

\* No wake-up is lost between the store of the lifecycle, made outside the monitor, and
\* a waiter that read the byte before it and is about to sleep or asleep: once the
\* service is terminated, a notify_all is still to come.
NoLostWakeup ==
    (is_terminated /\ \E w \in Sleepers : waiter[w] \in {"open", "asleep"})
    => \E n \in Tasks \cup Closers : WillNotifyAll(n)

\* wait_termination_timeout returns false, at its deadline or because the monitor failed,
\* only if the service was not terminated when the call began, nor at any time during one
\* of its slices: a termination whose notification loses the race against the end of the
\* slice, or against the error, is still found by the test that follows.
NoFalseAfterTermination ==
    \A w \in TimedWaiters : waiter[w] = "false" => w \notin owed

\* After a shutdown or stop every accepted task ends, and every thread that waits for it
\* returns.
WaitersReturn ==
    \A w \in Callers : (waiter[w] # "idle" /\ is_not_running(lifecycle))
                       ~> waiter[w] \in {"done", "true", "false"}

\* A timed wait returns, whether or not the service ever terminates.
TimedWaitsReturn ==
    \A w \in TimedWaiters : waiter[w] # "idle" ~> waiter[w] \in {"true", "false"}
=============================================================================
