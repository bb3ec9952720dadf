---------------------------- MODULE TokioExecutor ----------------------------
(***************************************************************************)
(* TokioExecutor: the executor without a service around it.  call hands a  *)
(* wrapper closure to the blocking pool of the bound runtime and returns   *)
(* the tracked handle; there is no admission, no accounting and no abort   *)
(* handle, so the wrapper of a cancelled task keeps its place in the pool. *)
(***************************************************************************)
EXTENDS Sequences, FiniteSets, Naturals

CONSTANTS
    Tasks,        \* callables given to call
    PoolThreads   \* max_blocking_threads of the bound runtime

ASSUME PoolAssumption == IsFiniteSet(Tasks) /\ PoolThreads \in Nat \ {0}

VARIABLES
    queue,     \* wrappers waiting for a blocking thread, in order
    worker,    \* "none", "picked" by a thread, in the user "call", or "finished"
    status,    \* the status the tracked handle observes; "none" before call
    called,    \* tasks whose user closure has been entered
    rt_closed  \* the bound runtime has been shut down

vars == <<queue, worker, status, called, rt_closed>>

Busy    == {t \in Tasks : worker[t] \in {"picked", "call"}}
Done(t) == status[t] \in {"completed", "cancelled", "dropped"}

\* Dropping a wrapper that never ran drops its slot, and a slot nobody finished
\* publishes Dropped.
\* Faulty variants: nothing is published; the handle's own cancellation is overwritten.
DropSlot_leaked(t) == status[t]
DropSlot_overwrites(t) == "dropped"

DropSlot(t) == IF status[t] = "pending" THEN "dropped" ELSE status[t]

\* call: it never fails.  spawn_blocking on a closed runtime drops the wrapper, with
\* the slot just made, before the handle is returned.
Call(t) ==
    /\ status[t] = "none"
    /\ IF rt_closed
       THEN /\ status' = [status EXCEPT ![t] = "dropped"]
            /\ worker' = [worker EXCEPT ![t] = "finished"]
            /\ UNCHANGED queue
       ELSE /\ status' = [status EXCEPT ![t] = "pending"]
            /\ queue' = Append(queue, t)
            /\ UNCHANGED worker
    /\ UNCHANGED <<called, rt_closed>>

\* A free blocking thread takes the oldest wrapper.
Pick ==
    /\ queue # <<>> /\ Cardinality(Busy) < PoolThreads
    /\ worker' = [worker EXCEPT ![Head(queue)] = "picked"]
    /\ queue' = Tail(queue)
    /\ UNCHANGED <<status, called, rt_closed>>

\* A free thread that finds its runtime closed drops the oldest wrapper instead.
Discard ==
    /\ queue # <<>> /\ Cardinality(Busy) < PoolThreads /\ rt_closed
    /\ status' = [status EXCEPT ![Head(queue)] = DropSlot(Head(queue))]
    /\ worker' = [worker EXCEPT ![Head(queue)] = "finished"]
    /\ queue' = Tail(queue)
    /\ UNCHANGED <<called, rt_closed>>

\* TaskRunner::run: the callable of a task cancelled in the meantime is dropped.
Run(t) ==
    /\ worker[t] = "picked"
    /\ \/ /\ status[t] = "pending"
          /\ status' = [status EXCEPT ![t] = "running"]
          /\ called' = called \cup {t}
          /\ worker' = [worker EXCEPT ![t] = "call"]
       \/ /\ status[t] # "pending"
          /\ worker' = [worker EXCEPT ![t] = "finished"]
          /\ UNCHANGED <<status, called>>
    /\ UNCHANGED <<queue, rt_closed>>

\* The callable returns or panics, and its result is published.
Return(t) ==
    /\ worker[t] = "call"
    /\ status' = [status EXCEPT ![t] = "completed"]
    /\ worker' = [worker EXCEPT ![t] = "finished"]
    /\ UNCHANGED <<queue, called, rt_closed>>

\* TrackedTask::cancel wins only while the task is pending.
Cancel(t) ==
    /\ status[t] = "pending"
    /\ status' = [status EXCEPT ![t] = "cancelled"]
    /\ UNCHANGED <<queue, worker, called, rt_closed>>

CloseRuntime ==
    /\ ~rt_closed
    /\ rt_closed' = TRUE
    /\ UNCHANGED <<queue, worker, status, called>>

-----------------------------------------------------------------------------
Init ==
    /\ queue = <<>> /\ called = {} /\ rt_closed = FALSE
    /\ worker = [t \in Tasks |-> "none"]
    /\ status = [t \in Tasks |-> "none"]

Next ==
    \/ \E t \in Tasks : Call(t) \/ Run(t) \/ Return(t) \/ Cancel(t)
    \/ Pick \/ Discard \/ CloseRuntime
    \/ queue = <<>> /\ Busy = {} /\ UNCHANGED vars

\* Tokio's blocking threads are scheduled and callables return; nobody has to call,
\* cancel or close the runtime.
Spec ==
    /\ Init /\ [][Next]_vars
    /\ WF_vars(Pick \/ Discard)
    /\ \A t \in Tasks : WF_vars(Run(t)) /\ WF_vars(Return(t))

-----------------------------------------------------------------------------
(* Properties.                                                             *)

\* The result a handle reports is final: a closing runtime that later drops the wrapper
\* of a cancelled task does not turn Cancelled into Dropped.
OutcomeIsFinal == [][\A t \in Tasks : Done(t) => status'[t] = status[t]]_vars

\* call does not report a closed runtime; instead every handle it returned resolves,
\* whatever the races between the pool, cancel and the runtime's shutdown.
HandleResolves == \A t \in Tasks : status[t] = "pending" ~> Done(t)
=============================================================================
