------------------------- MODULE BlockingRefinement -------------------------
(***************************************************************************)
(* The blocking service implements ExecutorServiceSpec.                    *)
(***************************************************************************)
EXTENDS BlockingService

\* A task is active from the write that counts it to the write that releases it.
\* Its phase is what the result slot and the worker say of it; a runnable has no
\* slot, so an unstarted one is never seen to be withdrawn.
PhaseOf(t) ==
    CASE t \in called /\ blocking[t] = "call" -> "inside"
      [] t \in called /\ blocking[t] # "call" -> "completed"
      [] t \notin called /\ status[t] \in {"cancelled", "dropped"} -> "withdrawn"
      [] t \notin called /\ status[t] \notin {"cancelled", "dropped"} ->
            IF task_state[t] = "NONE" THEN "new" ELSE "pending"

Abstract == INSTANCE ExecutorServiceSpec WITH
    open      <- ~is_not_running(lifecycle),
    active    <- Unfinished,
    phase     <- [t \in Tasks |-> PhaseOf(t)],
    signalled <- terminated_notify > 0

\* Every behaviour of the threads of the blocking service is, through the mapping,
\* a behaviour of the abstract service: one accept, one entry, one release per task.
ImplementsExecutorService == Abstract!Spec
=============================================================================
