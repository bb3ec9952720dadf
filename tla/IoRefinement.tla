---------------------------- MODULE IoRefinement ----------------------------
(***************************************************************************)
(* The IO service implements the same ExecutorServiceSpec as the blocking  *)
(* service.                                                                *)
(***************************************************************************)
EXTENDS IoService

\* A user future is inside from its first poll until it is destroyed, by completion
\* or by an abort between two polls; one destroyed unpolled is withdrawn.
PhaseOf(t) ==
    CASE future[t] = "none" -> "new"
      [] future[t] \in {"caller", "channel"} -> "pending"
      [] future[t] = "task" -> "inside"
      [] future[t] = "gone" -> "completed"
      [] future[t] = "discarded" -> "withdrawn"

Abstract == INSTANCE ExecutorServiceSpec WITH
    open      <- ~is_not_running(lifecycle),
    active    <- Unfinished,
    phase     <- [t \in Tasks |-> PhaseOf(t)],
    signalled <- \E w \in Waiters : waiter[w] = "done"

\* Every behaviour of try_spawn, Tokio's scheduler, abort, stop, shutdown and the
\* waiters is, through the mapping, a behaviour of the abstract service: a future is
\* polled and destroyed while it holds its unit, and no waiter returns early.
ImplementsExecutorService == Abstract!Spec
=============================================================================
