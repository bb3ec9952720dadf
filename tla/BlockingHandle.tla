--------------------------- MODULE BlockingHandle ---------------------------
(***************************************************************************)
(* The owner of a TokioBlockingTaskHandle and the cancellation endpoints   *)
(* it hands out, composed with the blocking service.  get and into_future  *)
(* consume the handle, try_get consumes it when the result is there and    *)
(* returns it otherwise; an endpoint outlives the handle.                  *)
(***************************************************************************)
EXTENDS BlockingService

CONSTANT Endpoints   \* names for the endpoints taken from one handle

ASSUME EndpointsAssumption == "handle" \notin Endpoints

VARIABLES
    handle,  \* "held", "waiting" in get or a future, "got" or "dropped"
    result,  \* what get, try_get or the future returned
    answers  \* what cancel last told the handle's owner and each endpoint

handleVars == <<handle, result, answers>>
allVars    == <<vars, handleVars>>

\* is_done.
Done(t) == status[t] \in {"completed", "cancelled", "dropped"}

\* try_submit_tracked_callable has returned the handle, made by new, and its owner has it.
Held(t) == handle[t] = "held" /\ submitter[t] = "returned"

\* try_get: Ready(result) consumes the handle, Pending gives it back whole.
TryGet(t) ==
    /\ Held(t) /\ Done(t)
    /\ handle' = [handle EXCEPT ![t] = "got"]
    /\ result' = [result EXCEPT ![t] = status[t]]
    /\ UNCHANGED <<vars, answers>>

\* get and into_future give up the handle and wait ...
Wait(t) ==
    /\ Held(t)
    /\ handle' = [handle EXCEPT ![t] = "waiting"]
    /\ UNCHANGED <<vars, result, answers>>

\* ... until the task is done.
Resolve(t) ==
    /\ handle[t] = "waiting" /\ Done(t)
    /\ handle' = [handle EXCEPT ![t] = "got"]
    /\ result' = [result EXCEPT ![t] = status[t]]
    /\ UNCHANGED <<vars, answers>>

\* The handle, or the future made from it, is dropped.
\* Faulty variant: dropping the last observer cancels the task.
Drop_cancels(t) ==
    /\ Held(t) \/ handle[t] = "waiting"
    /\ handle' = [handle EXCEPT ![t] = "dropped"]
    /\ IF status[t] = "pending" THEN Cancel(t) ELSE UNCHANGED vars
    /\ UNCHANGED <<result, answers>>

Drop(t) ==
    /\ Held(t) \/ handle[t] = "waiting"
    /\ handle' = [handle EXCEPT ![t] = "dropped"]
    /\ UNCHANGED <<vars, result, answers>>

\* cancellation_handle.
CancellationHandle(t, e) ==
    /\ Held(t) /\ answers[t][e] = "none"
    /\ answers' = [answers EXCEPT ![t][e] = "ready"]
    /\ UNCHANGED <<vars, handle, result>>

\* What cancel answers in the state it finds.
CancelResult(t) == CASE status[t] = "pending" -> "cancelled"
                     [] status[t] = "running" -> "already_running"
                     [] Done(t)               -> "already_finished"

\* cancel, on the handle or on an endpoint: only the call that moves the status out of
\* pending goes on to the queued accounting and the abort.  A caller that won and calls
\* again is answered AlreadyFinished, without effect; its win is what is remembered.
\* Faulty variant: every endpoint that finds the task cancelled claims the cancellation.
CancelBy_claims(t, e) ==
    /\ IF e = "handle" THEN Held(t) ELSE answers[t][e] # "none"
    /\ answers[t][e] # "cancelled"
    /\ answers' = [answers EXCEPT ![t][e] =
          IF status[t] \in {"pending", "cancelled"} THEN "cancelled" ELSE CancelResult(t)]
    /\ IF status[t] = "pending" THEN Cancel(t) ELSE UNCHANGED vars
    /\ UNCHANGED <<handle, result>>

CancelBy(t, e) ==
    /\ IF e = "handle" THEN Held(t) ELSE answers[t][e] # "none"
    /\ answers[t][e] # "cancelled"
    /\ answers' = [answers EXCEPT ![t][e] = CancelResult(t)]
    /\ IF status[t] = "pending" THEN Cancel(t) ELSE UNCHANGED vars
    /\ UNCHANGED <<handle, result>>

-----------------------------------------------------------------------------
HandleInit ==
    /\ Init
    /\ handle = [t \in TrackedCallables |-> "held"]
    /\ result = [t \in TrackedCallables |-> "none"]
    /\ answers = [t \in TrackedCallables |-> [e \in Endpoints \cup {"handle"} |-> "none"]]

Owner(t) == \/ TryGet(t) \/ Wait(t) \/ Drop(t)
            \/ \E e \in Endpoints : CancellationHandle(t, e)

HandleSettled == /\ Settled
                 /\ \A t \in TrackedCallables : handle[t] # "waiting"

HandleNext ==
    \/ \E t \in TrackedCallables :
          \/ Owner(t) \/ Resolve(t)
          \/ \E e \in Endpoints \cup {"handle"} : CancelBy(t, e)
    \/ \E t \in Tasks : Submit(t) /\ UNCHANGED handleVars
    \/ Proceed /\ UNCHANGED handleVars
    \/ HandleSettled /\ UNCHANGED allVars

HandleSpec == HandleInit /\ [][HandleNext]_allVars

\* The fairness of the service; a waiting owner is woken, and nobody has to cancel.
HandleFairSpec ==
    HandleSpec /\ Fairness /\ \A t \in TrackedCallables : WF_allVars(Resolve(t))

-----------------------------------------------------------------------------
(* Properties.                                                             *)

\* A result that was handed out is the task's final status: no later cancel, stop, worker
\* or dropped slot changes it.
ResultIsFinal ==
    \A t \in TrackedCallables : handle[t] = "got" => result[t] = status[t]

\* Of all the endpoints of a task at most one is told that it cancelled it, and then the
\* task reports Cancelled and never runs.
CancelHasOneWinner ==
    \A t \in TrackedCallables :
        LET winners == {e \in Endpoints \cup {"handle"} : answers[t][e] = "cancelled"}
        IN  /\ Cardinality(winners) <= 1
            /\ winners # {} => status[t] = "cancelled" /\ t \notin called

\* get and the future return, also when the task is cancelled by an endpoint or a stop,
\* or dropped by its runtime, while they wait.
WaitingResolves ==
    \A t \in TrackedCallables : handle[t] = "waiting" ~> handle[t] \in {"got", "dropped"}

\* Dropping the handle or its future cancels nothing: an accepted task runs unless the
\* handle or an endpoint was told that it cancelled it, the service was stopped or the
\* runtime was closed.
DropDoesNotCancel ==
    \A t \in TrackedCallables :
        submitter[t] = "admitted"
        ~> \/ t \in called
           \/ \E e \in Endpoints \cup {"handle"} : answers[t][e] = "cancelled"
           \/ lifecycle = Stopping \/ rt_closed
=============================================================================
