---------------------------- MODULE BlockingRetry ----------------------------
(***************************************************************************)
(* Producers that submit to the blocking service by the documented retry   *)
(* protocol: subscribe with capacity_changes, try_submit*, take the task   *)
(* back from the RejectedTask, and after Saturated wait for changed().     *)
(* A watch receiver remembers the version it has seen; changed() completes *)
(* as soon as the channel has moved past it.  Producers do not cancel what *)
(* they submitted; BlockingHandle is about cancellation.                   *)
(***************************************************************************)
EXTENDS BlockingService

VARIABLES
    producer,  \* program counter of the producer of every task
    changes,   \* version its receiver has seen
    rejected   \* the RejectedTask it was given: "none", or the reason

retryVars == <<producer, changes, rejected>>
allVars   == <<vars, retryVars>>

\* service.capacity_changes(): the current version counts as seen.
Subscribe(t) ==
    /\ producer[t] = "start"
    /\ producer' = [producer EXCEPT ![t] = "try"]
    /\ changes' = [changes EXCEPT ![t] = capacity_tx]
    /\ UNCHANGED <<vars, rejected>>

\* One attempt.  Acceptance consumes the task; a rejection returns it with its reason.
Attempt(t) ==
    /\ producer[t] = "try"
    /\ Submit(t)
    /\ producer' = [producer EXCEPT ![t] = "inspect"]
    /\ rejected' = [rejected EXCEPT ![t] =
          IF submitter'[t] \in {"saturated", "shutdown"} THEN submitter'[t] ELSE "none"]
    /\ UNCHANGED changes

\* into_parts, and the match on the reason.
\* Faulty variant: a fresh receiver is taken after the rejection.
Inspect_resubscribes(t) ==
    /\ producer[t] = "inspect"
    /\ producer' = [producer EXCEPT ![t] =
          CASE rejected[t] = "none"      -> "accepted"
            [] rejected[t] = "saturated" -> "changed"
            [] rejected[t] = "shutdown"  -> "refused"]
    /\ rejected' = [rejected EXCEPT ![t] = "none"]
    /\ changes' = [changes EXCEPT ![t] = capacity_tx]
    /\ UNCHANGED vars

Inspect(t) ==
    /\ producer[t] = "inspect"
    /\ producer' = [producer EXCEPT ![t] =
          CASE rejected[t] = "none"      -> "accepted"
            [] rejected[t] = "saturated" -> "changed"
            [] rejected[t] = "shutdown"  -> "refused"]
    /\ rejected' = [rejected EXCEPT ![t] = "none"]
    /\ UNCHANGED <<vars, changes>>

\* changes.changed().await: the newest version is seen, and the task is tried again.
Changed(t) ==
    /\ producer[t] = "changed" /\ capacity_tx # changes[t]
    /\ producer' = [producer EXCEPT ![t] = "try"]
    /\ changes' = [changes EXCEPT ![t] = capacity_tx]
    /\ UNCHANGED <<vars, rejected>>

-----------------------------------------------------------------------------
RetryInit ==
    /\ Init
    /\ producer = [t \in Tasks |-> "start"]
    /\ changes = [t \in Tasks |-> 0]
    /\ rejected = [t \in Tasks |-> "none"]

Producer(t) == Attempt(t) \/ Inspect(t) \/ Changed(t)

\* Producers that found no reason to return wait for a change that will not come.
RetrySettled == /\ Settled
                /\ \A t \in Tasks : producer[t] \in {"start", "changed", "accepted", "refused"}

RetryNext ==
    \/ \E t \in Tasks : Subscribe(t) \/ Producer(t)
    \/ Proceed /\ UNCHANGED retryVars
    \/ RetrySettled /\ UNCHANGED allVars

RetrySpec == RetryInit /\ [][RetryNext]_allVars

(***************************************************************************)
(* Fairness: a producer inside the protocol is scheduled, and so are the   *)
(* threads inside the service.  Nothing is asked of the pool's workers: a  *)
(* blocking closure may run for ever.                                      *)
(***************************************************************************)
EndlessFairness ==
    /\ \A t \in Tasks : /\ WF_allVars(Producer(t)) /\ WF_vars(Submitter(t))
                        /\ WF_vars(Guard(t)) /\ WF_vars(Release(t))
    /\ \A c \in Closers : WF_vars(Closer(c))

RetryFairSpec == RetrySpec /\ EndlessFairness

\* Closures return, and the pool goes on to the next one.
ClosuresEnd == \A t \in Tasks : WF_vars(Worker(t))

-----------------------------------------------------------------------------
(* Properties.                                                             *)

\* A task that was handed back was not touched: it holds no unit, no guard, no slot and
\* no blocking task, and its code has not been called, whichever attempt this was.
RejectedLeavesNoTrace ==
    \A t \in Tasks :
        producer[t] \in {"try", "changed", "refused"} \/ rejected[t] # "none"
        => /\ t \notin Unfinished /\ t \notin called /\ t \notin abort_handles
           /\ guard[t] = "none" /\ blocking[t] = "none" /\ slot_refs[t] = {}
           /\ queued + running = Cardinality(Unfinished)

\* No capacity is missed: while a producer waits for a change it has not been offered,
\* either the service is full and open, or a thread that freed the unit, or closed the
\* service, has yet to publish the change.
NoMissedChange ==
    \A t \in Tasks :
        (producer[t] = "changed" /\ changes[t] = capacity_tx)
        => \/ AdmissionOpen /\ ~HasCapacity
           \/ \E u \in Tasks : releasing[u] \in {"capacity", "capacity_last"}
           \/ \E c \in Closers : closer[c] \in {"stored", "snapshotted", "sweep", "capacity"}

\* If closures end, every producer that entered the protocol is eventually accepted or
\* refused.
RetryConcludes ==
    ClosuresEnd =>
    \A t \in Tasks : producer[t] # "start" ~> producer[t] \in {"accepted", "refused"}

\* A producer that waits for capacity hears of shutdown and stop although the task
\* that holds the unit never ends.
ClosingReachesProducers ==
    \A t \in Tasks : (producer[t] # "start" /\ is_not_running(lifecycle))
                     ~> producer[t] \in {"accepted", "refused"}
=============================================================================
