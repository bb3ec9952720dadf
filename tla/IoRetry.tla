------------------------------- MODULE IoRetry -------------------------------
(***************************************************************************)
(* The retry protocol of BlockingRetry against the IO service: subscribe,  *)
(* try_spawn, take the future back from the RejectedTask and, after        *)
(* Saturated, await changed().  The unit is returned by a decrement of     *)
(* active_tasks and published by a later step of the guard.  Producers do  *)
(* not cancel what they submitted.                                         *)
(***************************************************************************)
EXTENDS IoRefinement

VARIABLES
    producer,  \* program counter of the producer of every future
    changes    \* version its watch receiver has seen

retryVars == <<producer, changes>>
allVars   == <<vars, retryVars>>

Subscribe(t) ==
    /\ producer[t] = "start"
    /\ producer' = [producer EXCEPT ![t] = "try"]
    /\ changes' = [changes EXCEPT ![t] = capacity_tx]
    /\ UNCHANGED vars

\* try_spawn and the match on the rejection's reason.  Once the tests under the lock
\* are passed nothing can reject the future any more.
Attempt(t) ==
    /\ producer[t] = "try"
    /\ Submit(t)
    /\ producer' = [producer EXCEPT ![t] =
          CASE submitter'[t] = "checked"   -> "accepted"
            [] submitter'[t] = "saturated" -> "changed"
            [] submitter'[t] = "shutdown"  -> "refused"]
    /\ UNCHANGED changes

\* changed() completes once the channel has moved, and marks the version as seen.
Changed(t) ==
    /\ producer[t] = "changed" /\ capacity_tx # changes[t]
    /\ producer' = [producer EXCEPT ![t] = "try"]
    /\ changes' = [changes EXCEPT ![t] = capacity_tx]
    /\ UNCHANGED vars

-----------------------------------------------------------------------------
RetryInit ==
    /\ Init
    /\ producer = [t \in Tasks |-> "start"]
    /\ changes = [t \in Tasks |-> 0]

Producer(t) == Attempt(t) \/ Changed(t)

RetryNext ==
    \/ \E t \in Tasks : Subscribe(t) \/ Producer(t)
    \/ Proceed /\ UNCHANGED retryVars
    \/ /\ Settled /\ \A t \in Tasks : producer[t] # "try"
       /\ UNCHANGED allVars

RetrySpec == RetryInit /\ [][RetryNext]_allVars

\* The fairness of the service, and producers that are scheduled.
RetryFairSpec == RetrySpec /\ Fairness /\ \A t \in Tasks : WF_allVars(Producer(t))

-----------------------------------------------------------------------------
\* No capacity is missed: a producer that waits for a change it was not offered faces a
\* full, open service, or a guard or closer that has yet to publish its change.
NoMissedChange ==
    \A t \in Tasks :
        (producer[t] = "changed" /\ changes[t] = capacity_tx)
        => \/ AdmissionOpen /\ ~HasCapacity
           \/ \E u \in Tasks : guard[u] = "released"
           \/ \E c \in Closers : closer[c] \in {"stored", "snapshotted", "sweep", "capacity"}

\* Every producer that entered the protocol is eventually accepted or refused.
RetryConcludes ==
    \A t \in Tasks : producer[t] # "start" ~> producer[t] \in {"accepted", "refused"}
=============================================================================
