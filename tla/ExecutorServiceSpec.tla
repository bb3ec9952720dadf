------------------------- MODULE ExecutorServiceSpec -------------------------
(***************************************************************************)
(* What a managed executor service promises its callers, without threads,  *)
(* locks or counters.  A task is accepted while the service is open and    *)
(* has room, its user code runs at most once and entirely while the task   *)
(* holds its unit of capacity, it is withdrawn only if its code was never  *)
(* entered, and waiters are told of termination only when the service is   *)
(* closed and no task holds a unit.                                        *)
(***************************************************************************)
EXTENDS Naturals, FiniteSets

CONSTANTS Tasks, Capacity

VARIABLES
    open,      \* does admission accept tasks?
    active,    \* tasks that hold a unit of capacity
    phase,     \* "new", "pending", "inside", "completed" or "withdrawn"
    signalled  \* have termination waiters been told?

vars == <<open, active, phase, signalled>>

Init == /\ open = TRUE /\ active = {} /\ signalled = FALSE
        /\ phase = [t \in Tasks |-> "new"]

Accept(t) == /\ open /\ phase[t] = "new"
             /\ Cardinality(active) < Capacity
             /\ active' = active \cup {t}
             /\ phase' = [phase EXCEPT ![t] = "pending"]
             /\ UNCHANGED <<open, signalled>>

Enter(t) == /\ t \in active /\ phase[t] = "pending"
            /\ phase' = [phase EXCEPT ![t] = "inside"]
            /\ UNCHANGED <<open, active, signalled>>

Leave(t) == /\ phase[t] = "inside"
            /\ phase' = [phase EXCEPT ![t] = "completed"]
            /\ UNCHANGED <<open, active, signalled>>

Withdraw(t) == /\ phase[t] = "pending"
               /\ phase' = [phase EXCEPT ![t] = "withdrawn"]
               /\ UNCHANGED <<open, active, signalled>>

Free(t) == /\ t \in active /\ phase[t] # "inside"
           /\ active' = active \ {t}
           /\ UNCHANGED <<open, phase, signalled>>

Close == open' = FALSE /\ UNCHANGED <<active, phase, signalled>>

Signal == /\ ~open /\ active = {}
          /\ signalled' = TRUE
          /\ UNCHANGED <<open, active, phase>>

Next == \/ \E t \in Tasks : \/ Accept(t) \/ Enter(t) \/ Leave(t)
                            \/ Withdraw(t) \/ Free(t)
        \/ Close \/ Signal

Spec == Init /\ [][Next]_vars
=============================================================================
