------------------------ MODULE TokioExecutorProofs ------------------------
(***************************************************************************)
(* TokioExecutor without a service, for any finite set of callables and    *)
(* any number of blocking threads: the result a handle reports is final.   *)
(***************************************************************************)
EXTENDS TokioExecutor, SequenceTheorems, TLAPS

\* The inductive invariant: the queue holds tasks, and a thread is inside the callable
\* exactly of a task that is running, so nobody else can have settled its result.
ExecutorInv ==
    /\ queue \in Seq(Tasks) /\ called \subseteq Tasks /\ rt_closed \in BOOLEAN
    /\ worker \in [Tasks -> {"none", "picked", "call", "finished"}]
    /\ status \in [Tasks -> {"none", "pending", "running", "completed", "cancelled",
                             "dropped"}]
    /\ \A t \in Tasks : worker[t] = "call" => status[t] = "running" /\ t \in called

\* The oldest wrapper of a non-empty queue is a task's, and so are the others.
LEMMA QueueHead ==
    ASSUME queue \in Seq(Tasks), queue # <<>>
    PROVE  Head(queue) \in Tasks /\ Tail(queue) \in Seq(Tasks)
OBVIOUS

\* Every step preserves the invariant and leaves final results alone.
LEMMA ExecutorNext ==
    ASSUME ExecutorInv, [Next]_vars
    PROVE  ExecutorInv' /\ \A t \in Tasks : Done(t) => status'[t] = status[t]
<1> DEFINE Goal == ExecutorInv' /\ \A t \in Tasks : Done(t) => status'[t] = status[t]
<1> USE DEF ExecutorInv, Done
<1>1. ASSUME NEW t \in Tasks, Call(t) PROVE Goal
      BY <1>1 DEF Call
<1>2. ASSUME NEW t \in Tasks, Run(t) PROVE Goal
      BY <1>2 DEF Run
<1>3. ASSUME NEW t \in Tasks, Return(t) PROVE Goal
      BY <1>3 DEF Return
<1>4. ASSUME NEW t \in Tasks, Cancel(t) PROVE Goal
      BY <1>4 DEF Cancel
<1>5. ASSUME Pick PROVE Goal
      BY <1>5, QueueHead DEF Pick
<1>6. ASSUME Discard PROVE Goal
      BY <1>6, QueueHead DEF Discard, DropSlot
<1>7. ASSUME CloseRuntime \/ UNCHANGED vars PROVE Goal
      BY <1>7 DEF CloseRuntime, vars
<1> HIDE DEF Goal
<1>8. Goal
      BY <1>1, <1>2, <1>3, <1>4, <1>5, <1>6, <1>7 DEF Next
<1> QED BY <1>8 DEF Goal

\* The invariant holds in every reachable state.
THEOREM ExecutorInvariance == Spec => []ExecutorInv
<1>1. Init => ExecutorInv
  <2>1. <<>> \in Seq(Tasks)
        BY EmptySeq
  <2> QED BY <2>1 DEF Init, ExecutorInv
<1>2. ExecutorInv /\ [Next]_vars => ExecutorInv'
      BY ExecutorNext
<1> QED BY <1>1, <1>2, PTL DEF Spec

\* What the handle of a callable reports once it is done never changes: a closing runtime
\* that drops the wrapper of a cancelled task does not turn Cancelled into Dropped.
THEOREM OutcomesAreFinal == Spec => OutcomeIsFinal
<1>1. ExecutorInv /\ [Next]_vars => [\A t \in Tasks : Done(t) => status'[t] = status[t]]_vars
      BY ExecutorNext
<1> QED BY <1>1, ExecutorInvariance, PTL DEF Spec, OutcomeIsFinal
=============================================================================
