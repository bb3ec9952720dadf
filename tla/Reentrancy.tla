----------------------------- MODULE Reentrancy -----------------------------
(***************************************************************************)
(* The locks of the two services and the user code that runs between them. *)
(* Every operation is the sequence of its lock sections and of the points  *)
(* where it wakes wakers, calls or drops user code.  Wakers and            *)
(* destructors run on the thread that triggers them and may call the       *)
(* service again, and none of the locks may be locked twice by one thread. *)
(*   "S" submission_lock   "A" abort_handles   "M" the task_counts monitor *)
(***************************************************************************)
EXTENDS Naturals, Sequences

CONSTANTS
    Threads,
    Reentrant,     \* the kinds of user code that call the service again
    MaxReentries   \* bound on such calls

ASSUME ThreadsAssumption == "none" \notin Threads
ASSUME ReentrantAssumption ==
    Reentrant \subseteq {"capacity", "termination", "result", "dropped", "user"}
ASSUME MaxReentriesAssumption == MaxReentries \in Nat

Locks == {"S", "A", "M"}

VARIABLES
    kind,       \* the service: "blocking" or "io"
    code,       \* what each thread has still to do, callbacks inlined
    owner,      \* the thread that holds each lock, or "none"
    reentries

vars == <<kind, code, owner, reentries>>

-----------------------------------------------------------------------------
(* Programs.                                                               *)

Lock(l)    == <<[do |-> "lock", arg |-> l]>>
Unlock(l)  == <<[do |-> "unlock", arg |-> l]>>
User(code_of) == <<[do |-> "user", arg |-> code_of]>>
Section(l) == Lock(l) \o Unlock(l)

\* finish_task, and the IO guard's decrement: the counts, then both kinds of waiters.
finish_task == (IF kind = "blocking" THEN Section("M") ELSE <<>>)
               \o User("capacity") \o User("termination")

\* notify_if_terminated; the IO service notifies without a check.
notify_if_terminated == (IF kind = "blocking" THEN Section("M") ELSE <<>>)
                        \o User("termination")

\* remove_abort_handle: what the map's entry owned is dropped before the lock is released.
remove_abort_handle(drops) == Lock("A") \o drops \o Unlock("A")

\* Drop of the task guard.
guard_drop(drops) == remove_abort_handle(drops) \o finish_task

\* The entry of a blocking task that a closing runtime discarded owns the result slot:
\* its drop publishes Dropped.
DroppedSlot == IF kind = "blocking" THEN User("dropped") ELSE <<>>

\* shutdown.
\* Faulty variant: the change is published inside the admission section.
shutdown_notifies_locked == Lock("S") \o User("capacity") \o Unlock("S")
                            \o notify_if_terminated

shutdown == Section("S") \o User("capacity") \o notify_if_terminated

\* stop: the byte and the snapshot under S, the map taken under A, the entries swept
\* outside, each blocking entry through its hook and its slot.
stop ==
    Lock("S") \o (IF kind = "blocking" THEN Section("M") ELSE <<>>) \o Unlock("S")
    \o Section("A") \o (IF kind = "blocking" THEN finish_task \o User("result") ELSE <<>>)
    \o User("capacity") \o notify_if_terminated

\* An accepted submission: admission, spawn and registration under S.  The user's task is
\* not in the spawned wrapper, so a closed runtime drops none of it here.
\* Faulty variant: the wrapper owns the task and a closed runtime drops it on the spot.
try_submit_undivided ==
    Lock("S") \o (IF kind = "blocking" THEN Section("M") ELSE <<>>)
    \o User("user") \o Section("A") \o Unlock("S")

try_submit ==
    Lock("S") \o (IF kind = "blocking" THEN Section("M") ELSE <<>>)
    \o Section("A") \o Unlock("S")

\* A rejected one; submit and spawn drop the task that try_submit hands back.
submit_rejected ==
    Lock("S") \o (IF kind = "blocking" THEN Section("M") ELSE <<>>) \o Unlock("S")
    \o User("user")

\* Delivery fails: the caller drops the user's task and its guard.
submit_undelivered == try_submit \o User("user") \o guard_drop(DroppedSlot)

\* The handle's cancel; an IO handle only signals Tokio.
cancel == IF kind = "blocking"
          THEN User("result") \o remove_abort_handle(<<>>) \o finish_task
          ELSE <<>>

\* A worker runs the task, publishes its result and drops the guard.
worker_finish == User("user") \o
                 (IF kind = "blocking" THEN User("result") \o guard_drop(<<>>)
                  ELSE guard_drop(<<>>) \o User("result"))

\* Tokio discards a task it has not started.
worker_discard == User("user") \o guard_drop(DroppedSlot)

\* What users may call, and what Tokio's threads do.
Calls == {shutdown, stop, try_submit, submit_rejected, submit_undelivered, cancel}
Operations == Calls \cup {worker_finish, worker_discard}

-----------------------------------------------------------------------------
Init == /\ kind \in {"blocking", "io"}
        /\ code = [th \in Threads |-> <<>>]
        /\ owner = [l \in Locks |-> "none"]
        /\ reentries = 0

Idle(th) == code[th] = <<>>
At(th, do) == ~Idle(th) /\ Head(code[th]).do = do
Arg(th) == Head(code[th]).arg
Advance(th, callback) == code' = [code EXCEPT ![th] = callback \o Tail(@)]

Begin(th) == /\ Idle(th)
             /\ \E op \in Operations : code' = [code EXCEPT ![th] = op]
             /\ UNCHANGED <<kind, owner, reentries>>

Acquire(th) == /\ At(th, "lock") /\ owner[Arg(th)] = "none"
               /\ owner' = [owner EXCEPT ![Arg(th)] = th]
               /\ Advance(th, <<>>)
               /\ UNCHANGED <<kind, reentries>>

Release(th) == /\ At(th, "unlock")
               /\ owner' = [owner EXCEPT ![Arg(th)] = "none"]
               /\ Advance(th, <<>>)
               /\ UNCHANGED <<kind, reentries>>

\* User code that returns at once, or that makes one call of the service.
Return(th) == /\ At(th, "user")
              /\ Advance(th, <<>>)
              /\ UNCHANGED <<kind, owner, reentries>>

Reenter(th) == /\ At(th, "user") /\ Arg(th) \in Reentrant
               /\ reentries < MaxReentries
               /\ \E op \in Calls : Advance(th, op)
               /\ reentries' = reentries + 1
               /\ UNCHANGED <<kind, owner>>

Thread(th) == Acquire(th) \/ Release(th) \/ Return(th) \/ Reenter(th)
Next == \E th \in Threads : Begin(th) \/ Thread(th)
Spec == Init /\ [][Next]_vars

\* Threads inside an operation are scheduled, and locks are handed over eventually
\* (parking_lot), even to a thread that finds them taken again and again.
Fairness == \A th \in Threads : /\ WF_vars(Release(th)) /\ WF_vars(Return(th))
                                /\ SF_vars(Acquire(th))
FairSpec == Spec /\ Fairness

-----------------------------------------------------------------------------
(* Properties.                                                             *)

\* No thread waits for a lock that it holds itself: whatever a waker or a destructor of
\* the kinds in Reentrant calls, at whatever depth, the operation that triggered it holds
\* none of the locks that the call takes.  This fails for "dropped", the only user code
\* that runs under abort_handles (remove_abort_handle); the run leaves it out.
NoSelfDeadlock == \A th \in Threads : At(th, "lock") => owner[Arg(th)] # th

\* Every operation returns: no chain of callbacks of the kinds in Reentrant, again
\* without "dropped", and no order of locks over several threads blocks it for ever.
OperationsReturn == \A th \in Threads : ~Idle(th) ~> Idle(th)
=============================================================================
