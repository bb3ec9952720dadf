------------------------- MODULE IoServiceInvariant -------------------------
(***************************************************************************)
(* The inductive invariant of the IO service: what the positions of the    *)
(* threads that handle one task say about each other, and what a stop may  *)
(* rely on because it shares submission_lock with the submitters.          *)
(***************************************************************************)
EXTENDS IoService, Integers

StateTypeOK ==
    /\ lifecycle \in {Running, ShuttingDown, Stopping}
    /\ submission_lock \in BOOLEAN
    /\ active_tasks \in Int /\ capacity_tx \in Nat /\ termination_notify \in Nat
    /\ abort_handles \subseteq Tasks /\ marker \subseteq Tasks

TaskTypeOK ==
    /\ task \in [Tasks -> {"none", "waiting", "polling", "suspended", "ending", "finished"}]
    /\ channel \in [Tasks -> {"none", "open", "sent", "received", "closed"}]
    /\ outcome \in [Tasks -> {"none", "completed", "panicked", "cancelled"}]
    /\ aborted \subseteq Tasks /\ rt_closed \in BOOLEAN
    /\ future \in [Tasks -> {"none", "caller", "channel", "task", "gone", "discarded"}]
    /\ guard \in [Tasks -> {"none", "held", "dropping", "removed", "released", "notified",
                            "gone"}]

CallerTypeOK ==
    /\ submitter \in [Tasks -> {"idle", "saturated", "shutdown", "checked", "admitted",
                                "spawned", "registered", "undelivered", "returned"}]
    /\ closer \in [Closers -> {"idle", "stored", "snapshotted", "sweep", "capacity",
                               "waiters", "done"}]
    /\ handles \in [Stoppers -> SUBSET Tasks]
    /\ cancelled \in [Stoppers -> SUBSET Tasks]
    /\ snapshot \in [Stoppers -> Int]
    /\ waiter \in [Waiters -> {"idle", "load", "read", "await", "done"}]
    /\ seen \in [Waiters -> Nat]

\* Every variable stays in its domain; that active_tasks is never negative follows
\* from ActiveExact.
TypeOK == StateTypeOK /\ TaskTypeOK /\ CallerTypeOK

\* The positions of a submitter without a unit, with one under submission_lock, and
\* after registration.
Outside     == {"idle", "saturated", "shutdown", "checked"}
InAdmission == {"admitted", "spawned"}
Registered  == {"registered", "undelivered", "returned"}

\* The task may still be polled.
Live(t) == task[t] \in {"waiting", "polling", "suspended"}

\* The payload is one unit of ownership: accepted with its guard, and destroyed before
\* the guard's drop begins.
PayloadShape(t) ==
    /\ guard[t] = "none" <=> submitter[t] \in Outside
    /\ guard[t] = "none" => future[t] = "none"
    /\ guard[t] \notin {"none", "held"} => future[t] \in {"gone", "discarded"}
    /\ Live(t) => guard[t] = "held"
    /\ submitter[t] \in InAdmission \cup {"registered"} =>
          guard[t] = "held" /\ future[t] = "caller"
    /\ channel[t] = "sent" => future[t] = "channel"
    /\ task[t] \in {"polling", "suspended"} => future[t] = "task"

\* Who holds the payload follows from the positions of the submitter, of the channel
\* and of the task: a closed channel leaves it with the submitter, a received one with
\* the task, which therefore finishes only after the guard.
HandoffShape(t) ==
    /\ submitter[t] \in Outside \cup {"admitted"} => task[t] = "none" /\ channel[t] = "none"
    /\ channel[t] = "open" => /\ submitter[t] \in {"spawned", "registered"}
                              /\ task[t] = "waiting"
    /\ channel[t] = "closed" => task[t] \in {"ending", "finished"}
    /\ submitter[t] = "undelivered" => channel[t] = "closed"
    /\ submitter[t] = "returned" /\ channel[t] = "closed" => guard[t] = "gone"
    /\ task[t] = "waiting" => channel[t] \in {"open", "sent"}
    /\ task[t] \in {"polling", "suspended"} => channel[t] = "received"
    /\ task[t] = "finished" => channel[t] = "closed" \/ guard[t] = "gone"

\* An entry is in the map only between registration and the first step of the guard,
\* and as long as the task is live it, its removal by a stop, or its abort can be found.
EntryShape(t) ==
    /\ t \in abort_handles => guard[t] \in {"held", "dropping"} /\ submitter[t] \in Registered
    /\ t \in marker => guard[t] \notin {"none", "held", "dropping"}
    /\ submitter[t] \in Registered /\ Live(t) =>
          \/ t \in abort_handles \/ t \in aborted
          \/ \E s \in Stoppers : t \in handles[s]

TaskShape(t) == PayloadShape(t) /\ HandoffShape(t) /\ EntryShape(t)

\* submission_lock serialises admission: one submitter at a time between the test and
\* registration, and only while Running.  So the unit that was seen free stays free until
\* it is taken: meanwhile others can only return theirs.
AdmissionShape ==
    \A t \in Tasks : submitter[t] \in {"checked"} \cup InAdmission =>
        /\ submission_lock /\ ~is_not_running(lifecycle)
        /\ \A u \in Tasks : submitter[u] \in {"checked"} \cup InAdmission => u = t
        /\ submitter[t] = "checked" => HasCapacity

\* Once a closer has stored its bits the service is closed, and once a stop has taken
\* the map no entry is added any more.
CloserShape ==
    /\ \A c \in Closers : closer[c] # "idle" => is_not_running(lifecycle)
    /\ \A s \in Stoppers :
          /\ closer[s] # "capacity"
          /\ closer[s] \in {"sweep", "waiters", "done"} => abort_handles = {}
          /\ closer[s] # "sweep" => handles[s] = {}

\* lifecycle() loads the byte before the counter.
WaiterShape ==
    \A w \in Waiters : /\ waiter[w] = "read" => is_not_running(lifecycle)
                       /\ waiter[w] = "done" => is_terminated

\* The inductive invariant.
IndInv == /\ TypeOK
          /\ \A t \in Tasks : TaskShape(t)
          /\ AdmissionShape /\ CloserShape /\ WaiterShape
          /\ ActiveExact
=============================================================================
