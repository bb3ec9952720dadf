---------------------- MODULE BlockingServiceInvariant ----------------------
(***************************************************************************)
(* The inductive invariant of the blocking service: what the positions of  *)
(* the threads of one task say about each other.                           *)
(***************************************************************************)
EXTENDS BlockingService

\* The positions of a submitter before acceptance and after registration.
Outside    == {"idle", "saturated", "shutdown"}
Registered == {"registered", "undelivered", "returned"}

\* Before its acceptance a task owns nothing, and until it is spawned only its guard.
AcceptanceShape(t) ==
    /\ task_state[t] = "NONE" <=> submitter[t] \in Outside
    /\ task_state[t] = "NONE" => guard[t] = "none" /\ blocking[t] = "none"
    /\ submitter[t] = "admitted" => /\ guard[t] = "held" /\ blocking[t] = "none"
                                    /\ t \notin called
    /\ channel[t] = "closed" => blocking[t] = "finished"

\* Exactly the thread that made task_state FINISHED runs finish_task, the worker is in
\* the closure only while task_state is RUNNING, and the guard is dropped after it.
TrackerShape(t) ==
    /\ releasing[t] # "none" <=> task_state[t] = "FINISHED"
    /\ guard[t] \notin {"none", "held"} =>
          blocking[t] \in {"skip", "unwind", "discard", "finished"}
    /\ blocking[t] \in {"count", "take", "call"} => task_state[t] = "RUNNING"

\* Every thread takes the entry out of abort_handles before it may finish the task,
\* and an entry cannot come back.
EntryShape(t) ==
    /\ guard[t] \in {"removed", "finishing", "gone"} => t \in marker /\ t \notin abort_handles
    /\ task_state[t] = "FINISHED" => t \in marker \/ submitter[t] \in Registered
    /\ t \in abort_handles => /\ submitter[t] \in Registered
                              /\ task_state[t] \in {"QUEUED", "RUNNING"}
    /\ \A s \in Stoppers : t \in handles[s] => /\ submitter[t] \in Registered
                                               /\ t \notin abort_handles
    /\ canceller[t] # "idle" => submitter[t] = "returned"
    /\ canceller[t] \notin {"idle", "won"} => t \notin abort_handles

\* User code is entered only on the RUNNING side of the tracker, a stop counts a task
\* only on the side that went from QUEUED to FINISHED.
OutcomeShape(t) ==
    /\ t \in called => /\ task_state[t] \in {"RUNNING", "FINISHED"}
                       /\ status[t] \in {"none", "running", "completed"}
    /\ ~HasSlot(t) => status[t] = "none"
    /\ hook[t] = "finishing" => task_state[t] = "FINISHED" /\ t \notin called
    /\ \A s \in Stoppers : t \in cancelled[s] => task_state[t] = "FINISHED" /\ t \notin called

TaskShape(t) == /\ AcceptanceShape(t) /\ TrackerShape(t)
                /\ EntryShape(t) /\ OutcomeShape(t)

\* The inductive invariant: the shape of every task, exact counts, bounded capacity.
IndInv == /\ TypeOK
          /\ \A t \in Tasks : TaskShape(t)
          /\ CountsExact
          /\ CapacityBound

-----------------------------------------------------------------------------
(* A second invariant, on top of IndInv: what a stop may rely on.          *)

\* submission_lock serialises admission: one submitter at a time, and only while Running.
InAdmission == {"admitted", "spawned"}
AdmissionShape ==
    \A t \in Tasks : submitter[t] \in InAdmission =>
        /\ submission_lock /\ ~is_not_running(lifecycle)
        /\ \A u \in Tasks : submitter[u] \in InAdmission => u = t

\* Once a closer has stored its bits the service is closed, and once a stop has taken
\* the map no entry is added any more.
CloserShape ==
    /\ \A c \in Closers : closer[c] # "idle" => is_not_running(lifecycle)
    /\ \A s \in Stoppers :
          /\ closer[s] # "capacity"
          /\ closer[s] \in {"sweep", "check", "waiters", "done"} => abort_handles = {}
          /\ closer[s] # "sweep" => handles[s] = {}
          /\ closer[s] \in {"idle", "stored"} => cancelled[s] = {}

\* A task has a slot only once it is spawned, and a result that was told to the handle is
\* never written over.
ResultShape(t) ==
    /\ submitter[t] \in Outside \cup {"admitted"} => status[t] = "none" /\ slot_refs[t] = {}
    /\ HasSlot(t) /\ blocking[t] = "call" => status[t] = "running"
    /\ canceller[t] # "idle" => status[t] = "cancelled"
    /\ \A s \in Stoppers : HasSlot(t) /\ t \in cancelled[s] => status[t] = "cancelled"

\* The stop hook owns the slot for as long as its entry exists.
HookShape(t) ==
    HasSlot(t) =>
        /\ submitter[t] = "spawned" \/ t \in abort_handles => "hook" \in slot_refs[t]
        /\ \A s \in Stoppers : t \in handles[s] => "hook" \in slot_refs[t]

\* While the hook owns it and the task has not started, the slot is in its cell and its
\* result is to come, or was cancelled by the handle.
CellShape(t) ==
    (/\ HasSlot(t)
     /\ hook[t] = "finishing" \/ (task_state[t] = "QUEUED" /\ "hook" \in slot_refs[t]))
    => cell[t] = "full" /\ status[t] \in {"pending", "cancelled"}

SlotShape(t) == ResultShape(t) /\ HookShape(t) /\ CellShape(t)

\* An entry is in the hands of at most one stop, and counted by at most one.
OneSweeper(t) ==
    /\ hook[t] # "idle" => \E s \in Stoppers : t \in handles[s]
    /\ \A s, r \in Stoppers : s # r => /\ ~(t \in handles[s] /\ t \in handles[r])
                                      /\ ~(t \in cancelled[s] /\ t \in cancelled[r])
    /\ \A s, r \in Stoppers : ~(t \in cancelled[s] /\ t \in handles[r])

\* A task that can still start can be found by the next stop, is being swept, or was
\* cancelled by its handle.
Findable(t) ==
    /\ t \in marker => \/ guard[t] \in {"removed", "finishing", "gone"}
                       \/ canceller[t] \notin {"idle", "won"}
    /\ (/\ submitter[t] \in Registered /\ task_state[t] = "QUEUED"
        /\ blocking[t] \in {"queued", "recv", "mark"})
       => \/ t \in abort_handles \/ status[t] = "cancelled"
          \/ \E s \in Stoppers : t \in handles[s]

SweepShape(t) == OneSweeper(t) /\ Findable(t)

\* The tasks a stop has counted or may still count; it only shrinks after the snapshot,
\* because the service is closed.
Countable(s) == cancelled[s] \cup {t \in handles[s] : hook[t] = "finishing"}
                             \cup {t \in Tasks : task_state[t] = "QUEUED"}
ReportShape ==
    \A s \in Stoppers : closer[s] \notin {"idle", "stored"} =>
        Cardinality(Countable(s)) <= snapshot[s].queued

\* Whoever is about to notify the waiters has seen termination, which lasts.
SignalShape ==
    /\ \A t \in Tasks : releasing[t] \in {"capacity_last", "waiters"} => is_terminated
    /\ \A c \in Closers : closer[c] = "waiters" => is_terminated
    /\ TerminationIsSignalled

\* The payload goes from the submitter through the channel to the worker, and the closure
\* in it is entered by the worker, once.
HandoffShape(t) ==
    /\ submitter[t] \in {"spawned", "registered"} =>
          guard[t] = "held" /\ channel[t] \in {"open", "closed"}
    /\ blocking[t] \in {"mark", "count", "take", "call"} => channel[t] = "received"
    /\ blocking[t] \in {"none", "queued", "recv", "mark", "count", "take"} => t \notin called
    /\ blocking[t] = "call" => t \in called

StopInv == /\ AdmissionShape /\ CloserShape
           /\ \A t \in Tasks : SlotShape(t) /\ SweepShape(t) /\ HandoffShape(t)
           /\ ReportShape /\ SignalShape
=============================================================================
