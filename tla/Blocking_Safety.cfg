\* Two tracked tasks against stop and cancel; both can be in the service at once.
SPECIFICATION Spec
CONSTANTS
    Runnables = {}
    Callables = {}
    TrackedCallables = {t1, t2}
    Capacity = 2
    Stoppers = {s1}
    Shutters = {}
    RuntimeMayClose = FALSE
SYMMETRY Symmetry
INVARIANTS
    CountsExact
    AbortEntriesLive
    TerminatedIsQuiescent
    CancelledNeverRuns
    CountedResultIsCancelled
PROPERTIES
    NoStartAfterStop
