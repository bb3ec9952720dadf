\* A runnable and a callable are retried for one unit under a stop; closures may run for ever.
SPECIFICATION RetryFairSpec
CONSTANTS
    Runnables = {r1}
    Callables = {c1}
    TrackedCallables = {}
    Capacity = 1
    Stoppers = {s1}
    Shutters = {}
    RuntimeMayClose = FALSE
INVARIANTS
    NoMissedChange
    RejectedLeavesNoTrace
PROPERTIES
    RetryConcludes
    ClosingReachesProducers
