\* Two futures are retried for one unit under a shutdown, a waiter and a closing runtime.
SPECIFICATION RetryFairSpec
CONSTANTS
    Tasks = {t1, t2}
    Capacity = 1
    Stoppers = {}
    Shutters = {d1}
    Waiters = {w1}
    RuntimeMayClose = TRUE
INVARIANTS
    ActiveExact
    WaitersSeeTermination
    NoMissedChange
PROPERTIES
    WaitersReturn
    RetryConcludes
    ImplementsExecutorService
