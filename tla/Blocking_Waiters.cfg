\* One waiter of each kind, the timed one over two slices, against a task and a shutdown.
SPECIFICATION TerminationFairSpec
CONSTANTS
    Runnables = {r1}
    Callables = {}
    TrackedCallables = {}
    Capacity = 1
    Stoppers = {}
    Shutters = {d1}
    RuntimeMayClose = FALSE
    Waiters = {w1}
    TimedWaiters = {x1}
    AsyncWaiters = {a1}
    Observers = {}
    Hours = 2
INVARIANTS
    NoFalseAfterTermination
PROPERTIES
    WaitersReturn
    TimedWaitsReturn
    AcceptedTasksRun
