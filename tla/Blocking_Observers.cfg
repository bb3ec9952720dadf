\* A synchronous waiter and an observer of stats against cancel, stop and a closing runtime.
SPECIFICATION TerminationSpec
CONSTANTS
    Runnables = {}
    Callables = {}
    TrackedCallables = {t1}
    Capacity = 1
    Stoppers = {s1}
    Shutters = {}
    RuntimeMayClose = TRUE
    Waiters = {w1}
    TimedWaiters = {}
    AsyncWaiters = {}
    Observers = {o1}
    Hours = 0
INVARIANTS
    NoEarlyReturn
    NoLostWakeup
