\* Two tasks, two racing stops and a shutdown, cancel and a runtime that may close.
SPECIFICATION Spec
CONSTANTS
    Tasks = {t1, t2}
    Capacity = 2
    Stoppers = {s1, s2}
    Shutters = {d1}
    Waiters = {}
    RuntimeMayClose = TRUE
SYMMETRY Symmetry
INVARIANTS
    AbortEntriesLive
    TerminatedDestroysFutures
    ResultImpliesReleased
    StopReachesEveryTask
