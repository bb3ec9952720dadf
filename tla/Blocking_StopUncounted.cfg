\* One tracked task and one stop on an open runtime.
SPECIFICATION Spec
CONSTANTS
    Runnables = {}
    Callables = {}
    TrackedCallables = {t1}
    Capacity = 1
    Stoppers = {s1}
    Shutters = {}
    RuntimeMayClose = FALSE
INVARIANT StopCountsEveryCancelledTask
