\* One callable that runs to completion.
SPECIFICATION Spec
CONSTANTS
    Runnables = {}
    Callables = {c1}
    TrackedCallables = {}
    Capacity = 1
    Stoppers = {}
    Shutters = {d1}
    RuntimeMayClose = FALSE
INVARIANT ResultImpliesReleased
