\* The owner of a handle and an endpoint race the worker, a stop and a closing runtime.
SPECIFICATION HandleFairSpec
CONSTANTS
    Runnables = {}
    Callables = {}
    TrackedCallables = {t1}
    Capacity = 1
    Stoppers = {s1}
    Shutters = {}
    RuntimeMayClose = TRUE
    Endpoints = {e1}
INVARIANTS
    ResultIsFinal
    CancelHasOneWinner
PROPERTIES
    WaitingResolves
    DropDoesNotCancel
