\* A runnable and a callable contend for one unit while two stops and a shutdown race and
\* the runtime may close.
SPECIFICATION Spec
CONSTANTS
    Runnables = {r1}
    Callables = {c1}
    TrackedCallables = {}
    Capacity = 1
    Stoppers = {s1, s2}
    Shutters = {d1}
    RuntimeMayClose = TRUE
SYMMETRY Symmetry
INVARIANTS
    IndInv
    CapacityBound
    StopReportSound
    TerminationIsSignalled
PROPERTIES
    TerminatedStable
    ImplementsExecutorService
