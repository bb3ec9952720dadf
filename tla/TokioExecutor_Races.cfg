\* Three callables, fewer blocking threads than callables, the runtime may close.
SPECIFICATION Spec
CONSTANTS
    Tasks = {t1, t2, t3}
    PoolThreads = 2
PROPERTIES
    OutcomeIsFinal
    HandleResolves
