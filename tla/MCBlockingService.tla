-------------------------- MODULE MCBlockingService --------------------------
\* Model values and symmetry for the TLC runs of BlockingService.
EXTENDS BlockingServiceInvariant, BlockingRefinement, TLC

\* Tasks of one kind, and closers of one kind, are interchangeable.
Symmetry == Permutations(Runnables) \cup Permutations(Callables)
            \cup Permutations(TrackedCallables)
            \cup Permutations(Stoppers) \cup Permutations(Shutters)
=============================================================================
