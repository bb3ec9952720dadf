------------------------ MODULE MCBlockingTermination ------------------------
\* Model values and symmetry for the TLC runs of BlockingTermination.
EXTENDS BlockingTermination, TLC

Symmetry == Permutations(Runnables) \cup Permutations(Shutters)
            \cup Permutations(Stoppers) \cup Permutations(Waiters)
=============================================================================
