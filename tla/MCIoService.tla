----------------------------- MODULE MCIoService -----------------------------
\* Symmetry for the TLC runs of IoService.
EXTENDS IoServiceInvariant, TLC

Symmetry == Permutations(Tasks) \cup Permutations(Stoppers) \cup Permutations(Shutters)
=============================================================================
