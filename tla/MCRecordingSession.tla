------------------------- MODULE MCRecordingSession -------------------------
EXTENDS RecordingRefinement, TLC
Symmetry == Permutations(Sessions) \cup Permutations(Monitors)
=============================================================================
