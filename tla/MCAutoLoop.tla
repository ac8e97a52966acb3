----------------------------- MODULE MCAutoLoop -----------------------------
EXTENDS AutoLoop, TLC

\* Sound for the runs that check safety and nothing else.
LoopSymmetry == Permutations(Loops) \cup Permutations(Runs) \cup Permutations(Timers)
Symmetry     == LoopSymmetry \cup Permutations(Features)
=============================================================================
