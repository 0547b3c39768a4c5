------------------------ MODULE MCActivityStandalone ------------------------
EXTENDS ActivityStandalone, TLC

Symmetry == Permutations(Tasks)
=============================================================================
