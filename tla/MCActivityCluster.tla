------------------------- MODULE MCActivityCluster -------------------------
EXTENDS ActivityCluster, TLC

Symmetry == Permutations(Users) \cup Permutations(Tasks)
=============================================================================
