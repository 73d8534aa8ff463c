--------------------------- MODULE MCCommandApi ---------------------------
EXTENDS CommandApi, TLC

Symmetry == Permutations(Launch) \cup Permutations(Call)
=============================================================================
