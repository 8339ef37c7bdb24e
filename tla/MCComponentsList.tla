-------------------------- MODULE MCComponentsList --------------------------
EXTENDS ComponentsList, TLC
CONSTANTS a, b, e1, e2
Processes == Permutations(Editors)
=============================================================================
