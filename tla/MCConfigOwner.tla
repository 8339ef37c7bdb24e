--------------------------- MODULE MCConfigOwner ----------------------------
EXTENDS ConfigOwner, TLC
CONSTANTS c1, c2
AllPrograms == DOMAIN Programs
ServerOnly == {"server"}
Consoles == Permutations(Instances)
=============================================================================
