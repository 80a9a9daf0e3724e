-------------------------------- MODULE MCEnt --------------------------------
EXTENDS EntBuilders, TLC

\* The chains are alike.
ChainSymmetry == Permutations(Builders)
==============================================================================
