--------------------------- MODULE MCSessionRepair ---------------------------
\* Symmetry of the call identities for checking SessionRepair.
EXTENDS SessionRepair, TLC

CallSymmetry == Permutations(CallIds)
=============================================================================
