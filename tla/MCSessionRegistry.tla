------------------------- MODULE MCSessionRegistry --------------------------
EXTENDS SessionRegistry, TLC

FdSymmetry == Permutations(Fds)
==============================================================================
