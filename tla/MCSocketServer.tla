--------------------------- MODULE MCSocketServer ---------------------------
EXTENDS SocketServer, TLC

ConnSymmetry == Permutations(Conns)
=============================================================================
