---------------------------- MODULE MCLedSocket ----------------------------
EXTENDS LedSocket, TLC

\* Connections may be renamed among themselves.
MCAny == Permutations(Conns)
=============================================================================
