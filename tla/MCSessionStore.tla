---------------------------- MODULE MCSessionStore ----------------------------
EXTENDS SessionStore, TLC

Symmetry == Permutations(Savers)
=============================================================================
