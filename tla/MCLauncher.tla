----------------------------- MODULE MCLauncher -----------------------------
EXTENDS Launcher, TLC
Symmetry == Permutations(Run)
=============================================================================
