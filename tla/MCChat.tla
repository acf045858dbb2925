------------------------------- MODULE MCChat -------------------------------
EXTENDS Chat, TLC

Symmetry == Permutations(Commit) \cup Permutations(Indexer) \cup Permutations(Asker)
=============================================================================
