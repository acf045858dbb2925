---------------------------- MODULE MCReporting -----------------------------
EXTENDS Reporting, TLC

Symmetry ==
  Permutations(Commit) \cup Permutations(Indexer) \cup Permutations(Request) \cup Permutations(Key)
=============================================================================
