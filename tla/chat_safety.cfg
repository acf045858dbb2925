\* One question while an indexer replaces the points of two commits in two batches.
CONSTANTS
  Commit = {c1, c2}
  Indexer = {i1}
  Asker = {a1}
  Size = 2
  BatchSize = 1
  MaxChanges = 3
SYMMETRY Symmetry
SPECIFICATION SpecChat
INVARIANTS
  IndexIsExact
  EvidenceIsOfScope
  ReplyIsConfirmed
\* Access may be gone when the changes run out.
CHECK_DEADLOCK FALSE
