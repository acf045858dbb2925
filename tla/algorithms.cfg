SPECIFICATION SpecEach
CONSTANTS
  Segment <- AllSegments
  Sources <- SourcesOfFiles
  LinesPerChunk = 3
  OverlapLines = 1
  MaxChars = 3
  MaxHits = 2
  PassageLines = 2
  MaxClaims = 2
  Path <- Paths
  Name <- Names
  Unqualified <- LastOf
  ModuleOf <- Modules
  UpToDot <- Cuts
  Outside = "outside"
  Nobody = "none"
  Projects <- Repositories
  Digraphs <- AllDigraphs
  SourceFile <- FilesOfStyles
  RoleOf <- RolesOfFiles
  UnitOf <- UnitsOf
  Graphs <- Dependences
  EntrySets <- EntryFiles
  Finding <- Findings
  Evidence <- Evidences
  Outcomes <- RoleOutcomes
  MaxResults = 2
INVARIANTS
  NothingLeftOut
  CitationIsTrue
  SelectionIsAccepted
  CyclesAreComponents
  ExportsAreReached
  ResolvedIsEvidenced
  ResultIsAccepted
  MergeKeepsAll
  MissingIsNoEvidence
CHECK_DEADLOCK FALSE
