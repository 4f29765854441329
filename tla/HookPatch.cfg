CONSTANTS
  Prologues <- AllPrologues
  MaxTries = 2
  MaxHits = 2

SPECIFICATION PatchSpec

INVARIANTS
  PrologueRunsOnce
  NoOrphanBlock
  MarkerIsEvidence
  RealizedIsTrue
