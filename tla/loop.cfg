SPECIFICATION LoopFairSpec
CONSTANTS
  Workers = {w1, w2}
  MaxIterations = 1
  MaxMoves = 1
  MaxCrashes = 1
  NoCommit = NoCommit
INVARIANTS
  LoopTypeOK
  OkEarned
  EvidenceOwn
PROPERTIES
  BoundedLoop
  FinishedIsFinal
  RefusedForCause
  LoopFinishes

