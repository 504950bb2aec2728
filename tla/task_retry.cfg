SPECIFICATION MCTaskFairSpec
CONSTANTS
  board = board
  finance = finance
  s1 = s1
  s2 = s2
  r1 = r1
  r2 = r2
  NoRound = NoRound
  NoOne = NoOne
  NoArtifact = NoArtifact
  Actions <- MCActions
  Policy <- MCPolicy
  Bounds <- MCBounds
  Intents <- MCIntents
  Principals = {board}
  Sessions = {s1}
  Replicas = {r1}
  Home <- OneHome
  Durable = TRUE
  Challenges = {c1, c2}
  MaxAutos = 1
  MaxExpired = 0
  MayCrash = TRUE
  Steps <- MCSteps
  Order <- ShortOrder
  Needs <- ShortNeeds
  Kind <- ShortKind
  GatePolicy <- PublishGate
  Artifacts = {a1}
  Handled = {"web", "bank"}
  Engine = "dbos"
  MaxCrashes = 0
PROPERTIES
  RetryableRetried
