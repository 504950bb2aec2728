SPECIFICATION MCTaskSpec
CONSTANTS
  board = board
  finance = finance
  s1 = s1
  s2 = s2
  r1 = r1
  r2 = r2
  NoRound = NoRound
  NoOne = NoOne
  NoArtifact = NoArtifact
  Actions <- MCActions
  Policy <- MCPolicy
  Bounds <- MCBounds
  Intents <- MCIntents
  Principals = {board, finance}
  Sessions = {s1}
  Replicas = {r1}
  Home <- OneHome
  Durable = TRUE
  Challenges = {c1, c2}
  MaxAutos = 1
  MaxExpired = 1
  MayCrash = TRUE
  Steps <- MCSteps
  Order <- LongOrder
  Needs <- LongNeeds
  Kind <- LongKind
  GatePolicy <- TwoGates
  Artifacts = {a1}
  Handled = {"web"}
  Engine = "dbos"
  MaxCrashes = 0
INVARIANTS
  GateMeansEffect
PROPERTIES
  AgentsInOrder
