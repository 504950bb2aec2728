SPECIFICATION MCSpec
CONSTANTS
  board = board
  finance = finance
  other = other
  s1 = s1
  s2 = s2
  r1 = r1
  r2 = r2
  NoRound = NoRound
  NoOne = NoOne
  Actions <- MCActions
  Policy <- MCPolicy
  Bounds <- MCBounds
  Intents <- SpendOnly
  Principals <- Approvers
  Sessions = {s1, s2}
  Replicas = {r1, r2}
  Home <- TwoHomes
  Durable = TRUE
  Challenges = {c1, c2}
  MaxAutos = 2
  MaxExpired = 3
  MayCrash = TRUE
SYMMETRY ReplicaSymmetry
INVARIANTS
  GrantedByQuorum
  SpentIsClosed
