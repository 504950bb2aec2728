SPECIFICATION MCSpec
CONSTANTS
  board = board
  finance = finance
  other = other
  s1 = s1
  s2 = s2
  r1 = r1
  r2 = r2
  NoRound = NoRound
  NoOne = NoOne
  Actions <- MCActions
  Policy <- MCPolicy
  Bounds <- MCBounds
  Intents <- AllIntents
  Principals <- MCPrincipals
  Sessions = {s1}
  Replicas = {r1}
  Home <- OneHome
  Durable = FALSE
  Challenges = {c1, c2, c3}
  MaxAutos = 2
  MaxExpired = 2
  MayCrash = FALSE
SYMMETRY People
INVARIANTS
  TypeOK
  AuthorizedOnce
  SignedThisRound
  RetiredForCause
  NoApprovalWithoutPolicy
  BoundedAuto
