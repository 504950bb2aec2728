SPECIFICATION CompSpec
CONSTANTS
  tool = tool
  other = other
  agent = agent
  ghost = ghost
  board = board
  plain = plain
  mandate = mandate
  invented = invented
  x = x
  y = y
  NoLabel = NoLabel
  Raised = Raised
  Unset = Unset
  Human = {board}
  Reserved = {mandate, invented}
  Locked = {mandate}
  Outcomes <- MCOutcomes
  Drafts <- MCDrafts
INVARIANTS
  CompTypeOK
  OrderSound
  CycleRefusalJust
  VerifyEarned
  AggregateStable
  AuthorityClosed
CHECK_DEADLOCK FALSE
