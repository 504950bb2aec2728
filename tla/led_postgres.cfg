SPECIFICATION LedgerSpec
CONSTANTS
  w1 = w1
  w2 = w2
  p1 = p1
  p2 = p2
  Companies = {"acme", "zeta"}
  Bodies = {"started", "succeeded"}
  Writers = {w1, w2}
  Processes = {p1, p2}
  Home <- TwoProcesses
  Backend = "postgres"
  Damages = {"tail", "gap", "rewrite", "reseal", "forge", "swap"}
  MaxEvents = 3
INVARIANTS
  LedgerTypeOK
  ChainIntact
  DamageSeen
