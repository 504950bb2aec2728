SPECIFICATION CredSpec
CONSTANTS
  k1 = k1
  k2 = k2
  d1 = d1
  copy = copy
  d2 = d2
  s1 = s1
  s2 = s2
  r1 = r1
  r2 = r2
  Companies = {acme, beta}
  Principals = {board, finance}
  Keys = {k1, k2}
  Devices = {d1, copy, d2}
  KeyOf <- MCKeyOf
  Counting = {d1, copy}
  Processes = {r1, r2}
  Sessions = {s1, s2}
  Home <- TwoHomes
  Durable = TRUE
  Challenges = {c1, c2}
  MaxCount = 2
  None = None
INVARIANTS
  CredTypeOK
  EnrolledByCeremony
PROPERTIES
  CountsRise
CHECK_DEADLOCK FALSE
