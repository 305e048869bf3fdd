CONSTANTS
  P = P
  E = E
  a = a
  b = b
  r1 = r1
  r2 = r2
  None = None
  Pools = {P, E}
  Resources = {a, b}
  Stock <- OneEach
  Procs = {r1, r2}
  MaxId = 1
  Subs <- ExtraSubs
  Requests <- ExtraRequests
  RunPools = {P, E}
  Mortal = {}
  Cancels = {}
  Removals = {}
SPECIFICATION Spec
PROPERTY SkippedStaysQueued
CHECK_DEADLOCK FALSE
