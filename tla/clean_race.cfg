CONSTANTS
  P = P
  E = E
  a = a
  b = b
  r1 = r1
  r2 = r2
  None = None
  Pools = {P}
  Resources = {a, b}
  Stock <- OneEach
  Procs = {r1, r2}
  MaxId = 2
  Subs <- AloneSubs
  Requests <- AloneRequests
  RunPools = {P}
  Mortal = {}
  Cancels = {}
  Removals = {}
  Additions = {}
  HandCleaned = {}
  Unlucky = {}
  MaxReboots = 1
SPECIFICATION AdminSpec
INVARIANT CleansStale
CHECK_DEADLOCK FALSE
