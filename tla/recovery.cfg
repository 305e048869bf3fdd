CONSTANTS
  P = P
  E = E
  a = a
  b = b
  r1 = r1
  r2 = r2
  None = None
  Pools = {P}
  Resources = {a, b}
  Stock <- OneEach
  Procs = {r1}
  MaxId = 2
  Subs <- AgainSubs
  Requests <- AgainRequests
  RunPools = {P}
  Mortal = {}
  Cancels = {}
  Removals = {}
  Additions <- AddOther
  HandCleaned = {P}
  Unlucky = {r1}
  MaxReboots = 1
SPECIFICATION AdminFairSpec
INVARIANT AdminInductive
CHECK_DEADLOCK FALSE
PROPERTY RecordedRecovered
