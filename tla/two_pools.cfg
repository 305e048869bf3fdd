CONSTANTS
  P = P
  E = E
  a = a
  b = b
  r1 = r1
  r2 = r2
  None = None
  Pools = {P, E}
  Resources = {a, b}
  Stock <- TwoInE
  Procs = {r1, r2}
  MaxId = 1
  Subs <- PoolSubs
  Requests <- PoolRequests
  RunPools = {P, E}
  Mortal = {r1}
  Cancels = {}
  Removals = {}
SPECIFICATION Spec
INVARIANT Inductive
PROPERTY ImplementsService
CHECK_DEADLOCK FALSE
