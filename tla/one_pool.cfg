CONSTANTS
  P = P
  E = E
  a = a
  b = b
  r1 = r1
  r2 = r2
  None = None
  Pools = {P}
  Resources = {a, b}
  Stock <- TwoInP
  Procs = {r1, r2}
  MaxId = 2
  Subs <- LowHigh
  Requests <- LowHighRequests
  RunPools = {P}
  Mortal = {r1, r2}
  Cancels <- JobOne
  Removals = {}
SPECIFICATION Spec
SYMMETRY ProcSymmetry
INVARIANT TypeOK Exclusive Reachable QueuedIsFresh
PROPERTY NeverOverwritten SeqMonotone InOrder
CHECK_DEADLOCK FALSE
