CONSTANTS
  P = P
  E = E
  a = a
  b = b
  r1 = r1
  r2 = r2
  None = None
  Pools = {P, E}
  Resources = {a, b}
  Stock <- TwoInP
  Procs = {r1}
  MaxId = 2
  Subs <- SerialSubs
  Requests <- SerialRequests
  RunPools = {P, E}
  Mortal = {}
  Cancels = {}
  Removals <- RemoveOnly
SPECIFICATION FairSpec
PROPERTY KeepsCommand Served Returned RunsEnd
CHECK_DEADLOCK FALSE
