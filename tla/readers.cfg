CONSTANTS
  P = P
  a = a
  b = b
  r1 = r1
  None = None
  Pools = {P}
  Resources = {a, b}
  Stock <- TwoInP
  Procs = {r1}
  MaxId = 2
  Subs <- LowHigh
  Requests <- LowHighRequests
  RunPools = {P}
  Mortal = {}
  Cancels <- JobOne
  Removals = {}
  Questions <- AllQuestions
SPECIFICATION ReadersSpec
INVARIANT ListingTrue SearchFinds
CHECK_DEADLOCK FALSE
