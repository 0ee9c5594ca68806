\* A solution from the cache whose copies do not fit once it is reflected
\* ends the request, although the generic one would do.
CONSTANTS
  Caches <- MCCaches
  Requests <- MCRequests
  Unit <- MCUnit
  Log2Of <- MCLog2Of
  LogOf <- MCLogOf
  Rounds = 4
  Lead = 1
  MaxSteps = 0
SPECIFICATION Spec
CHECK_DEADLOCK FALSE
INVARIANT FallsBackToGeneric
