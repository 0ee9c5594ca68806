\* Two small caches are merged, and one request is looked up in the result;
\* a search then takes a step.
CONSTANTS
  Caches <- MCCaches
  Requests <- MCRequests
  Unit <- MCUnit
  Log2Of <- MCLog2Of
  LogOf <- MCLogOf
  Rounds = 4
  Lead = 1
  MaxSteps = 1
SPECIFICATION Spec
CHECK_DEADLOCK FALSE
INVARIANT TypeOK
INVARIANT MergedKeys
INVARIANT NearestComparable
INVARIANT ConstraintsHonoured
INVARIANT SearchAccepted
INVARIANT ReflectedDerivable
