\* A search by time, as find calls it; kernels may not compile.
CONSTANTS
  h1 = h1  h2 = h2  h3 = h3  rough = rough  odd = odd
  HyperParams = {h1, h2, h3, rough, odd}
  Neighbors <- MCNeighbors
  Derivable <- MCDerivable
  Reasonable <- MCReasonable
  Cached <- MCCached
  Times <- MCTimes
  Parameters <- MCFindParameters
  Faults = {"compile"}
  Second = 2
  Tenth = 2
  Hundredth = 2
  Forever = 1000
  MaxNow = 6
  MaxDescents = 3
SPECIFICATION Spec
CHECK_DEADLOCK FALSE
INVARIANT BestFoundIsReturned
