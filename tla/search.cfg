\* Searches by time and by restarts, where everything may fail.
CONSTANTS
  h1 = h1  h2 = h2  h3 = h3  rough = rough  odd = odd
  HyperParams = {h1, h2, h3, rough, odd}
  Neighbors <- MCNeighbors
  Derivable <- MCDerivable
  Reasonable <- MCReasonable
  Cached <- MCCached
  Times <- MCTimes
  Parameters <- MCParameters
  Faults = {"address", "start", "compile", "enqueue"}
  Second = 2
  Tenth = 2
  Hundredth = 2
  Forever = 1000
  MaxNow = 3
  MaxDescents = 3
SPECIFICATION Spec
CHECK_DEADLOCK FALSE
INVARIANT TypeOK
INVARIANT IInv
INVARIANT NothingBetterWasMeasured
INVARIANT ConsideredOnce
INVARIANT RequiredRunsAreDefined
PROPERTY DescentsGoAllTheWay
PROPERTY SearchEnds
