CONSTANTS
  Problems <- MCProblems
  Gpu <- MCGpu
  MaxWork = 400
SPECIFICATION Spec
INVARIANT TypeOK
INVARIANT SameAsCpu
INVARIANT LoadsInside
INVARIANT PackedOnce
INVARIANT TilesFit
INVARIANT GroupIdsFit
