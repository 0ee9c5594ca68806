\* Three calls on two queues that may reorder and one that may not.
CONSTANTS
  bufA = bufA  bufB = bufB  bufC = bufC  bufD = bufD  bufE = bufE
  work1 = work1  work2 = work2
  ordered = ordered  loose = loose  other = other
  Calls = {1, 2, 3}
  Buffers = {bufA, bufB, bufC, bufD, bufE}
  Workspaces = {work1, work2}
  Queues = {ordered, loose, other}
  InOrder = {ordered}
  Plans <- MCPlans
SPECIFICATION Spec
CHECK_DEADLOCK FALSE
INVARIANT TypeOK
INVARIANT IInv
INVARIANT FinalEventMeansDone
INVARIANT UserEventsAwaited
INVARIANT NoConflictingOverlap
PROPERTY AtomicSpec
PROPERTY EveryCallCompletes
