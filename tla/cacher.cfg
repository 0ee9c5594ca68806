\* Two threads, two geometries, two contexts on devices of one name, any build
\* may fail, IDs are reused, and there is one usable slot less than MaxCacheSize.
CONSTANTS
  t1 = t1  t2 = t2  split = split  plain = plain  dev = dev
  ctx1 = ctx1  ctx2 = ctx2  queue1 = queue1  queue2 = queue2
  NoThread = NoThread  NoContext = NoContext
  Threads = {t1, t2}
  Geometries = {split, plain}
  DeviceNames = {dev}
  Contexts = {ctx1, ctx2}
  Queues = {queue1, queue2}
  ContextOf <- MCContextOf
  NameOf <- MCNameOf
  Problems <- MCProblems
  DefaultHyPas <- MCDefaultHyPas
  MaxCacheSize = 3
  BuildOutcomes = {"ok", "fail"}
  ReuseIDs = TRUE
  MaxCalls = 2
SPECIFICATION Spec
CHECK_DEADLOCK FALSE
INVARIANT TypeOK
INVARIANT IInv
INVARIANT SoleBuilder
INVARIANT BuilderRunsItsKernels
INVARIANT SettledCallsRunTheirKernels
PROPERTY CompleteProgramsAreFrozen
PROPERTY TableSpec
PROPERTY EveryCallEnds
