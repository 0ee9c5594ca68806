\* One thread that may pass the IDs it got back; one context; every build
\* succeeds.
CONSTANTS
  t1 = t1  t2 = t2  split = split  plain = plain  dev = dev
  ctx1 = ctx1  ctx2 = ctx2  queue1 = queue1  queue2 = queue2
  NoThread = NoThread  NoContext = NoContext
  Threads = {t1}
  Geometries = {split, plain}
  DeviceNames = {dev}
  Contexts = {ctx1, ctx2}
  Queues = {queue1, queue2}
  ContextOf <- MCContextOf
  NameOf <- MCNameOf
  Problems <- MCProblemsOfOneContext
  DefaultHyPas <- MCDefaultHyPas
  MaxCacheSize = 5
  BuildOutcomes = {"ok"}
  ReuseIDs = TRUE
  MaxCalls = 2
SPECIFICATION Spec
CHECK_DEADLOCK FALSE
INVARIANT ReturnedIDCanBeUsed
