\* A TinyOne or a find that benchmarks twice, while two calls of OpenCL fail.
CONSTANTS
  any = any  amd = amd  gfx = gfx  other = other  beta1 = beta1  main1 = main1  main2 = main2
  Sources = {beta1, main1, main2}
  NoSource = NoSource
  Hintless = 99
  MaxFaults = 2
  MaxBenchmarks = 2
  Requests <- MCRequests
  Words <- MCWords
  Platforms <- MCPlatforms
  Devices <- MCDevices
  Tested <- MCTested
SPECIFICATION Spec
CHECK_DEADLOCK FALSE
INVARIANT TypeOK
INVARIANT SourceOfSlot
INVARIANT BuildInsideCall
INVARIANT LeftOver
INVARIANT TimesAreOfRequest
PROPERTY BuildReturns
