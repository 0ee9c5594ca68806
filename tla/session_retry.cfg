\* A TinyOne that is used again after a build failed.
CONSTANTS
  any = any  amd = amd  gfx = gfx  other = other  beta1 = beta1  main1 = main1  main2 = main2
  Sources = {beta1, main1, main2}
  NoSource = NoSource
  Hintless = 99
  MaxFaults = 2
  MaxBenchmarks = 2
  Requests <- MCRequests
  Words <- MCWords
  Platforms <- MCPlatforms
  Devices <- MCDevices
  Tested <- MCTested
SPECIFICATION Spec
CHECK_DEADLOCK FALSE
INVARIANT NoUpdateNeeded
