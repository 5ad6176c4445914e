SPECIFICATION ClientFairSpec
CONSTANTS
  home = home
  setup = setup
  NoSsid = NoSsid
  ApName = setup
  Ssids <- TwoNetworks
  QueueLen = 3
  RetryNum = 2
  RegLimit = 1
  PromptLoop = TRUE
  AppCalls <- Everything
  StopFirst = TRUE
INVARIANTS TypeOK TornDown ServedOverAp StoppedIsQuiet RetryBudget OkIsFresh ConnBitAccurate PortalStationIdle OkIsSaved
PROPERTIES FlowBehaves CallsReturn
