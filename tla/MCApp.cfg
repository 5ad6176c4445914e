SPECIFICATION AppSpec
CONSTANTS
  home = home
  setup = setup
  NoSsid = NoSsid
  ApName = setup
  Ssids <- TwoNetworks
  QueueLen = 3
  RetryNum = 2
  RegLimit = 1
  PromptLoop = TRUE
  AppCalls <- Calls
  StopFirst = FALSE
  MayFail <- Anything
INVARIANTS AppTypeOK OnlyDestroyMissesGroup PortalIsBlue GreenWasConnected
PROPERTIES StopsFirst PageKeepsNetif
