SPECIFICATION AppSpec
CONSTANTS
  home = home
  setup = setup
  NoSsid = NoSsid
  ApName = setup
  Ssids <- OneNetwork
  QueueLen = 3
  RetryNum = 1
  RegLimit = 1
  PromptLoop = TRUE
  AppCalls <- Calls
  StopFirst = FALSE
  MayFail <- Anything
INVARIANT StatusUsesLiveNetif
