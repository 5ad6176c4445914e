SPECIFICATION Spec
CONSTANTS
  home = home
  setup = setup
  NoSsid = NoSsid
  ApName = setup
  Ssids <- OneNetwork
  QueueLen = 3
  RetryNum = 1
  RegLimit = 1
  PromptLoop = TRUE
  AppCalls <- PortalOnly
  StopFirst = TRUE
INVARIANT SubmissionPending
