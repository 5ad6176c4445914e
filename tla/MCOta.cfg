SPECIFICATION Spec
CONSTANTS
  Hdr = 4
  Img = 30
  Mark = 3
  FinalCrlf = TRUE
  Margin = 6
  RecvBufSize = 20
CHECK_DEADLOCK FALSE
INVARIANTS TypeOK NoFirmwareLost ExactImage HandleClosed
