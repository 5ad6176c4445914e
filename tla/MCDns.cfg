SPECIFICATION Spec
CONSTANTS
  Bytes <- FewBytes
  LabelMax = 3
  Pointer = 8
  NameMax = 4
  HeaderSize = 2
  AnswerSize = 3
  PacketMax = 13
INVARIANTS TypeOK NothingLeaked OnlyReceivedBytes NameBounded
