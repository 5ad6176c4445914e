SPECIFICATION Spec
CONSTANTS
  Ids <- TwoIds
  Texts <- SomeTexts
  MaxFields = 2
  MaxForms = 1
  Chars <- AllChars
  NvsTexts <- OldTexts
  Unknown = Unknown
  MaxParams = 2
  FieldLen = 4
  SsidLen = 3
  PasswordLen = 4
  BodySize = 13
  ShortReads = TRUE
INVARIANTS TypeOK WholeFormApplied NotifiedWithSsid
PROPERTY MapBehaves
CHECK_DEADLOCK FALSE
