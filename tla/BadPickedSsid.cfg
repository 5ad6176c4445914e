SPECIFICATION PagesSpec
CONSTANTS
  Ids <- TwoIds
  Texts <- SomeTexts
  MaxFields = 1
  MaxForms = 2
  Chars <- AllChars
  NvsTexts <- OldTexts
  Unknown = Unknown
  MaxParams = 2
  FieldLen = 4
  SsidLen = 4
  PasswordLen = 4
  BodySize = 16
  ShortReads = FALSE
  Kind <- KindOf
  Options <- TwoOptions
  Names <- SomeNames
  ScanMax = 2
  Floats <- SomeFloats
  OwnValues <- OneValue
  Defined <- Redefined
  MaxSchema = 1
INVARIANT AnyPickIsStored
CHECK_DEADLOCK FALSE
