CONSTANTS
  a = a
  b = b
  sp = sp
  lf = lf
  None = None
  Bytes <- MCBytes
  AsciiWhitespace <- MCAsciiWhitespace
  LF = lf
  MaxLen = 5
SPECIFICATION Spec
INVARIANTS
  TypeOK
  SplitOnceSpec
  SplitSpec
  WordsSpec
  TrimSpec
