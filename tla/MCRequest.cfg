SPECIFICATION Spec
CONSTANTS
  Inputs <- MCInputs
  NextInputs <- MCNextInputs
  ReadInit = 2
  ReadMore = 2
  ReadMax = 12
  StrMin = 2
  StrMore = 1
  AcceptMax = 3
INVARIANTS
  TypeOK
  GotExactly
  OwnBytesOnly
  PathsInside
  BufferGrows
