SPECIFICATION Spec
CONSTANTS
  Requests <- MCRequests
  Tree <- MCTree
  Volatile <- MCVolatile
  Sizes <- MCSizes
  MaxChanges = 2
  Cwd <- MCCwd
  MAX_LINKS = 2
  InternalCgi <- MCInternal
  INDEX_NAMES <- MCIndexNames
  CgiFiles <- MCCgiFiles
  UrlFiles <- MCUrlFiles
  no_empty_referrers = FALSE
  HeadLen = 2
  PageLen = 1
  MaxBytes = 2
  MAX_CGI_INTER = 7
  MAX_CNT_CGI = 29
  MAX_CNT_CMD = 30
  MAX_NUM_CMD = 8
  MAX_CNT_EVERYCMD = 5
  Byte = 4
  LongMax = 32767
  HISNET_MAX_TIMESIZE = 4
  PHOTO_EXPOSURE_MODE_AUTO = 7
  PHOTO_EXPOSURE_MODE_MANUAL = 8
  Answers <- MCAnswers
  MaxGroups = 2
  MaxWorks = 2
  Spills <- MCSpills
INVARIANTS
  TypeOK
  OneAnswer
  BodyExact
  ExpandExact
  CommandExact
  ListWellFormed
CHECK_DEADLOCK FALSE

