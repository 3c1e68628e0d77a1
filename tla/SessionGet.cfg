SPECIFICATION FairSpec
CONSTANTS
  Calls <- GetCall
  Cap = 4
  Buf = 3
  LineLimit = 4
  Timeout = 2
  Milli = 2
  FileSize = 5
  NewSize = 3
  None = None
INVARIANT GetSuccessIsFile
