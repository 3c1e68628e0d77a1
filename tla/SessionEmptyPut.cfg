SPECIFICATION FairSpec
CONSTANTS
  Calls <- EmptyPutCall
  Cap = 4
  Buf = 4
  LineLimit = 4
  Timeout = 2
  Milli = 2
  FileSize = 5
  NewSize = 3
  None = None
INVARIANT PutFailureMeansNotStored
