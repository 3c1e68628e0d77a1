SPECIFICATION FairSpec
CONSTANTS
  Wrap = 64
  Workers = {w1, w2}
  Names = {"a", "b"}
  Conns = {1, 2, 3}
  Setups <- MCSetups
  Packetization = 2
  Lines <- MCLines
  Unterminated = {"new"}
  InitialFiles <- MCFiles
  Unwritable = {3}
  FullDisk = {3}
  Absent = Absent
  None = None
INVARIANTS QuietGetIsExact OffsetIsBytesSent CommittedWhole BooksClose
PROPERTY DrainsAfterShutdown
