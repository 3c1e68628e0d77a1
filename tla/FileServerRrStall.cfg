SPECIFICATION FairSpec
CONSTANTS
  Wrap = 64
  Workers = {w1, w2}
  Names = {"a"}
  Conns = {1, 2}
  Setups <- StallSetups
  Packetization = 2
  Lines <- MCLines
  Unterminated = {}
  InitialFiles <- MCFiles
  Unwritable = {}
  FullDisk = {}
  Absent = Absent
  None = None
PROPERTY DrainsAfterShutdown
