SPECIFICATION Spec
CONSTANTS
  Wrap = 64
  Workers = {w1, w2}
  Names = {"a", "b"}
  Conns = {1, 2}
  Setups <- FullSetups
  Packetization = 2
  Lines <- MCLines
  Unterminated = {"new"}
  InitialFiles <- MCFiles
  Unwritable = {}
  FullDisk = {1}
  Absent = Absent
  None = None
INVARIANT NoPartialFile
