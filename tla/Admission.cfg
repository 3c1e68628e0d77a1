SPECIFICATION FairSpec
CONSTANTS
  Conns = {1, 2, 3, 4}
  Parsers = {p1, p2}
  Header <- MCHeader
  None = None
INVARIANTS NeverRefused NothingLeftOpen
PROPERTIES AcceptedAreHandled ShutdownCompletes
