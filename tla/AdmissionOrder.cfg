SPECIFICATION FairSpec
CONSTANTS
  Conns = {1, 2}
  Parsers = {p1, p2}
  Header <- MCTransfers
  None = None
INVARIANT QueueInArrivalOrder
