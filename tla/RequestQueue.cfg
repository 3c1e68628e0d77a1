SPECIFICATION FairSpec
CONSTANTS
  Workers = {w1, w2, w3}
  Parsers = {p1}
  Requests = {1, 2, 3}
  None = None
  Better <- MCBetter
  MaxRequeues = 1
INVARIANTS TypeOK InflightExact OnePlace ExitOnlyWhenDrained NoLostWakeup NoDoubleBypass OvertakenOnlyByBetter
PROPERTIES EveryRequestFinished WorkersJoin ImplementsPool
