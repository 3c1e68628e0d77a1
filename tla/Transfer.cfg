SPECIFICATION Spec
CONSTANTS
  Wrap = 16
  MaxSize = 7
  Files <- MCFiles
  PutSizes <- MCPutSizes
  Leftovers <- MCLeftovers
  Quanta <- MCQuanta
INVARIANTS TypeOK WholeLines DrrExact DeficitNeverWraps RrLedger RoundsBounded PutExact RepliesExact
