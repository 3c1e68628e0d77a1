SPECIFICATION Spec
CONSTANTS
  Cases <- MCCases
  IntBits = 5
  LongBits = 7
  SizeBits = 5
  MaxPort = 11
  None = None
INVARIANTS ParserExact VerdictDeserved FlagsJudged ServesAsAssumed
