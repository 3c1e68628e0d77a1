SPECIFICATION Spec
CONSTANTS
  Commands <- MCCommands
  Directory <- MCDirectory
  Threads = {t1, t2}
  Workers = 2
  MaxInt = 7
  RankBound = 110
  Main = Main
  None = None
INVARIANTS RequestsExact CsvExact PercentilesExact
SYMMETRY MCSymmetry
