CONSTANTS
  Threads = {t1, t2}
  Names = {a, b}
  NoName = noname
  MaxBuckets = 2
  MaxMoves = 2
  MaxLate = 1
  MayLose = TRUE
SPECIFICATION Spec
SYMMETRY Symmetry
INVARIANTS TypeOK PathsLeadHome DataGoesHome
