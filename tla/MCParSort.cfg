\* Every array of five elements, and up to two failures anywhere.
SPECIFICATION FairSpec
CONSTANTS
  N           = 5
  Values      = {1, 2}
  Threshold   = 1
  MaxFailures = 2
INVARIANTS RangesDisjoint NoneLeft
PROPERTIES ExitsSorted EveryProcessEnds
