CONSTANTS
  Users = {u1, u2}
  Queries = {q1, q2, q3}
  Times = {1, 2}
  Slow = 1
  MaxRecords = 6
  TopMax = 2
  SlowMax = 2
  Share = 2
SYMMETRY Symmetry
SPECIFICATION Spec
INVARIANTS TypeOK TopIsRanked PatternsAreNearlyTrue PercentilesCover
CHECK_DEADLOCK FALSE
