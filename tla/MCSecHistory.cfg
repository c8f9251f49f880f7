SPECIFICATION Spec
CONSTANTS
  Quarters = {1, 2}
  Latest <- MCLatest
  Size <- MCSize
  Flawed = {2}
  MaxAttempts = 2
  Names = {m, n}
  None = None
  m = m
  n = n
SYMMETRY MCSymmetry
INVARIANTS CachedIsComplete
PROPERTIES PartitionSurvives StagedIsTrue
