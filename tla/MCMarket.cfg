\* Two symbols in one shard, one of them a benchmark; two sources; two
\* refreshes over two sessions, one damaged payload.
SPECIFICATION Spec
CONSTANTS
  Symbols = {1, 2}
  Priority = {2}
  Sources = {1, 2}
  Shards = 1
  Workers = 2
  Tolerance = 5
  Answer <- MCAnswer
  LastSession = 2
  MaxRuns = 2
  MaxDamage = 1
INVARIANTS
  ServedIsVerified
  DisagreementStands
PROPERTIES
  RefreshEnds
CHECK_DEADLOCK FALSE
