SPECIFICATION Spec
CONSTANTS
  Issuers = {1}
  Facts <- MCFacts
  Runners = {m, n}
  Nobody = Nobody
  MaxSessions = 3
  MaxRuns = 4
  MaxDisturbances = 1
  m = m
  n = n
CHECK_DEADLOCK FALSE
SYMMETRY MCSymmetry
INVARIANTS SiteAgrees StateIsRecoverable
PROPERTIES MovesOncePerSession
