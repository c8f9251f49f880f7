\* Two processes over one ledger file, with crashes.
SPECIFICATION FairSpec
CONSTANTS
  Procs = {p1, p2}
  k1 = k1
  k2 = k2
  k3 = k3
  Keys = {k1, k2}
  Channels = {telegram}
  Lenient = {}
  Facts <- MCFacts
  NoState = NoState
  NoDelta = NoDelta
  NoJob = NoJob
  Cooldown = 1
  MaxTime = 1
  MaxCrashes = 1
  MaxCorruptions = 0
INVARIANTS
  AtMostOnce
  SuppressedNeverSent
  OutcomesAreTrue
PROPERTIES
  ImplementsDelivery
  ClaimsResolve
  OutcomeIsFinal
CHECK_DEADLOCK FALSE
