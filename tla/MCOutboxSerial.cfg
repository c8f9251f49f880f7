\* One process at a time over three related candidates: the cooldown, damage to
\* the file and restarts (crashes: MCOutboxShared).
SPECIFICATION Spec
CONSTANTS
  Procs = {p1}
  k1 = k1
  k2 = k2
  k3 = k3
  Keys = {k1, k2, k3}
  Channels = {email}
  Lenient = {email}
  Facts <- MCFacts
  NoState = NoState
  NoDelta = NoDelta
  NoJob = NoJob
  Cooldown = 1
  MaxTime = 2
  MaxCrashes = 0
  MaxCorruptions = 1
INVARIANTS
  CooldownHonoured
PROPERTIES
  QuarantinerSendsNothing
CHECK_DEADLOCK FALSE
