SPECIFICATION DailySpec
CONSTANTS
    None = None
    Horizons = {1, 2}
    GateHorizon = 2
    DedupSessions = 1
    Windows <- MCWindows
    Delisted = {"HOLE"}
    Locked <- MCLocked
    MinimumEvents = 1
    Tests <- MCEvaluationTests
    Handed <- MCHanded
    Worlds <- MCWorlds
    Locks <- MCLocks
    FirstDay = 9
    LastDay = 10
    QualifyDays = 9
    HistoryDays = 6
    FirstBuyDays = 9
    ReentryDays = 3
    MinPrior = 2
    Cadence <- MCCadence
    ClusterDays = 3
    ActivityDays = 3
    MaxPeriods = 3
    BasisDays = 9
    SymbolicDollars = 20
    Span <- MCSpan
    WeekDays = 2
    WeeklyHistory <- MCBounds
    DailyHistory <- MCBounds
    Unstamped = {"stooq"}
    ComponentDays = 9
    LatestDays = 5
    BigDollars = 400
    HugeDollars = 600
    PulseDays = 6
INVARIANTS
    BacktestIsBlind
    CountedFairly
    RunsAgree
    ManifestNamesSnapshot
    AlertsNeedSealedGate
CHECK_DEADLOCK FALSE
