SPECIFICATION FairSpec
CONSTANTS
    None = None
    MethodologyComplete = TRUE
    Templates <- MCTemplates
    Hosts <- MCHosts
    Initial <- MCInitial
    MaxClock = 1
    MaxRuns = 1
    MaxCrashes = 1
INVARIANTS DirectoryNeverLost PublishedIsWhole
PROPERTIES SiteNeverOlder Republished
CHECK_DEADLOCK FALSE
