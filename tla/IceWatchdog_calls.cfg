SPECIFICATION FairSpec
CONSTANTS
    MaxCalls = 2
    MaxQueue = 2
INVARIANTS
    TypeOK
    NoOrphanWatchdog
    WatchdogWatchesCall
PROPERTIES
    EventsActOnOwnCall
    UnstableCallEnds
    NobodyWaitsForever
