SPECIFICATION FairSpec
CONSTANTS
    kitchen = kitchen
    reloaded = reloaded
    None = None
    Off = Off
    Loads <- MCOneLoad
    Options <- MCAnyOptions
    Interval = 4
    StartupDelay = 1
    RetryBase = 2
    RetryMax = 3
    FreshFor = 1
    MaxFails = 3
INVARIANTS
    TypeOK
    NeverUnscheduled
    NeverLate
    StoreNotBehind
PROPERTIES
    BackoffRespected
    KeepsTrying
