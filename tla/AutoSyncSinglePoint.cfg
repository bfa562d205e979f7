SPECIFICATION Spec
CONSTANTS
    kitchen = kitchen
    reloaded = reloaded
    None = None
    Off = Off
    Loads <- MCTwoLoads
    Options <- MCClockOnly
    Interval = 3
    StartupDelay = 1
    RetryBase = 2
    RetryMax = 2
    FreshFor = 1
    MaxFails = 2
INVARIANT
    SinglePointInTime
