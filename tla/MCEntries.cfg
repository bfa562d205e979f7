SPECIFICATION Spec
CONSTANTS
    e1 = e1
    e2 = e2
    k1 = k1
    k2 = k2
    f1 = f1
    f2 = f2
    c1 = c1
    None = None
    Entries <- MCEntryIds
    Clocks <- MCClocks
    Flows <- MCFlows
    Callers <- MCCallers
    StoredHours <- MCStoredHours
    OfferedChoices <- MCOfferedChoices
SYMMETRY Symmetry
VIEW View
INVARIANTS
    TypeOK
    OneEntryPerClock
    ServicesWhileLoaded
    CallTruthful
    RunsItsOptions
    NothingLeftBehind
