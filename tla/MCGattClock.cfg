SPECIFICATION Spec
CONSTANTS
    Sec = 4
    MinTrip = 2
    MaxTrip = 4
    ModeTimes <- MCModeTimes
    Skews <- MCSkews
    Tolerance = 8
    MaxRetries = 2
    Start = 200
INVARIANTS
    TypeOK
    Aimed
    WrittenIsRight
    LeftAloneOrRight
    MismatchDeserved
    DriftMeasured
    ResidualMeasured
