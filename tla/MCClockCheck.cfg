SPECIFICATION FairSpec
CONSTANTS
    winter = winter
    summer = summer
    NoByte = NoByte
    None = None
    Offsets <- MCOffsets
    Floor = 2
    ServiceOffsets <- MCOffsets
INVARIANTS
    TypeOK
    VerdictDeserved
PROPERTIES
    OneTzWrite
    WritesSpaced
    DriftCured
    OffsetSettled
