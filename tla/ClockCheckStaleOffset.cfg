SPECIFICATION ScheduledSpec
CONSTANTS
    winter = winter
    summer = summer
    NoByte = NoByte
    None = None
    Offsets <- MCOffsets
    Floor = 2
    ServiceOffsets = {}
PROPERTY
    StaleOffsetCured
