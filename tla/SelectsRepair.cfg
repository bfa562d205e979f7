SPECIFICATION Spec
CONSTANTS
    g1 = g1
    g2 = g2
    c1 = c1
    c2 = c2
    None = None
    Loads <- MCLoads
    Calls <- MCCalls
    Firmwares <- MCFirmwares
    MaxRetries = 2
PROPERTY
    RepairKeepsMode
