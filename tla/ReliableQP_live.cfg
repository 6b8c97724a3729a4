\* Messages of one and of two packets.  The path loses finitely many packets.
CONSTANTS
    MTU = 2
    PayloadSizes = {0, 3}
    Chunk = 0
    AckInterval = 0
    PsnMod = 8
    MaxPsn = 4
    DataCap = 2
    AckCap = 2
SPECIFICATION LiveSpec
PROPERTY EveryRequestCompletes
CHECK_DEADLOCK FALSE
