\* Messages of one and of three packets, three packets and two replies in flight,
\* unlimited loss.  Sequence numbers do not wrap (PsnMod > MaxPsn).
CONSTANTS
    MTU = 2
    PayloadSizes = {0, 5}
    Chunk = 4
    AckInterval = 3
    PsnMod = 16
    MaxPsn = 7
    DataCap = 3
    AckCap = 2
SPECIFICATION Spec
INVARIANTS
    TypeOK
    DeliveredInOrderOnce
    CompletedWereDelivered
    PsnOrder
    TimerGuardsAckRequests
    NoSilentStall
    NextPacketExists
PROPERTIES
    PsnsAdvance
    ImplementsReliableDelivery
CHECK_DEADLOCK FALSE
