\* Three ports and packets of two sizes; the shared memory (4 bytes) runs out,
\* and a RESUME may follow a PAUSE that is still on its way.
CONSTANTS
    Ports = {1, 2, 3}
    Prios = {3}
    Sizes = {2, 3}
    BufferSize = 16
    Reserve = 1
    ResumeOffset = 1
    headroom <- SmallHeadroom
    OutSets <- AnyPorts
    total_hdrm = 9
    total_rsrv = 3
    Divisor <- FastUplink
    QueueCap = 2
    FrameCap = 2
SPECIFICATION Spec
INVARIANTS
    TypeOK
    HeadroomRespected
    HeadroomUseIsPaused
    AccountingMatchesQueues
    PauseStatesAgree
    BufferRespected
PROPERTY OnlyLostMulticastsStrand
CHECK_DEADLOCK FALSE
