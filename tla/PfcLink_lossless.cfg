\* Two ports, links of one packet, headroom of 2 * LinkCap + 1 packets.
CONSTANTS
    Ports = {1, 2}
    Prios = {3}
    Sizes = {1}
    BufferSize = 10
    Reserve = 1
    ResumeOffset = 1
    headroom <- CoveringHeadroom
    OutSets = {}
    total_hdrm = 6
    total_rsrv = 2
    Divisor <- UniformDivisor
    QueueCap = 12
    FrameCap = 4
    LinkCap = 1
SPECIFICATION LinkSpec
INVARIANT NothingIsDropped
PROPERTY PauseEnds
CHECK_DEADLOCK FALSE
