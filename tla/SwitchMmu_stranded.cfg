\* Two ports, two bytes of shared memory, multicast packets that go to no port.
CONSTANTS
    Ports = {1, 2}
    Prios = {3}
    Sizes = {1}
    BufferSize = 8
    Reserve = 0
    ResumeOffset = 0
    headroom <- SmallHeadroom
    OutSets <- AnyPorts
    total_hdrm = 6
    total_rsrv = 0
    Divisor <- FastUplink
    QueueCap = 2
    FrameCap = 2
SPECIFICATION RespectfulSpec
PROPERTY PauseEnds
CHECK_DEADLOCK FALSE
