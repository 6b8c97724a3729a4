\* Three nodes in one chain, one packet per block.
CONSTANTS
    m_nodes = 3
    m_roots = 1
    PerNodeSegmentCount = 1
    m_sdata = 1
    m_sparity = 0
    PerChunkPacketCount = 1
    Strategies = {"simulate"}
SPECIFICATION Spec
INVARIANT RegisteredRequestIsServed
CHECK_DEADLOCK FALSE
