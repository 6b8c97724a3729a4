\* Three nodes in two chains, a chunk of data and one of parity per block.
CONSTANTS
    m_nodes = 3
    m_roots = 2
    PerNodeSegmentCount = 1
    m_sdata = 1
    m_sparity = 1
    PerChunkPacketCount = 1
    Strategies = {"simulate", "markov"}
SPECIFICATION LiveSpec
INVARIANTS TypeOK NoAssertFails FinishesWithNeighbour
PROPERTY Finishes
CHECK_DEADLOCK FALSE
