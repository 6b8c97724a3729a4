------------------------------ MODULE AgConfig ------------------------------
(***************************************************************************)
(* The arithmetic of an allgather: every node multicasts one block; a      *)
(* block is a sequence of chunks, a chunk of packets; m_roots chains of    *)
(* consecutive nodes multicast at the same time, one node of each at once. *)
(* A segment of m_sdata + m_sparity chunks survives m_sparity losses.      *)
(***************************************************************************)
EXTENDS Naturals, FiniteSets

CONSTANTS
    m_nodes, m_roots,
    PerNodeSegmentCount, m_sdata, m_sparity,
    PerChunkPacketCount

ASSUME AgConfigAssumption ==
    /\ {m_nodes, m_roots, PerNodeSegmentCount, m_sdata, PerChunkPacketCount} \subseteq Nat \ {0}
    /\ m_sparity \in Nat
    /\ m_roots <= m_nodes

CeilDiv(a, b) == (a + b - 1) \div b

PerBlockChunkCount  == PerNodeSegmentCount * (m_sdata + m_sparity)
PerBlockPacketCount == PerChunkPacketCount * PerBlockChunkCount

Blocks == 0 .. m_nodes - 1
Chunks == 0 .. PerBlockChunkCount * m_nodes - 1

GetNearestFirstBlockHigherOrEqu(block) ==
    (CeilDiv(block * m_roots, m_nodes) * m_nodes) \div m_roots

IsFirstInChain(block) == block = GetNearestFirstBlockHigherOrEqu(block)

\* A chain of one node has a first and no last node.
IsLastInChain(block) == ~IsFirstInChain(block) /\ IsFirstInChain((block + 1) % m_nodes)

GetOriginalSender(chunk) == chunk \div PerBlockChunkCount
ChunksOf(block)          == {chunk \in Chunks : GetOriginalSender(chunk) = block}

IsLastChunkOfChain(chunk) ==
    /\ IsLastInChain(GetOriginalSender(chunk))
    /\ (chunk + 1) % PerBlockChunkCount = 0

ChunkOfImm(imm) == imm \div PerChunkPacketCount

GetSegmentOfChunk(chunk) ==
    GetOriginalSender(chunk) * PerNodeSegmentCount + (chunk % PerNodeSegmentCount)

\* The blocks with a segment that lost more chunks than it has of parity.
BuildToRecover(recv) ==
    {block \in Blocks : \E segment \in {GetSegmentOfChunk(c) : c \in ChunksOf(block)} :
        Cardinality({c \in Chunks \ recv : GetSegmentOfChunk(c) = segment}) > m_sparity}
=============================================================================
