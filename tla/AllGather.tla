----------------------------- MODULE AllGather -----------------------------
(***************************************************************************)
(* The allgather application: each node multicasts its block, and then has *)
(* the blocks it misses sent by its left neighbour.  One AgApp and its     *)
(* AgRuntime per node; `rt` holds the runtimes.                            *)
(*                                                                         *)
(* The messages between neighbours go through reliable queue pairs: each   *)
(* is delivered once and in order, and then completed at the sender, as    *)
(* ReliableDelivery promises.  The multicast packets go through unreliable *)
(* ones, of which UdMulticast tells the order and the losses; a packet     *)
(* changes the runtime of its receiver only, so that it may be received    *)
(* when it is sent, or is as good as lost.  Time is abstracted: a cutoff   *)
(* timer that runs may fire.                                               *)
(***************************************************************************)
EXTENDS AgConfig, Sequences, FiniteSetsExt

CONSTANTS Strategies

ASSUME StrategiesAssumption == Strategies \subseteq {"simulate", "markov"}

VARIABLES
    strategy,       \* "markov" if ShouldSkipMcast
    rt,             \* the runtimes
    m_timeout_ev,   \* nodes whose cutoff timer runs
    mcast_sq,       \* by node: packets posted on m_mcast.sq
    chain,          \* by node: hand-overs on their way to the right neighbour
    request,        \* by node: its recovery request
    blocks,         \* by node: recovered blocks on their way to the right neighbour
    acks            \* by node: blocks that have arrived there, not yet completed

mcast_vars    == <<mcast_sq, chain>>
recovery_vars == <<request, blocks, acks>>
vars == <<strategy, rt, m_timeout_ev, mcast_vars, recovery_vars>>

Left(n)  == (n + m_nodes - 1) % m_nodes
Right(n) == (n + 1) % m_nodes

NoRequest == [stage |-> "none", empty |-> FALSE]

NoProgress == [sender \in Blocks |-> [chunk |-> 0, pkts |-> 0]]

Init ==
    /\ strategy \in Strategies
    /\ rt = [n \in Blocks |->
                [state |-> "Multicast", recv |-> {}, completed_chains |-> 0,
                 progress |-> NoProgress,
                 torecover |-> {}, rec_sent |-> {}, has_recovered_all |-> FALSE,
                 has_recv_recover_req |-> FALSE, rec_sent_all |-> FALSE]]
    /\ m_timeout_ev = IF strategy = "markov" THEN {} ELSE Blocks
    /\ mcast_sq = [n \in Blocks |-> IF strategy = "simulate" /\ IsFirstInChain(n)
                                    THEN PerBlockPacketCount ELSE 0]
    /\ chain = [n \in Blocks |-> 0]
    /\ request = [n \in Blocks |-> NoRequest]
    /\ blocks = [n \in Blocks |-> << >>]
    /\ acks = [n \in Blocks |-> 0]

-----------------------------------------------------------------------------
(* The multicast phase.                                                    *)

\* Faulty variant, for mutation checks only: its own chunks may be missing.
TransitionToRecoveryAsReceived(n, r) ==
    [r EXCEPT !.state = "Recovery", !.recv = {}, !.progress = NoProgress,
              !.torecover = BuildToRecover(r.recv)]

\* A node has always its own chunks.  The received chunks and the progress are
\* not read after this point, and are forgotten.
TransitionToRecovery(n, r) ==
    [r EXCEPT !.state = "Recovery", !.recv = {}, !.progress = NoProgress,
              !.torecover = BuildToRecover(r.recv \union ChunksOf(n))]

\* The packet count of a chunk is only compared with PerChunkPacketCount: it
\* stops one above.
Progress(p, chunk) ==
    IF p.chunk # chunk THEN [chunk |-> chunk, pkts |-> 1]
    ELSE [p EXCEPT !.pkts = Min({@ + 1, PerChunkPacketCount + 1})]

NotifyReceivePacket(n, r, imm) ==
    LET chunk  == ChunkOfImm(imm)
        p      == Progress(r.progress[GetOriginalSender(chunk)], chunk)
        is_new == p.pkts = PerChunkPacketCount /\ chunk \notin r.recv
        r1     == [r EXCEPT !.progress[GetOriginalSender(chunk)] = p,
                            !.recv = IF is_new THEN @ \union {chunk} ELSE @,
                            !.completed_chains = IF is_new /\ IsLastChunkOfChain(chunk)
                                                 THEN @ + 1 ELSE @]
    IN  IF r1.completed_chains = m_roots THEN TransitionToRecovery(n, r1) ELSE r1

\* PostSend replaces the immediate that StartMulticast computes by the number
\* of the fragment in its request (UnreliableQP): requests of one packet have 0.
ReceivedImm == 0

\* The nodes of `leaving` go from the multicast phase to `now`, their runtimes,
\* and ask for what they have missed.
StartRecoveryPhase(leaving, now) ==
    /\ rt' = now
    /\ m_timeout_ev' = m_timeout_ev \ leaving
    /\ request' = [n \in Blocks |->
                      IF n \in leaving THEN [stage |-> "sent", empty |-> now[n].torecover = {}]
                                      ELSE request[n]]
    /\ UNCHANGED <<blocks, acks>>

\* Node `n` sends a packet of its block, which some nodes receive.  After the
\* last packet it hands over to its right neighbour.  A timer that is set again
\* by a packet still runs.
Transmit(n) ==
    /\ mcast_sq[n] > 0
    /\ mcast_sq' = [mcast_sq EXCEPT ![n] = @ - 1]
    /\ chain' = IF mcast_sq'[n] % PerBlockPacketCount = 0
                THEN [chain EXCEPT ![n] = @ + 1] ELSE chain
    /\ \E receivers \in SUBSET {m \in Blocks \ {n} : rt[m].state = "Multicast"} :
           LET now == [m \in Blocks |-> IF m \in receivers
                                        THEN NotifyReceivePacket(m, rt[m], ReceivedImm) ELSE rt[m]]
           IN  StartRecoveryPhase({m \in receivers : now[m].state = "Recovery"}, now)
    /\ UNCHANGED strategy

\* A node that gets the hand-over multicasts, unless it has left the phase.
ReceiveHandOver(n) ==
    /\ chain[Left(n)] > 0
    /\ chain' = [chain EXCEPT ![Left(n)] = @ - 1]
    /\ mcast_sq' = IF rt[n].state = "Multicast"
                   THEN [mcast_sq EXCEPT ![n] = @ + PerBlockPacketCount] ELSE mcast_sq
    /\ UNCHANGED <<strategy, rt, m_timeout_ev, recovery_vars>>

OnCutoffTimer(n) ==
    /\ n \in m_timeout_ev
    /\ StartRecoveryPhase({n}, [rt EXCEPT ![n] = TransitionToRecovery(n, @)])
    /\ UNCHANGED <<strategy, mcast_vars>>

\* The packets come in order, so that a chunk is received when all its packets
\* are: `recv` are such chunks.  The chains complete with the last packet, if
\* they do, and the pass ends in the same way if they do not.
RunMarkovMcast(n) ==
    /\ strategy = "markov"
    /\ rt[n].state = "Multicast"
    /\ \E recv \in SUBSET (Chunks \ ChunksOf(n)) :
           StartRecoveryPhase({n}, [rt EXCEPT ![n] =
               TransitionToRecovery(n, [@ EXCEPT !.recv = recv])])
    /\ UNCHANGED <<strategy, mcast_vars>>

\* RunMarkovMcast is scheduled at the same time at all nodes, and a message
\* takes some time.
MessagesArrive == strategy = "markov" => \A n \in Blocks : rt[n].state # "Multicast"

-----------------------------------------------------------------------------
(* The recovery phase.                                                     *)

\* Faulty variant, for mutation checks only: blocks are sent again.
ToSendAgain(r, right) ==
    IF r.has_recv_recover_req /\ ~r.rec_sent_all THEN right.torecover \ r.torecover ELSE {}

\* The blocks the right neighbour misses, that the node has and has not sent.
ToSend(r, right) ==
    IF r.has_recv_recover_req /\ ~r.rec_sent_all
    THEN right.torecover \ (r.torecover \union r.rec_sent) ELSE {}

\* The loop over a map of blocks.
Ascending(set) ==
    [i \in 1 .. Cardinality(set) |->
        CHOOSE b \in set : Cardinality({c \in set : c < b}) = i - 1]

CanFinish(r) == r.has_recovered_all /\ r.rec_sent_all

\* TryUpdateState of node `n`, which is `r` by now, when `bs` are the blocks on
\* their way.
TryUpdateState(n, r, bs) ==
    LET sends == IF r.state = "Recovery" THEN ToSend(r, rt[Right(n)]) ELSE {}
    IN  /\ blocks' = [bs EXCEPT ![n] = @ \o Ascending(sends)]
        /\ rt' = [rt EXCEPT ![n] =
                     [r EXCEPT !.rec_sent = @ \union sends,
                               !.state = IF @ = "Recovery" /\ CanFinish(r) THEN "Finished" ELSE @]]

\* What a block, or the acknowledgement of an empty request, changes.
NotifyRecovery(r, recovered) ==
    [r EXCEPT !.torecover = @ \ recovered,
              !.has_recovered_all = @ \/ r.torecover \ recovered = {}]

\* Faulty variant, for mutation checks only: a neighbour that misses nothing is
\* treated as any other.
MissesSomething(n) == FALSE

\* The request comes from a neighbour that has every block.
MissesNothing(n) == rt[Right(n)].torecover = {}

\* The request of the right neighbour is registered in any phase.
NotifyRecvRecoveryRequest(n) ==
    /\ MessagesArrive
    /\ request[Right(n)].stage = "sent"
    /\ request' = [request EXCEPT ![Right(n)].stage = "delivered"]
    /\ TryUpdateState(n, [rt[n] EXCEPT !.has_recv_recover_req = TRUE,
                                      !.rec_sent_all = @ \/ MissesNothing(n)], blocks)
    /\ UNCHANGED <<strategy, m_timeout_ev, mcast_vars, acks>>

\* The request of `n` is acknowledged.  TryUpdateState is called twice for an
\* empty one, the second time without effect, and not at all for another.
RequestSent(n) ==
    /\ request[n].stage = "delivered"
    /\ request' = [request EXCEPT ![n].stage = "completed"]
    /\ IF request[n].empty THEN TryUpdateState(n, NotifyRecovery(rt[n], {}), blocks)
                           ELSE UNCHANGED <<rt, blocks>>
    /\ UNCHANGED <<strategy, m_timeout_ev, mcast_vars, acks>>

ReceiveBlock(n) ==
    /\ blocks[Left(n)] # << >>
    /\ acks' = [acks EXCEPT ![Left(n)] = @ + 1]
    /\ TryUpdateState(n, NotifyRecovery(rt[n], {Head(blocks[Left(n)])}),
                      [blocks EXCEPT ![Left(n)] = Tail(@)])
    /\ UNCHANGED <<strategy, m_timeout_ev, mcast_vars, request>>

\* Faulty variant, for mutation checks only: one ACK is enough.
RecSentAllAtOnce(n) == TRUE

\* What on_send finds when a block is acknowledged.
RecSentAll(n) == rt[Right(n)].torecover = {}

BlockSent(n) ==
    /\ acks[n] > 0
    /\ acks' = [acks EXCEPT ![n] = @ - 1]
    /\ TryUpdateState(n, [rt[n] EXCEPT !.rec_sent_all = @ \/ RecSentAll(n)], blocks)
    /\ UNCHANGED <<strategy, m_timeout_ev, mcast_vars, request>>

MulticastStep(n) == Transmit(n) \/ ReceiveHandOver(n)
RecoveryStep(n) ==
    NotifyRecvRecoveryRequest(n) \/ RequestSent(n) \/ ReceiveBlock(n) \/ BlockSent(n)

Next == \E n \in Blocks :
    MulticastStep(n) \/ OnCutoffTimer(n) \/ RunMarkovMcast(n) \/ RecoveryStep(n)

Spec == Init /\ [][Next]_vars

\* Nothing is multicast and nothing will be.
MulticastSilent == \A n \in Blocks : mcast_sq[n] = 0 /\ chain[n] = 0

\* The network makes progress.  Every packet sets the cutoff timer of its
\* receivers again, so that it need not fire before the multicasts stop.
Fairness ==
    \A n \in Blocks :
        /\ WF_vars(MulticastStep(n))
        /\ WF_vars(MulticastSilent /\ OnCutoffTimer(n))
        /\ WF_vars(RunMarkovMcast(n))
        /\ WF_vars(RecoveryStep(n))

LiveSpec == Spec /\ Fairness

-----------------------------------------------------------------------------
IsInRecovery(n) == rt[n].state = "Recovery"

TypeOK ==
    /\ strategy \in Strategies
    /\ \A n \in Blocks :
           /\ rt[n].state \in {"Multicast", "Recovery", "Finished"}
           /\ rt[n].recv \subseteq Chunks
           /\ rt[n].torecover \subseteq Blocks \ {n}
           /\ rt[n].rec_sent \subseteq Blocks
           /\ rt[n].completed_chains \in 0 .. m_roots
           /\ mcast_sq[n] \in 0 .. m_roots * PerBlockPacketCount
           /\ chain[n] \in 0 .. m_roots
           /\ acks[n] \in 0 .. m_nodes - 1

\* No assertion of AgApp and AgRuntime fails, in whatever order the messages of
\* the neighbours come: a request, its acknowledgement and the blocks find the
\* node that asks in the recovery phase, each block is one it still misses and
\* comes once, and the cutoff timer finds its node in the multicast phase.
NoAssertFails ==
    \A n \in Blocks :
        /\ request[n].stage = "sent" => IsInRecovery(n)
        /\ request[n].stage = "delivered" /\ request[n].empty => IsInRecovery(n)
        /\ \A i \in DOMAIN blocks[Left(n)] :
               /\ IsInRecovery(n)
               /\ blocks[Left(n)][i] \in rt[n].torecover
               /\ \A j \in DOMAIN blocks[Left(n)] : blocks[Left(n)][i] = blocks[Left(n)][j] => i = j
        /\ n \in m_timeout_ev => rt[n].state = "Multicast"

\* A node finishes only when it has every block and so has the neighbour that
\* it sends to, whose map of missing blocks it reads when an ACK comes in.
FinishesWithNeighbour ==
    \A n \in Blocks : rt[n].state = "Finished" =>
        /\ rt[n].torecover = {}
        /\ rt[Right(n)].state # "Multicast"
        /\ rt[Right(n)].torecover = {}

RegisteredEarly(n) == rt[n].has_recv_recover_req /\ rt[n].state = "Multicast"
AllFinished == \A n \in Blocks : rt[n].state = "Finished"

\* The allgather ends with every node finished, whatever is lost, if the
\* multicasts come to an end and no node gets the request of its neighbour
\* while it is still in the multicast phase.
Finishes ==
    <>[]MulticastSilent /\ [](\A n \in Blocks : ~RegisteredEarly(n)) => <>AllFinished

\* ag-runtime.cc:147 says of NotifyRecvRecoveryRequest: "It is possible that
\* the phase is still mcast, But we still need to register the request."  A
\* request that has been registered is not forgotten: when nothing more can
\* happen, the node has sent what it could.
RegisteredRequestIsServed ==
    \A n \in Blocks :
        /\ \A m \in Blocks : /\ m \notin m_timeout_ev
                            /\ request[m].stage = "completed"
                            /\ blocks[m] = << >> /\ acks[m] = 0
        /\ IsInRecovery(n)
        => ToSend(rt[n], rt[Right(n)]) = {}
=============================================================================
