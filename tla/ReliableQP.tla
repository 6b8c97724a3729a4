----------------------------- MODULE ReliableQP -----------------------------
(***************************************************************************)
(* One direction of a reliable (RC) RDMA connection: the send queue        *)
(* RdmaReliableSQ of one node, the receive queue RdmaReliableRQ of its     *)
(* peer, and the path between them.  The protocol is go-back-N on byte     *)
(* sequence numbers (PSNs): the sender asks for acknowledgements at chunk  *)
(* and message boundaries, the receiver answers with cumulative ACKs or    *)
(* with NACKs that carry the PSN it expects, and a retransmission timer    *)
(* covers the loss of either.                                              *)
(*                                                                         *)
(* A path delivers in order, because ECMP hashes the fixed addresses and   *)
(* ports of the connection, and may lose any packet.  It never duplicates  *)
(* one: duplicates come from the sender's rollbacks only.                  *)
(*                                                                         *)
(* Time is abstract: a running timer may fire at any moment.  The pacing   *)
(* delay m_nextAvail and the NIC's arbitration are delays of               *)
(* GetNextPacket.  The window is not modelled, since nothing calls         *)
(* SetWin, nor m_backto0, since nothing calls SetBackTo0.                  *)
(***************************************************************************)
EXTENDS Naturals, Sequences

CONSTANTS
    MTU,          \* m_mtu, in PSN units
    PayloadSizes, \* the payload sizes the application posts
    Chunk,        \* m_chunk; 0 disables
    AckInterval,  \* m_ack_interval; 0 disables
    PsnMod,       \* number of values of the 32-bit sequence number fields
    MaxPsn,       \* bound: the application stops posting at this PSN
    DataCap,      \* bound: data packets in flight
    AckCap        \* bound: ACKs and NACKs in flight

ASSUME ConstantsAssumption ==
    /\ MTU \in Nat \ {0}
    /\ PayloadSizes \subseteq Nat
    /\ Chunk \in Nat
    /\ AckInterval \in Nat
    /\ PsnMod \in Nat \ {0}
    /\ MaxPsn \in Nat
    /\ DataCap \in Nat
    /\ AckCap \in Nat

VARIABLES
    \* Send queue
    requests,            \* every SendRequest posted so far, by increasing PSN
    completed,           \* how many of them left m_to_send (on_send called)
    m_next_op_first_psn,
    m_snd_nxt,
    m_snd_una,
    highest_ack_psn,
    m_retr_to,           \* is the retransmission timer running?
    \* Receive queue
    ReceiverNextExpectedSeq,
    nack_elapsed,        \* Now() >= m_nackTimer
    m_lastNACK,
    delivered,           \* the immediates handed to m_onRecv, in order
    \* Path
    data,                \* data packets towards the receive queue
    acks                 \* ACKs and NACKs towards the send queue

sq_vars  == <<requests, completed, m_next_op_first_psn, m_snd_nxt, m_snd_una,
              highest_ack_psn, m_retr_to>>
rq_vars  == <<ReceiverNextExpectedSeq, nack_elapsed, m_lastNACK, delivered>>
vars     == <<sq_vars, rq_vars, data, acks>>

-----------------------------------------------------------------------------
(* Sequence numbers and send requests *)

\* Faulty variants, for mutation checks only.
PsnsOfUnfixed(payload)       == payload
IsExpectedOrDuplicate(seq)   == seq <= ReceiverNextExpectedSeq
IsExpectedOrAhead(seq)       == seq >= ReceiverNextExpectedSeq
IsAckedUnlessDuplicate(pkt)  == pkt.ackreq /\ pkt.seq >= ReceiverNextExpectedSeq
PopsUpToFirstPsn(n, una)     ==
    /\ \A i \in (completed + 1) .. n : requests[i].first_psn <= una
    /\ n < Len(requests) => una < requests[n + 1].first_psn

\* A 64-bit PSN stored in a 32-bit header field or a uint32_t.
Truncate(psn) == IF psn < PsnMod THEN psn ELSE psn % PsnMod

\* An empty payload counts for one byte.
PsnsOf(payload) == IF payload = 0 THEN 1 ELSE payload

EndPSN(sr) == sr.first_psn + sr.payload_size

\* The indices of the entries of m_to_send, in the order of their keys.
ToSend == (completed + 1) .. Len(requests)

CrossBoundary(chunksize, oldval, newval) ==
    oldval \div chunksize # newval \div chunksize

ShouldReqAck(size) ==
    \/ Chunk # 0 /\ CrossBoundary(Chunk, m_snd_nxt, m_snd_nxt + size)
    \/ AckInterval # 0 /\ CrossBoundary(AckInterval, m_snd_nxt, m_snd_nxt + size)

HasDataToSend == m_next_op_first_psn > m_snd_nxt /\ ToSend # {}

RequestsAckUnlessLast(size, last) == ShouldReqAck(size)    \* faulty variant

\* The AckReq bit of a packet, `last` if it ends its request.
RequestsAck(size, last) == last \/ ShouldReqAck(size)

\* m_to_send.upper_bound(m_snd_nxt) - 1 is the i-th request.
IsNextRequest(i) ==
    /\ requests[i].first_psn <= m_snd_nxt
    /\ \A j \in ToSend : requests[j].first_psn <= m_snd_nxt => j <= i

\* NotifyPendingCompEvents with `una` acknowledged pops the requests up to n.
PopsUpTo(n, una) ==
    /\ \A i \in (completed + 1) .. n : EndPSN(requests[i]) <= una
    /\ n < Len(requests) => una < EndPSN(requests[n + 1])

\* ReceiverCheckSeq returns 5.
IsExpected(seq) == seq = ReceiverNextExpectedSeq

\* A requested acknowledgement is sent for new data, duplicates and gaps alike.
IsAcked(pkt) == pkt.ackreq

-----------------------------------------------------------------------------
Init ==
    /\ requests = << >>
    /\ completed = 0
    /\ m_next_op_first_psn = 0
    /\ m_snd_nxt = 0
    /\ m_snd_una = 0
    /\ highest_ack_psn = 0
    /\ m_retr_to = FALSE
    /\ ReceiverNextExpectedSeq = 0
    /\ nack_elapsed = TRUE
    /\ m_lastNACK = 0
    /\ delivered = << >>
    /\ data = << >>
    /\ acks = << >>

\* The application posts a message.  Its immediate is its number, so that notifications can be told apart.
PostSend(payload) ==
    LET size == PsnsOf(payload)
    IN  /\ m_next_op_first_psn + size <= MaxPsn
        /\ requests' = Append(requests, [first_psn    |-> m_next_op_first_psn,
                                         payload_size |-> size,
                                         imm          |-> Len(requests) + 1])
        /\ m_next_op_first_psn' = m_next_op_first_psn + size
        /\ UNCHANGED <<completed, m_snd_nxt, m_snd_una, highest_ack_psn,
                       m_retr_to, rq_vars, data, acks>>

\* The NIC takes the next packet of the send queue and puts it on the link.
GetNextPacket ==
    /\ HasDataToSend
    /\ Len(data) < DataCap
    /\ \E i \in ToSend :
        /\ IsNextRequest(i)
        /\ LET sr     == requests[i]
               rem    == EndPSN(sr) - m_snd_nxt
               size   == IF MTU < rem THEN MTU ELSE rem
               last   == m_snd_nxt + size = EndPSN(sr)
               ackreq == RequestsAck(size, last)
           IN  /\ data' = Append(data, [seq    |-> Truncate(m_snd_nxt),
                                        size   |-> size,
                                        ackreq |-> ackreq,
                                        notif  |-> last,
                                        imm    |-> IF last THEN sr.imm ELSE 0])
               /\ m_snd_nxt' = m_snd_nxt + size
               /\ highest_ack_psn' = IF ackreq THEN m_snd_nxt + size
                                               ELSE highest_ack_psn
               /\ m_retr_to' = (m_retr_to \/ (ackreq /\ m_snd_nxt + size > m_snd_una))
    /\ UNCHANGED <<requests, completed, m_next_op_first_psn, m_snd_una, rq_vars, acks>>

\* The receive queue gets the data packet at the head of the path.
ReceiveUdp ==
    /\ data # << >>
    /\ Len(acks) < AckCap
    /\ LET pkt      == Head(data)
           expected == ReceiverNextExpectedSeq
           success  == IsExpected(pkt.seq)
           ahead    == pkt.seq > expected
           mayNack  == ahead /\ (nack_elapsed \/ m_lastNACK # expected)
           reply    == mayNack \/ IsAcked(pkt)
       IN  /\ ReceiverNextExpectedSeq' =
                  IF success THEN Truncate(expected + pkt.size) ELSE expected
           /\ nack_elapsed' = (nack_elapsed /\ ~mayNack)
           /\ m_lastNACK' = IF mayNack THEN expected ELSE m_lastNACK
           /\ acks' = IF reply
                      THEN Append(acks, [nack |-> ahead,
                                         seq  |-> ReceiverNextExpectedSeq'])
                      ELSE acks
           /\ delivered' = IF success /\ pkt.notif
                           THEN Append(delivered, pkt.imm) ELSE delivered
    /\ data' = Tail(data)
    /\ UNCHANGED sq_vars

\* m_snd_una moves to `una` and the requests it covers are completed.
AcknowledgeUpTo(una) ==
    /\ m_snd_una' = una
    /\ \E n \in completed .. Len(requests) : PopsUpTo(n, una) /\ completed' = n
    /\ UNCHANGED <<requests, m_next_op_first_psn>>

\* Faulty variants, for mutation checks only: m_snd_nxt is not raised to a late
\* ACK; it is lowered to an ACK; Rollback leaves the timer or highest_ack_psn.
AcknowledgeBelowNxt(psn) ==
    LET una == IF psn > m_snd_una THEN psn ELSE m_snd_una
    IN  /\ AcknowledgeUpTo(una)
        /\ m_retr_to' = (highest_ack_psn > una)
        /\ UNCHANGED <<m_snd_nxt, highest_ack_psn>>

AcknowledgeRewinds(psn) ==
    LET una == IF psn > m_snd_una THEN psn ELSE m_snd_una
    IN  /\ AcknowledgeUpTo(una)
        /\ m_snd_nxt' = una
        /\ m_retr_to' = (highest_ack_psn > una)
        /\ UNCHANGED highest_ack_psn

RecoverNackKeepsTimer(psn) ==
    LET una == IF psn > m_snd_una THEN psn ELSE m_snd_una
    IN  /\ AcknowledgeUpTo(una)
        /\ m_snd_nxt' = una
        /\ highest_ack_psn' = una
        /\ m_retr_to' = (highest_ack_psn > una)

RecoverNackKeepsHighest(psn) ==
    LET una == IF psn > m_snd_una THEN psn ELSE m_snd_una
    IN  /\ AcknowledgeUpTo(una)
        /\ m_snd_nxt' = una
        /\ m_retr_to' = (highest_ack_psn > una)
        /\ UNCHANGED highest_ack_psn

Acknowledge(psn) ==
    LET una == IF psn > m_snd_una THEN psn ELSE m_snd_una
    IN  /\ AcknowledgeUpTo(una)
        /\ m_snd_nxt' = IF una > m_snd_nxt THEN una ELSE m_snd_nxt
        /\ highest_ack_psn' = highest_ack_psn
        /\ m_retr_to' = (highest_ack_psn > una)

\* Acknowledge, then Rollback, whose own ScheduleRetrTimeout finds nothing in
\* flight and leaves the timer cancelled.
RecoverNack(psn) ==
    LET una == IF psn > m_snd_una THEN psn ELSE m_snd_una
    IN  /\ AcknowledgeUpTo(una)
        /\ m_snd_nxt' = una
        /\ highest_ack_psn' = una
        /\ m_retr_to' = FALSE

\* An ACK or a NACK reaches the send queue.  Acknowledge runs in both cases.
\* RecoverNack calls it again, which changes nothing more.
ReceiveAck ==
    /\ acks # << >>
    /\ LET ack == Head(acks)
       IN  IF ack.nack THEN RecoverNack(ack.seq) ELSE Acknowledge(ack.seq)
    /\ acks' = Tail(acks)
    /\ UNCHANGED <<rq_vars, data>>

OnRetrTimeout ==
    /\ m_retr_to
    /\ RecoverNack(m_snd_una)
    /\ UNCHANGED <<rq_vars, data, acks>>

\* m_nack_interval has passed since the last NACK the timer allowed.
NackTimerElapses ==
    /\ ~nack_elapsed
    /\ nack_elapsed' = TRUE
    /\ UNCHANGED <<sq_vars, ReceiverNextExpectedSeq, m_lastNACK, delivered, data, acks>>

\* A drop by a switch buffer or by the link's error model.  Packets behind the
\* head are lost when they get there.
LoseData ==
    /\ data # << >>
    /\ data' = Tail(data)
    /\ UNCHANGED <<sq_vars, rq_vars, acks>>

LoseAck ==
    /\ acks # << >>
    /\ acks' = Tail(acks)
    /\ UNCHANGED <<sq_vars, rq_vars, data>>

Lose == LoseData \/ LoseAck

\* Everything but loss.
Step ==
    \/ \E payload \in PayloadSizes : PostSend(payload)
    \/ GetNextPacket
    \/ ReceiveUdp
    \/ ReceiveAck
    \/ OnRetrTimeout
    \/ NackTimerElapses

Next == Step \/ Lose

Spec == Init /\ [][Next]_vars

-----------------------------------------------------------------------------
(* Properties *)

SendRequest == [first_psn: Nat, payload_size: Nat \ {0}, imm: Nat]
Packet == [seq: Nat, size: Nat \ {0}, ackreq: BOOLEAN, notif: BOOLEAN, imm: Nat]
Ack    == [nack: BOOLEAN, seq: Nat]

\* Every variable keeps the type its C++ declaration gives it.
TypeOK ==
    /\ requests \in Seq(SendRequest)
    /\ completed \in 0 .. Len(requests)
    /\ m_next_op_first_psn \in Nat
    /\ m_snd_nxt \in Nat
    /\ m_snd_una \in Nat
    /\ highest_ack_psn \in Nat
    /\ m_retr_to \in BOOLEAN
    /\ ReceiverNextExpectedSeq \in Nat
    /\ nack_elapsed \in BOOLEAN
    /\ m_lastNACK \in Nat
    /\ delivered \in Seq(Nat)
    /\ data \in Seq(Packet)
    /\ acks \in Seq(Ack)

\* The receiving application is notified of every message at most once, in
\* posting order, and with no gap, whatever was lost, retransmitted or
\* duplicated (ReceiverCheckSeq and the m_onRecv call of ReceiveUdp).
DeliveredInOrderOnce ==
    /\ Len(delivered) <= Len(requests)
    /\ \A k \in 1 .. Len(delivered) : delivered[k] = k

\* on_send is called for a message only when the peer has been notified of it:
\* a cumulative ACK never covers bytes that were not accepted, not even a late
\* one that arrives after a rollback.
CompletedWereDelivered == completed <= Len(delivered)

\* The three PSNs of the protocol stay ordered: nothing is acknowledged that
\* was not received, nothing is received that was not posted, and m_snd_nxt
\* never falls below m_snd_una (asserted by Rollback).
PsnOrder ==
    /\ m_snd_una <= ReceiverNextExpectedSeq
    /\ ReceiverNextExpectedSeq <= m_next_op_first_psn
    /\ m_snd_una <= m_snd_nxt
    /\ m_snd_nxt <= m_next_op_first_psn

\* The retransmission timer runs exactly while an acknowledgement that was
\* asked for is outstanding.  Not running then would stall the queue for ever,
\* running otherwise would cause a spurious rollback.
TimerGuardsAckRequests == m_retr_to <=> highest_ack_psn > m_snd_una

\* A queue with pending requests always has a way forward: bytes to send, or a
\* running timer.
NoSilentStall == ToSend # {} => HasDataToSend \/ m_retr_to

\* The assertions of GetNextPacket hold when the NIC calls it: a request
\* contains m_snd_nxt, bytes of it remain, and an acknowledgement request is
\* always for a PSN higher than the last one.
NextPacketExists ==
    HasDataToSend =>
        /\ \E i \in ToSend : IsNextRequest(i) /\ m_snd_nxt < EndPSN(requests[i])
        /\ m_snd_nxt >= highest_ack_psn

\* Cumulative acknowledgement never goes backwards, on either side, and only
\* the rollback of a NACK or of a timeout moves m_snd_nxt back.
Progress ==
    /\ m_snd_una' >= m_snd_una
    /\ ReceiverNextExpectedSeq' >= ReceiverNextExpectedSeq
    /\ m_snd_nxt' < m_snd_nxt => m_snd_nxt' = m_snd_una' /\ ~m_retr_to'
PsnsAdvance == [][Progress]_vars

\* The connection implements reliable, in-order, exactly-once delivery.
Reliable == INSTANCE ReliableDelivery
                WITH posted   <- Len(requests),
                     notified <- delivered,
                     finished <- completed
ImplementsReliableDelivery == Reliable!Spec
=============================================================================
