-------------------------- MODULE ReliableQPProofs --------------------------
(***************************************************************************)
(* The safety of the reliable queue pair, for every MTU, acknowledgement   *)
(* policy, set of payload sizes and network behaviour, as long as no more  *)
(* bytes are posted than the 32-bit sequence number can count.             *)
(***************************************************************************)
EXTENDS ReliableQP, SequenceTheorems, WellFoundedInduction, TLAPS

\* The PSNs of the connection fit the header field.
NoWrap == MaxPsn < PsnMod

-----------------------------------------------------------------------------
(* The inductive invariant *)

\* Requests tile the PSN space from 0 to m_next_op_first_psn, and carry their
\* numbers as immediates.
RequestsTile ==
    /\ m_next_op_first_psn <= MaxPsn
    /\ Len(requests) = 0 => m_next_op_first_psn = 0
    /\ Len(requests) > 0 => /\ requests[1].first_psn = 0
                            /\ EndPSN(requests[Len(requests)]) = m_next_op_first_psn
    /\ \A i \in 1 .. Len(requests) : requests[i].imm = i
    /\ \A i \in 1 .. Len(requests) : EndPSN(requests[i]) <= m_next_op_first_psn
    /\ \A i \in 1 .. Len(requests) : i + 1 <= Len(requests)
           => requests[i + 1].first_psn = EndPSN(requests[i])
    /\ \A i, j \in 1 .. Len(requests) : i < j
           => EndPSN(requests[i]) <= requests[j].first_psn

\* n is the number of requests whose bytes all lie below psn.
Covers(n, psn) ==
    /\ n \in 0 .. Len(requests)
    /\ n > 0 => EndPSN(requests[n]) <= psn
    /\ n < Len(requests) => psn < EndPSN(requests[n + 1])

\* A packet carries bytes of one request, and says whether they are its last.
Carries(pkt, i) ==
    /\ requests[i].first_psn <= pkt.seq
    /\ pkt.seq + pkt.size <= EndPSN(requests[i])
    /\ pkt.notif <=> pkt.seq + pkt.size = EndPSN(requests[i])
    /\ pkt.notif => pkt.imm = i

DataInv == \A k \in 1 .. Len(data) :
               \E i \in 1 .. Len(requests) : Carries(data[k], i)

AckInv == \A k \in 1 .. Len(acks) : acks[k].seq <= ReceiverNextExpectedSeq

DeliveryInv ==
    /\ Covers(Len(delivered), ReceiverNextExpectedSeq)
    /\ \A k \in 1 .. Len(delivered) : delivered[k] = k

\* Once everything posted is sent, an acknowledgement of all of it was asked.
HighestInv ==
    /\ highest_ack_psn <= m_snd_nxt
    /\ m_snd_nxt = m_next_op_first_psn /\ m_snd_una < m_snd_nxt
           => highest_ack_psn = m_snd_nxt

IInv ==
    /\ TypeOK
    /\ RequestsTile
    /\ PsnOrder
    /\ DataInv
    /\ AckInv
    /\ DeliveryInv
    /\ Covers(completed, m_snd_una)
    /\ HighestInv
    /\ TimerGuardsAckRequests

-----------------------------------------------------------------------------
(* Lemmas about the operators *)

LEMMA TruncateSmall ==
    ASSUME NEW psn \in Nat, psn < PsnMod
    PROVE  Truncate(psn) = psn
BY DEF Truncate

\* What the type invariant says of the elements of the three sequences.
LEMMA ElementTypes ==
    ASSUME TypeOK
    PROVE  /\ Len(requests) \in Nat /\ Len(data) \in Nat
           /\ Len(acks) \in Nat /\ Len(delivered) \in Nat
           /\ \A i \in 1 .. Len(requests) :
                  /\ requests[i].first_psn \in Nat
                  /\ requests[i].payload_size \in Nat \ {0}
                  /\ requests[i].imm \in Nat
           /\ \A k \in 1 .. Len(data) :
                  /\ data[k].seq \in Nat
                  /\ data[k].size \in Nat \ {0}
                  /\ data[k].ackreq \in BOOLEAN
                  /\ data[k].notif \in BOOLEAN
                  /\ data[k].imm \in Nat
           /\ \A k \in 1 .. Len(acks) :
                  acks[k].nack \in BOOLEAN /\ acks[k].seq \in Nat
<1>1. /\ requests \in Seq(SendRequest)
      /\ data \in Seq(Packet)
      /\ acks \in Seq(Ack)
      /\ delivered \in Seq(Nat)
  BY DEF TypeOK
<1>2. /\ Len(requests) \in Nat /\ Len(data) \in Nat
      /\ Len(acks) \in Nat /\ Len(delivered) \in Nat
  BY <1>1
<1>3. ASSUME NEW i \in 1 .. Len(requests)
      PROVE  /\ requests[i].first_psn \in Nat
             /\ requests[i].payload_size \in Nat \ {0}
             /\ requests[i].imm \in Nat
  <2>1. requests[i] \in SendRequest
    BY <1>1, ElementOfSeq
  <2>2. QED
    BY <2>1 DEF SendRequest
<1>4. ASSUME NEW k \in 1 .. Len(data)
      PROVE  /\ data[k].seq \in Nat
             /\ data[k].size \in Nat \ {0}
             /\ data[k].ackreq \in BOOLEAN
             /\ data[k].notif \in BOOLEAN
             /\ data[k].imm \in Nat
  <2>1. data[k] \in Packet
    BY <1>1, ElementOfSeq
  <2>2. QED
    BY <2>1 DEF Packet
<1>5. ASSUME NEW k \in 1 .. Len(acks)
      PROVE  acks[k].nack \in BOOLEAN /\ acks[k].seq \in Nat
  <2>1. acks[k] \in Ack
    BY <1>1, ElementOfSeq
  <2>2. QED
    BY <2>1 DEF Ack
<1>6. QED
  BY <1>2, <1>3, <1>4, <1>5

\* Of two numbers of requests, the one with its bytes below the smaller PSN is
\* the smaller one.
LEMMA CoversMonotonic ==
    ASSUME TypeOK, RequestsTile,
           NEW p \in Nat, NEW q \in Nat, p <= q,
           NEW m, Covers(m, p), NEW n, Covers(n, q)
    PROVE  m <= n
<1>1. /\ m \in 0 .. Len(requests)
      /\ n \in 0 .. Len(requests)
      /\ Len(requests) \in Nat
  BY DEF Covers, TypeOK
<1>2. \A i \in 1 .. Len(requests) :
          /\ requests[i].first_psn \in Nat /\ EndPSN(requests[i]) \in Nat
          /\ requests[i].first_psn < EndPSN(requests[i])
  <2> TAKE i \in 1 .. Len(requests)
  <2>1. requests[i].first_psn \in Nat /\ requests[i].payload_size \in Nat \ {0}
    BY ElementTypes
  <2>2. QED
    BY <2>1 DEF EndPSN
<1>3. SUFFICES ASSUME n < m PROVE FALSE
  BY <1>1
<1>4. /\ n + 1 \in 1 .. Len(requests)
      /\ m \in 1 .. Len(requests)
  BY <1>1, <1>3
<1>5. q < EndPSN(requests[n + 1]) /\ EndPSN(requests[m]) <= p
  BY <1>1, <1>3 DEF Covers
<1>6. CASE n + 1 = m
  BY <1>2, <1>4, <1>5, <1>6
<1>7. CASE n + 1 < m
  <2>1. EndPSN(requests[n + 1]) <= requests[m].first_psn
    BY <1>4, <1>7 DEF RequestsTile
  <2>2. /\ EndPSN(requests[n + 1]) \in Nat /\ EndPSN(requests[m]) \in Nat
        /\ requests[m].first_psn \in Nat
        /\ requests[m].first_psn < EndPSN(requests[m])
    BY <1>2, <1>4
  <2>3. QED
    BY <1>5, <2>1, <2>2
<1>8. QED
  BY <1>1, <1>3, <1>6, <1>7

\* The request that contains a byte is the one after those below it.
LEMMA CoversLocates ==
    ASSUME TypeOK, RequestsTile,
           NEW p \in Nat, NEW n, Covers(n, p),
           NEW i \in 1 .. Len(requests),
           requests[i].first_psn <= p, p < EndPSN(requests[i])
    PROVE  i = n + 1
<1>1. /\ n \in 0 .. Len(requests)
      /\ Len(requests) \in Nat
      /\ i \in Nat
  BY DEF Covers, TypeOK
<1>2. \A j \in 1 .. Len(requests) :
          /\ requests[j].first_psn \in Nat /\ EndPSN(requests[j]) \in Nat
          /\ requests[j].first_psn < EndPSN(requests[j])
  <2> TAKE j \in 1 .. Len(requests)
  <2>1. requests[j].first_psn \in Nat /\ requests[j].payload_size \in Nat \ {0}
    BY ElementTypes
  <2>2. QED
    BY <2>1 DEF EndPSN
<1>3. ASSUME i <= n PROVE FALSE
  <2>1. n \in 1 .. Len(requests) /\ EndPSN(requests[n]) <= p
    BY <1>1, <1>3 DEF Covers
  <2>2. CASE i = n
    BY <1>2, <2>1, <2>2
  <2>3. CASE i < n
    <3>1. EndPSN(requests[i]) <= requests[n].first_psn
      BY <2>1, <2>3 DEF RequestsTile
    <3>2. /\ EndPSN(requests[i]) \in Nat /\ EndPSN(requests[n]) \in Nat
          /\ requests[n].first_psn \in Nat
          /\ requests[n].first_psn < EndPSN(requests[n])
      BY <1>2, <2>1
    <3>3. QED
      BY <2>1, <3>1, <3>2
  <2>4. QED
    BY <1>1, <1>3, <2>2, <2>3
<1>4. ASSUME n + 1 < i PROVE FALSE
  <2>1. n + 1 \in 1 .. Len(requests) /\ p < EndPSN(requests[n + 1])
    BY <1>1, <1>4 DEF Covers
  <2>2. EndPSN(requests[n + 1]) <= requests[i].first_psn
    BY <1>4, <2>1 DEF RequestsTile
  <2>3. QED
    BY <1>2, <2>1, <2>2 DEF EndPSN
<1>5. QED
  BY <1>1, <1>3, <1>4

-----------------------------------------------------------------------------
(* The invariant is inductive *)

LEMMA InitInv == Init => IInv
<1> SUFFICES ASSUME Init PROVE IInv
  OBVIOUS
<1> USE DEF Init
<1>1. TypeOK
  <2>1. /\ << >> \in Seq(SendRequest)
        /\ << >> \in Seq(Nat)
        /\ << >> \in Seq(Packet)
        /\ << >> \in Seq(Ack)
        /\ Len(<< >>) = 0
    BY EmptySeq
  <2>2. completed \in 0 .. Len(requests)
    BY <2>1
  <2>3. m_retr_to \in BOOLEAN /\ nack_elapsed \in BOOLEAN
    OBVIOUS
  <2>4. QED
    BY <2>1, <2>2, <2>3, Zenon DEF TypeOK
<1>2. RequestsTile
  BY ConstantsAssumption, EmptySeq DEF RequestsTile
<1>3. PsnOrder /\ HighestInv /\ TimerGuardsAckRequests
  BY DEF PsnOrder, HighestInv, TimerGuardsAckRequests
<1>4. DataInv /\ AckInv
  BY EmptySeq DEF DataInv, AckInv
<1>5. DeliveryInv /\ Covers(completed, m_snd_una)
  BY EmptySeq DEF DeliveryInv, Covers
<1>6. QED
  BY <1>1, <1>2, <1>3, <1>4, <1>5 DEF IInv

LEMMA PostSendInv ==
    ASSUME IInv, NEW payload \in PayloadSizes, PostSend(payload)
    PROVE  IInv'
<1> DEFINE size == IF payload = 0 THEN 1 ELSE payload
           sr   == [first_psn    |-> m_next_op_first_psn,
                    payload_size |-> size,
                    imm          |-> Len(requests) + 1]
           L    == Len(requests)
<1> HIDE DEF size, sr
<1>1. /\ size \in Nat \ {0}
      /\ m_next_op_first_psn + size <= MaxPsn
      /\ requests' = Append(requests, sr)
      /\ m_next_op_first_psn' = m_next_op_first_psn + size
      /\ UNCHANGED <<completed, m_snd_nxt, m_snd_una, highest_ack_psn, m_retr_to,
                     ReceiverNextExpectedSeq, nack_elapsed, m_lastNACK, delivered,
                     data, acks>>
  BY ConstantsAssumption DEF PostSend, PsnsOf, size, sr, rq_vars
<1>2. TypeOK /\ RequestsTile /\ PsnOrder /\ DeliveryInv /\ Covers(completed, m_snd_una)
  BY DEF IInv
<1>3. /\ sr \in SendRequest
      /\ sr.first_psn = m_next_op_first_psn
      /\ sr.payload_size = size
      /\ sr.imm = L + 1
      /\ EndPSN(sr) = m_next_op_first_psn'
  BY <1>1, <1>2, ElementTypes DEF sr, SendRequest, EndPSN, TypeOK
<1>4. /\ requests' \in Seq(SendRequest)
      /\ L \in Nat
      /\ Len(requests') = L + 1
      /\ requests'[L + 1] = sr
      /\ \A i \in 1 .. L : requests'[i] = requests[i]
  BY <1>1, <1>2, <1>3 DEF TypeOK
<1>5. \A i \in 1 .. L : /\ requests[i].first_psn \in Nat
                        /\ requests[i].payload_size \in Nat
                        /\ EndPSN(requests[i]) \in Nat
  BY <1>2, ElementTypes DEF EndPSN
<1>6. TypeOK'
  BY <1>1, <1>2, <1>4 DEF TypeOK
<1>7. RequestsTile'
  <2>1. m_next_op_first_psn' \in Nat /\ m_next_op_first_psn \in Nat
    BY <1>1, <1>2 DEF TypeOK
  <2>2. L = 0 \/ L \in 1 .. L
    BY <1>4
  <2>3. (/\ m_next_op_first_psn <= MaxPsn
         /\ Len(requests) = 0 => m_next_op_first_psn = 0)'
    BY <1>1, <1>4
  <2>4. requests'[1].first_psn = 0
    BY <1>2, <1>3, <1>4, <2>2 DEF RequestsTile
  <2>5. ASSUME NEW i \in 1 .. L + 1
        PROVE  requests'[i].imm = i /\ EndPSN(requests'[i]) <= m_next_op_first_psn'
    <3>1. CASE i = L + 1
      BY <1>3, <1>4, <2>1, <3>1
    <3>2. CASE i \in 1 .. L
      BY <1>1, <1>2, <1>4, <1>5, <2>1, <3>2 DEF RequestsTile
    <3>3. QED
      BY <1>4, <3>1, <3>2
  <2>6. ASSUME NEW i \in 1 .. L + 1, i + 1 <= L + 1
        PROVE  requests'[i + 1].first_psn = EndPSN(requests'[i])
    <3>1. CASE i = L
      BY <1>2, <1>3, <1>4, <2>6, <3>1 DEF RequestsTile
    <3>2. CASE i + 1 \in 1 .. L
      <4>1. i \in 1 .. L
        BY <1>4, <3>2
      <4>2. requests[i + 1].first_psn = EndPSN(requests[i])
        BY <1>2, <1>4, <3>2, <4>1 DEF RequestsTile
      <4>3. requests'[i + 1] = requests[i + 1] /\ requests'[i] = requests[i]
        BY <1>4, <3>2, <4>1
      <4>4. QED
        BY <4>2, <4>3
    <3>3. QED
      BY <1>4, <2>6, <3>1, <3>2
  <2>7. ASSUME NEW i \in 1 .. L + 1, NEW j \in 1 .. L + 1, i < j
        PROVE  EndPSN(requests'[i]) <= requests'[j].first_psn
    <3>1. CASE j = L + 1
      BY <1>2, <1>3, <1>4, <2>7, <3>1 DEF RequestsTile
    <3>2. CASE i \in 1 .. L /\ j \in 1 .. L
      BY <1>2, <1>4, <2>7, <3>2 DEF RequestsTile
    <3>3. QED
      BY <1>4, <2>7, <3>1, <3>2
  <2>8. EndPSN(requests'[L + 1]) = m_next_op_first_psn'
    BY <1>3, <1>4
  <2>9. QED
    BY <1>4, <2>3, <2>4, <2>5, <2>6, <2>7, <2>8 DEF RequestsTile, EndPSN
<1>8. PsnOrder'
  BY <1>1, <1>2 DEF PsnOrder, TypeOK
<1>9. ASSUME NEW n, NEW psn \in Nat, Covers(n, psn), psn <= m_next_op_first_psn
      PROVE  /\ n \in 0 .. Len(requests')
             /\ n > 0 => EndPSN(requests'[n]) <= psn
             /\ n < Len(requests') => psn < EndPSN(requests'[n + 1])
  <2>1. n \in 0 .. L
    BY <1>9 DEF Covers
  <2>2. CASE n < L
    BY <1>4, <1>9, <2>1, <2>2 DEF Covers
  <2>3. CASE n = L
    <3>1. psn < EndPSN(requests'[n + 1])
      BY <1>1, <1>2, <1>3, <1>4, <1>9, <2>3 DEF TypeOK
    <3>2. n > 0 => EndPSN(requests'[n]) <= psn
      BY <1>4, <1>9, <2>3 DEF Covers
    <3>3. QED
      BY <1>4, <2>3, <3>1, <3>2
  <2>4. QED
    BY <1>4, <2>1, <2>2, <2>3
<1>10. DeliveryInv' /\ Covers(completed, m_snd_una)'
  <2>1. /\ m_snd_una \in Nat /\ ReceiverNextExpectedSeq \in Nat
        /\ m_snd_una <= m_next_op_first_psn
        /\ ReceiverNextExpectedSeq <= m_next_op_first_psn
    BY <1>2 DEF PsnOrder, TypeOK
  <2>2. Covers(completed, m_snd_una)'
    BY <1>1, <1>2, <1>9, <2>1 DEF Covers, EndPSN
  <2>3. Covers(Len(delivered), ReceiverNextExpectedSeq)'
    BY <1>1, <1>2, <1>9, <2>1 DEF Covers, EndPSN, DeliveryInv
  <2>4. QED
    BY <1>1, <1>2, <2>2, <2>3 DEF DeliveryInv
<1>11. DataInv'
  <2>1. ASSUME NEW k \in 1 .. Len(data')
        PROVE  \E i \in 1 .. Len(requests') : Carries(data[k], i)'
    <3>1. PICK i \in 1 .. L : Carries(data[k], i)
      BY <1>1, <2>1 DEF IInv, DataInv
    <3>2. i \in 1 .. Len(requests') /\ Carries(data[k], i)'
      BY <1>1, <1>4, <3>1 DEF Carries, EndPSN
    <3>3. QED
      BY <3>2
  <2>2. QED
    BY <2>1 DEF DataInv
<1>12. AckInv' /\ HighestInv' /\ TimerGuardsAckRequests'
  BY <1>1, <1>2 DEF IInv, AckInv, HighestInv, TimerGuardsAckRequests, PsnOrder, TypeOK
<1>13. QED
  BY <1>6, <1>7, <1>8, <1>10, <1>11, <1>12 DEF IInv

\* The packet GetNextPacket builds is a non-empty piece of one request.
LEMMA GetNextPacketInv ==
    ASSUME NoWrap, IInv, GetNextPacket
    PROVE  IInv' /\ m_snd_nxt < m_snd_nxt'
<1> DEFINE L == Len(requests)
<1>1. TypeOK /\ RequestsTile /\ PsnOrder /\ HighestInv /\ TimerGuardsAckRequests
  BY DEF IInv
<1>2. PICK i \in ToSend :
        /\ IsNextRequest(i)
        /\ LET sr     == requests[i]
               rem    == EndPSN(sr) - m_snd_nxt
               size   == IF MTU < rem THEN MTU ELSE rem
               last   == m_snd_nxt + size = EndPSN(sr)
               ackreq == last \/ ShouldReqAck(size)
           IN  /\ data' = Append(data, [seq    |-> Truncate(m_snd_nxt),
                                        size   |-> size,
                                        ackreq |-> ackreq,
                                        notif  |-> last,
                                        imm    |-> IF last THEN sr.imm ELSE 0])
               /\ m_snd_nxt' = m_snd_nxt + size
               /\ highest_ack_psn' = IF ackreq THEN m_snd_nxt + size
                                               ELSE highest_ack_psn
               /\ m_retr_to' = (m_retr_to \/ (ackreq /\ m_snd_nxt + size > m_snd_una))
  BY DEF GetNextPacket, RequestsAck
<1> DEFINE rem    == EndPSN(requests[i]) - m_snd_nxt
           size   == IF MTU < rem THEN MTU ELSE rem
           last   == m_snd_nxt + size = EndPSN(requests[i])
           ackreq == last \/ ShouldReqAck(size)
           pkt    == [seq    |-> Truncate(m_snd_nxt),
                      size   |-> size,
                      ackreq |-> ackreq,
                      notif  |-> last,
                      imm    |-> IF last THEN requests[i].imm ELSE 0]
<1>3. /\ data' = Append(data, pkt)
      /\ m_snd_nxt' = m_snd_nxt + size
      /\ highest_ack_psn' = IF ackreq THEN m_snd_nxt + size ELSE highest_ack_psn
      /\ m_retr_to' = (m_retr_to \/ (ackreq /\ m_snd_nxt + size > m_snd_una))
  BY <1>2
<1>4. /\ m_next_op_first_psn > m_snd_nxt
      /\ UNCHANGED <<requests, completed, m_next_op_first_psn, m_snd_una,
                     ReceiverNextExpectedSeq, nack_elapsed, m_lastNACK, delivered,
                     acks>>
  BY DEF GetNextPacket, HasDataToSend, rq_vars
<1>5. /\ L \in Nat /\ i \in 1 .. L /\ completed \in 0 .. L
      /\ m_snd_nxt \in Nat /\ m_snd_una \in Nat /\ m_next_op_first_psn \in Nat
      /\ requests[i].first_psn \in Nat
      /\ requests[i].payload_size \in Nat \ {0}
      /\ requests[i].imm = i
      /\ EndPSN(requests[i]) \in Nat
  <2>1. L \in Nat /\ completed \in 0 .. L /\ i \in 1 .. L
    BY <1>1, <1>2 DEF ToSend, TypeOK
  <2>2. /\ m_snd_nxt \in Nat /\ m_snd_una \in Nat /\ m_next_op_first_psn \in Nat
        /\ requests[i].imm = i
    BY <1>1, <2>1 DEF TypeOK, RequestsTile
  <2>3. /\ requests[i].first_psn \in Nat
        /\ requests[i].payload_size \in Nat \ {0}
    BY <1>1, <2>1, ElementTypes
  <2>4. QED
    BY <2>1, <2>2, <2>3 DEF EndPSN
<1>6. requests[i].first_psn <= m_snd_nxt /\ m_snd_nxt < EndPSN(requests[i])
  <2>1. requests[i].first_psn <= m_snd_nxt
    BY <1>2 DEF IsNextRequest
  <2>2. CASE i = L
    BY <1>1, <1>4, <1>5, <2>1, <2>2 DEF RequestsTile
  <2>3. CASE i + 1 <= L
    <3>1. i + 1 \in ToSend
      BY <1>2, <1>5, <2>3 DEF ToSend
    <3>2. ~(requests[i + 1].first_psn <= m_snd_nxt)
      BY <1>2, <1>5, <3>1 DEF IsNextRequest
    <3>3. requests[i + 1].first_psn = EndPSN(requests[i])
      BY <1>1, <1>5, <2>3 DEF RequestsTile
    <3>4. QED
      BY <1>5, <2>1, <3>2, <3>3
  <2>4. QED
    BY <1>5, <2>2, <2>3
<1>7. /\ size \in Nat \ {0}
      /\ m_snd_nxt + size <= EndPSN(requests[i])
      /\ EndPSN(requests[i]) <= m_next_op_first_psn
  BY <1>1, <1>5, <1>6, ConstantsAssumption DEF RequestsTile
<1>8. Truncate(m_snd_nxt) = m_snd_nxt
  BY <1>1, <1>4, <1>5, TruncateSmall, ConstantsAssumption DEF NoWrap, RequestsTile
<1>9. ackreq \in BOOLEAN /\ last \in BOOLEAN
  BY DEF ShouldReqAck, CrossBoundary
<1> HIDE DEF size, last, ackreq
<1>10. pkt \in Packet
  BY <1>5, <1>7, <1>8, <1>9 DEF Packet
<1>11. Carries(pkt, i)
  BY <1>5, <1>6, <1>7, <1>8 DEF Carries, last
<1>12. /\ data' \in Seq(Packet)
       /\ Len(data) \in Nat
       /\ Len(data') = Len(data) + 1
       /\ data'[Len(data) + 1] = pkt
       /\ \A k \in 1 .. Len(data) : data'[k] = data[k]
  <2>1. data \in Seq(Packet)
    BY <1>1 DEF TypeOK
  <2> HIDE DEF pkt
  <2>2. QED
    BY <1>3, <1>10, <2>1, AppendProperties
<1>13. TypeOK'
  BY <1>1, <1>3, <1>4, <1>5, <1>7, <1>9, <1>12 DEF TypeOK
<1>14. RequestsTile'
  BY <1>1, <1>4 DEF RequestsTile, EndPSN
<1>15. PsnOrder'
  BY <1>1, <1>3, <1>4, <1>5, <1>7 DEF PsnOrder
<1>16. DataInv'
  <2>1. ASSUME NEW k \in 1 .. Len(data')
        PROVE  \E j \in 1 .. Len(requests') : Carries(data[k], j)'
    <3>1. CASE k = Len(data) + 1
      <4>1. Carries(data'[k], i)
        BY <1>11, <1>12, <3>1
      <4>2. Carries(data[k], i)'
        BY <1>4, <4>1 DEF Carries, EndPSN
      <4>3. QED
        BY <1>4, <1>5, <4>2
    <3>2. CASE k \in 1 .. Len(data)
      <4>1. PICK j \in 1 .. L : Carries(data[k], j)
        BY <3>2 DEF IInv, DataInv
      <4>2. Carries(data[k], j)'
        BY <1>4, <1>12, <3>2, <4>1 DEF Carries, EndPSN
      <4>3. QED
        BY <1>4, <4>2
    <3>3. QED
      BY <1>12, <2>1, <3>1, <3>2
  <2>2. QED
    BY <2>1 DEF DataInv
<1>17. AckInv' /\ DeliveryInv' /\ Covers(completed, m_snd_una)'
  BY <1>4 DEF IInv, AckInv, DeliveryInv, Covers, EndPSN
<1>18. HighestInv'
  <2>1. highest_ack_psn \in Nat /\ highest_ack_psn <= m_snd_nxt
    BY <1>1 DEF TypeOK, HighestInv
  <2>2. highest_ack_psn' <= m_snd_nxt'
    BY <1>3, <1>5, <1>7, <2>1
  <2>3. ASSUME m_snd_nxt' = m_next_op_first_psn' PROVE last
    <3>1. m_snd_nxt + size = m_next_op_first_psn
      BY <1>3, <1>4, <2>3
    <3>2. m_next_op_first_psn = EndPSN(requests[i])
      BY <1>5, <1>7, <3>1
    <3>3. QED
      BY <3>1, <3>2 DEF last
  <2>4. last => highest_ack_psn' = m_snd_nxt'
    BY <1>3 DEF ackreq
  <2>5. QED
    BY <2>2, <2>3, <2>4 DEF HighestInv
<1>19. TimerGuardsAckRequests'
  <2>1. m_snd_nxt + size > m_snd_una
    BY <1>1, <1>5, <1>7 DEF PsnOrder
  <2>2. CASE ackreq
    BY <1>3, <1>4, <2>1, <2>2 DEF TimerGuardsAckRequests
  <2>3. CASE ~ackreq
    BY <1>1, <1>3, <1>4, <2>3 DEF TimerGuardsAckRequests
  <2>4. QED
    BY <2>2, <2>3
<1>20. m_snd_nxt < m_snd_nxt'
  BY <1>3, <1>5, <1>7
<1>21. QED
  BY <1>13, <1>14, <1>15, <1>16, <1>17, <1>18, <1>19, <1>20 DEF IInv

\* The receive queue accepts a packet only when it carries the next byte, and
\* then moves to its last one.
LEMMA ReceiveUdpInv ==
    ASSUME NoWrap, IInv, ReceiveUdp
    PROVE  /\ IInv'
           /\ ReceiverNextExpectedSeq <= ReceiverNextExpectedSeq'
           /\ \/ delivered' = delivered
              \/ /\ Len(delivered) < Len(requests)
                 /\ delivered' = Append(delivered, Len(delivered) + 1)
<1> DEFINE L        == Len(requests)
           d        == Len(delivered)
           pkt      == Head(data)
           expected == ReceiverNextExpectedSeq
           success  == pkt.seq = expected
           ahead    == pkt.seq > expected
           mayNack  == ahead /\ (nack_elapsed \/ m_lastNACK # expected)
           reply    == mayNack \/ pkt.ackreq
           ack      == [nack |-> ahead, seq |-> ReceiverNextExpectedSeq']
<1>1. TypeOK /\ RequestsTile /\ PsnOrder /\ DeliveryInv /\ DataInv /\ AckInv
  BY DEF IInv
<1>2. /\ data # << >>
      /\ expected' = IF success THEN Truncate(expected + pkt.size) ELSE expected
      /\ nack_elapsed' = (nack_elapsed /\ ~mayNack)
      /\ m_lastNACK' = IF mayNack THEN expected ELSE m_lastNACK
      /\ acks' = IF reply THEN Append(acks, ack) ELSE acks
      /\ delivered' = IF success /\ pkt.notif THEN Append(delivered, pkt.imm)
                                              ELSE delivered
      /\ data' = Tail(data)
  BY DEF ReceiveUdp, IsExpected, IsAcked
<1>3. UNCHANGED <<requests, completed, m_next_op_first_psn, m_snd_nxt, m_snd_una,
                  highest_ack_psn, m_retr_to>>
  BY DEF ReceiveUdp, sq_vars
<1>4. /\ L \in Nat /\ d \in Nat /\ expected \in Nat /\ m_next_op_first_psn \in Nat
      /\ expected <= m_next_op_first_psn /\ m_next_op_first_psn <= MaxPsn
      /\ m_lastNACK \in Nat /\ nack_elapsed \in BOOLEAN
      /\ MaxPsn \in Nat /\ PsnMod \in Nat /\ MaxPsn < PsnMod
  BY <1>1, ConstantsAssumption DEF TypeOK, PsnOrder, RequestsTile, NoWrap
<1>5. /\ 1 \in 1 .. Len(data)
      /\ pkt = data[1]
      /\ Len(data) \in Nat
      /\ data' \in Seq(Packet)
      /\ Len(data') = Len(data) - 1
      /\ \A k \in 1 .. Len(data') : k + 1 \in 1 .. Len(data) /\ data'[k] = data[k + 1]
  <2>1. data \in Seq(Packet)
    BY <1>1 DEF TypeOK
  <2>2. QED
    BY <1>2, <2>1
<1>6. /\ pkt.seq \in Nat /\ pkt.size \in Nat \ {0} /\ pkt.imm \in Nat
      /\ pkt.ackreq \in BOOLEAN /\ pkt.notif \in BOOLEAN
  BY <1>1, <1>5, ElementTypes
<1>7. PICK i \in 1 .. L : Carries(pkt, i)
  BY <1>1, <1>5 DEF DataInv
<1>8. /\ requests[i].first_psn \in Nat
      /\ requests[i].payload_size \in Nat \ {0}
      /\ EndPSN(requests[i]) \in Nat
      /\ EndPSN(requests[i]) <= m_next_op_first_psn
  <2>1. requests[i].first_psn \in Nat /\ requests[i].payload_size \in Nat \ {0}
    BY <1>1, <1>7, ElementTypes
  <2>2. QED
    BY <1>1, <1>7, <2>1 DEF RequestsTile, EndPSN
<1>9. ASSUME success
      PROVE  /\ i = d + 1
             /\ expected' = expected + pkt.size
             /\ expected' <= EndPSN(requests[i])
             /\ pkt.notif <=> expected' = EndPSN(requests[i])
             /\ pkt.notif => pkt.imm = i
  <2>1. /\ requests[i].first_psn <= expected
        /\ expected + pkt.size <= EndPSN(requests[i])
        /\ pkt.notif <=> expected + pkt.size = EndPSN(requests[i])
        /\ pkt.notif => pkt.imm = i
    BY <1>7, <1>9 DEF Carries
  <2>2. expected < EndPSN(requests[i])
    BY <1>4, <1>6, <1>8, <2>1
  <2>3. Covers(d, expected)
    BY <1>1 DEF DeliveryInv
  <2>4. i = d + 1
    BY <1>1, <1>4, <1>7, <2>1, <2>2, <2>3, CoversLocates
  <2>5. Truncate(expected + pkt.size) = expected + pkt.size
    BY <1>4, <1>6, <1>8, <2>1, TruncateSmall
  <2>6. QED
    BY <1>2, <1>9, <2>1, <2>4, <2>5
<1>10. /\ expected' \in Nat
       /\ expected <= expected'
       /\ expected' <= m_next_op_first_psn
  <2>1. CASE success
    <3>1. expected' = expected + pkt.size /\ expected' <= EndPSN(requests[i])
      BY <1>9, <2>1
    <3>2. expected \in Nat /\ pkt.size \in Nat
      BY <1>4, <1>6
    <3>3. /\ EndPSN(requests[i]) \in Nat /\ m_next_op_first_psn \in Nat
          /\ EndPSN(requests[i]) <= m_next_op_first_psn
      BY <1>4, <1>8
    <3>4. QED
      BY <3>1, <3>2, <3>3
  <2>2. CASE ~success
    BY <1>2, <1>4, <2>2
  <2>3. QED
    BY <2>1, <2>2
<1>11. /\ acks' \in Seq(Ack)
       /\ AckInv'
  <2>1. acks \in Seq(Ack) /\ Len(acks) \in Nat
    BY <1>1 DEF TypeOK
  <2>2. \A k \in 1 .. Len(acks) : acks[k].seq \in Nat /\ acks[k].seq <= expected
    BY <1>1, ElementTypes DEF AckInv
  <2>3. ack \in Ack /\ ack.seq = expected'
    BY <1>4, <1>6, <1>10 DEF Ack
  <2>4. CASE reply
    <3> HIDE DEF ack
    <3>1. /\ acks' \in Seq(Ack)
          /\ Len(acks') = Len(acks) + 1
          /\ acks'[Len(acks) + 1] = ack
          /\ \A k \in 1 .. Len(acks) : acks'[k] = acks[k]
      BY <1>2, <2>1, <2>3, <2>4, AppendProperties
    <3>2. ASSUME NEW k \in 1 .. Len(acks')
          PROVE  acks'[k].seq <= expected'
      <4>1. k = Len(acks) + 1 \/ k \in 1 .. Len(acks)
        BY <2>1, <3>1
      <4>2. CASE k = Len(acks) + 1
        BY <1>10, <2>3, <3>1, <4>2
      <4>3. CASE k \in 1 .. Len(acks)
        <5>1. acks'[k].seq \in Nat /\ acks'[k].seq <= expected /\ expected \in Nat
          BY <1>4, <2>2, <3>1, <4>3
        <5>2. QED
          BY <1>10, <5>1
      <4>4. QED
        BY <4>1, <4>2, <4>3
    <3>3. QED
      BY <3>1, <3>2 DEF AckInv
  <2>5. CASE ~reply
    <3>1. acks' = acks
      BY <1>2, <2>5
    <3>2. QED
      BY <1>4, <1>10, <2>1, <2>2, <3>1 DEF AckInv
  <2>6. QED
    BY <2>4, <2>5
<1>12. delivered' \in Seq(Nat) /\ DeliveryInv'
  <2>1. /\ delivered \in Seq(Nat)
        /\ Covers(d, expected)
        /\ \A k \in 1 .. d : delivered[k] = k
    BY <1>1 DEF TypeOK, DeliveryInv
  <2>2. CASE success /\ pkt.notif
    <3>1. /\ delivered' \in Seq(Nat)
          /\ Len(delivered') = d + 1
          /\ \A k \in 1 .. d + 1 : delivered'[k] = k
      <4>1. pkt.imm = d + 1 /\ delivered' = Append(delivered, pkt.imm)
        BY <1>2, <1>9, <2>2
      <4>2. QED
        BY <1>4, <1>6, <2>1, <4>1
    <3>2. i = d + 1 /\ expected' = EndPSN(requests[i])
      BY <1>9, <2>2
    <3>3. d + 1 < L => expected' < EndPSN(requests[d + 2])
      <4>1. SUFFICES ASSUME d + 1 < L PROVE expected' < EndPSN(requests[d + 2])
        OBVIOUS
      <4>2. d + 2 \in 1 .. L
        BY <1>4, <4>1
      <4>3. requests[d + 2].first_psn = EndPSN(requests[d + 1])
        BY <1>1, <1>4, <1>7, <3>2, <4>1 DEF RequestsTile
      <4>4. requests[d + 2].first_psn \in Nat /\ requests[d + 2].payload_size \in Nat \ {0}
        BY <1>1, <4>2, ElementTypes
      <4>5. QED
        BY <3>2, <4>3, <4>4 DEF EndPSN
    <3>4. Covers(d + 1, expected')
      <4>1. d + 1 \in 0 .. L
        BY <1>4, <1>7, <3>2
      <4>2. EndPSN(requests[d + 1]) <= expected'
        BY <1>8, <3>2
      <4>3. QED
        BY <1>4, <3>3, <4>1, <4>2 DEF Covers
    <3>5. Covers(Len(delivered), expected)'
      BY <1>3, <3>1, <3>4 DEF Covers, EndPSN
    <3>6. QED
      BY <3>1, <3>5 DEF DeliveryInv
  <2>3. CASE success /\ ~pkt.notif
    <3>1. i = d + 1 /\ expected' < EndPSN(requests[i])
      BY <1>8, <1>9, <1>10, <2>3
    <3>2. delivered' = delivered
      BY <1>2, <2>3
    <3>3. d > 0 => EndPSN(requests[d]) <= expected'
      <4>1. SUFFICES ASSUME d > 0 PROVE EndPSN(requests[d]) <= expected'
        OBVIOUS
      <4>2. d \in 1 .. L /\ EndPSN(requests[d]) <= expected
        BY <1>4, <2>1, <4>1 DEF Covers
      <4>3. requests[d].first_psn \in Nat /\ requests[d].payload_size \in Nat
        BY <1>1, <4>2, ElementTypes
      <4>4. QED
        BY <1>4, <1>10, <4>2, <4>3 DEF EndPSN
    <3>4. Covers(Len(delivered), expected)'
      BY <1>3, <2>1, <3>1, <3>2, <3>3 DEF Covers, EndPSN
    <3>5. QED
      BY <2>1, <3>2, <3>4 DEF DeliveryInv
  <2>4. CASE ~success
    <3>1. delivered' = delivered /\ expected' = expected
      BY <1>2, <2>4
    <3>2. Covers(Len(delivered), expected)'
      BY <1>3, <2>1, <3>1 DEF Covers, EndPSN
    <3>3. QED
      BY <2>1, <3>1, <3>2 DEF DeliveryInv
  <2>5. QED
    BY <2>2, <2>3, <2>4
<1>13. TypeOK'
  <2>1. m_lastNACK' \in Nat /\ nack_elapsed' \in BOOLEAN
    BY <1>2, <1>4
  <2>2. QED
    BY <1>1, <1>3, <1>5, <1>10, <1>11, <1>12, <2>1 DEF TypeOK
<1>14. DataInv'
  <2>1. ASSUME NEW k \in 1 .. Len(data')
        PROVE  \E j \in 1 .. Len(requests') : Carries(data[k], j)'
    <3>1. k + 1 \in 1 .. Len(data) /\ data'[k] = data[k + 1]
      BY <1>5, <2>1
    <3>2. PICK j \in 1 .. L : Carries(data[k + 1], j)
      BY <1>1, <3>1 DEF DataInv
    <3>3. Carries(data[k], j)'
      BY <1>3, <3>1, <3>2 DEF Carries, EndPSN
    <3>4. QED
      BY <1>3, <3>3
  <2>2. QED
    BY <2>1 DEF DataInv
<1>15. RequestsTile' /\ Covers(completed, m_snd_una)'
  BY <1>3 DEF IInv, RequestsTile, Covers, EndPSN
<1>16. PsnOrder'
  <2>1. m_snd_una \in Nat /\ m_snd_una <= expected
    BY <1>1 DEF TypeOK, PsnOrder
  <2>2. QED
    BY <1>1, <1>3, <1>4, <1>10, <2>1 DEF PsnOrder
<1>17. HighestInv' /\ TimerGuardsAckRequests'
  BY <1>3 DEF IInv, HighestInv, TimerGuardsAckRequests
<1>18. \/ delivered' = delivered
       \/ d < L /\ delivered' = Append(delivered, d + 1)
  <2>1. CASE success /\ pkt.notif
    BY <1>2, <1>4, <1>7, <1>9, <2>1
  <2>2. CASE ~(success /\ pkt.notif)
    BY <1>2, <2>2
  <2>3. QED
    BY <2>1, <2>2
<1>19. QED
  BY <1>10, <1>11, <1>12, <1>13, <1>14, <1>15, <1>16, <1>17, <1>18 DEF IInv

\* NotifyPendingCompEvents pops exactly the requests acknowledged up to una.
LEMMA AcknowledgeCovers ==
    ASSUME IInv, NEW una \in Nat, m_snd_una <= una, AcknowledgeUpTo(una)
    PROVE  /\ completed' \in 0 .. Len(requests)
           /\ completed <= completed'
           /\ Covers(completed, m_snd_una)'
           /\ UNCHANGED <<requests, m_next_op_first_psn>>
           /\ m_snd_una' = una
<1>1. TypeOK /\ Covers(completed, m_snd_una)
  BY DEF IInv
<1>2. PICK n \in completed .. Len(requests) : PopsUpTo(n, una) /\ completed' = n
  BY DEF AcknowledgeUpTo
<1>3. /\ completed \in 0 .. Len(requests) /\ Len(requests) \in Nat
      /\ m_snd_una \in Nat
  BY <1>1 DEF TypeOK
<1>4. n > 0 => EndPSN(requests[n]) <= una
  <2>1. CASE n = completed /\ n > 0
    <3>1. EndPSN(requests[n]) <= m_snd_una /\ n \in 1 .. Len(requests)
      BY <1>1, <1>3, <2>1 DEF Covers
    <3>2. requests[n].first_psn \in Nat /\ requests[n].payload_size \in Nat
      BY <1>1, <3>1, ElementTypes
    <3>3. QED
      BY <1>3, <3>1, <3>2 DEF EndPSN
  <2>2. CASE n \in (completed + 1) .. n
    BY <1>2, <2>2 DEF PopsUpTo
  <2>3. QED
    BY <1>2, <1>3, <2>1, <2>2
<1>5. n < Len(requests) => una < EndPSN(requests[n + 1])
  BY <1>2 DEF PopsUpTo
<1>6. UNCHANGED <<requests, m_next_op_first_psn>> /\ m_snd_una' = una
  BY DEF AcknowledgeUpTo
<1>7. n \in 0 .. Len(requests) /\ completed <= n
  BY <1>2, <1>3
<1>8. QED
  BY <1>2, <1>4, <1>5, <1>6, <1>7 DEF Covers, EndPSN

\* The parts of the invariant that the path and the receive queue keep when an
\* acknowledgement of `psn` is processed.
LEMMA AcknowledgeInv ==
    ASSUME IInv, NEW psn \in Nat, psn <= ReceiverNextExpectedSeq,
           Acknowledge(psn) \/ RecoverNack(psn),
           UNCHANGED <<rq_vars, data>>,
           acks' \in Seq(Ack), AckInv'
    PROVE  /\ IInv'
           /\ m_snd_una <= m_snd_una'
           /\ completed <= completed'
           /\ UNCHANGED requests
           /\ m_snd_nxt' < m_snd_nxt => m_snd_nxt' = m_snd_una' /\ ~m_retr_to'
<1> DEFINE una == IF psn > m_snd_una THEN psn ELSE m_snd_una
<1>1. TypeOK /\ RequestsTile /\ PsnOrder /\ HighestInv /\ TimerGuardsAckRequests
  BY DEF IInv
<1>2. /\ m_snd_una \in Nat /\ m_snd_nxt \in Nat /\ highest_ack_psn \in Nat
      /\ ReceiverNextExpectedSeq \in Nat /\ m_next_op_first_psn \in Nat
      /\ m_snd_una <= ReceiverNextExpectedSeq
      /\ ReceiverNextExpectedSeq <= m_next_op_first_psn
      /\ m_snd_una <= m_snd_nxt /\ m_snd_nxt <= m_next_op_first_psn
      /\ highest_ack_psn <= m_snd_nxt
  BY <1>1 DEF TypeOK, PsnOrder, HighestInv
<1>3. una \in Nat /\ m_snd_una <= una /\ una <= ReceiverNextExpectedSeq
  BY <1>2
<1>4. AcknowledgeUpTo(una)
  BY DEF Acknowledge, RecoverNack
<1>5. /\ completed' \in 0 .. Len(requests)
      /\ completed <= completed'
      /\ Covers(completed, m_snd_una)'
      /\ UNCHANGED <<requests, m_next_op_first_psn>>
      /\ m_snd_una' = una
  BY <1>3, <1>4, AcknowledgeCovers
<1>6. \/ /\ m_snd_nxt' = IF una > m_snd_nxt THEN una ELSE m_snd_nxt
         /\ highest_ack_psn' = highest_ack_psn
         /\ m_retr_to' = (highest_ack_psn > una)
      \/ /\ m_snd_nxt' = una
         /\ highest_ack_psn' = una
         /\ m_retr_to' = FALSE
  BY DEF Acknowledge, RecoverNack
<1> HIDE DEF una
<1>7. TypeOK'
  <2>1. m_snd_nxt' \in Nat /\ highest_ack_psn' \in Nat
    BY <1>2, <1>3, <1>6
  <2>2. m_retr_to' \in BOOLEAN
    <3>1. (highest_ack_psn > una) \in BOOLEAN
      OBVIOUS
    <3>2. m_retr_to' = (highest_ack_psn > una) \/ m_retr_to' = FALSE
      BY <1>6
    <3>3. QED
      BY <3>1, <3>2
  <2>3. QED
    BY <1>1, <1>3, <1>5, <2>1, <2>2 DEF TypeOK, rq_vars
<1>8. PsnOrder'
  BY <1>2, <1>3, <1>5, <1>6 DEF PsnOrder, rq_vars
<1>9. HighestInv'
  BY <1>1, <1>2, <1>3, <1>5, <1>6 DEF HighestInv
<1>10. TimerGuardsAckRequests'
  <2>1. CASE highest_ack_psn' = highest_ack_psn /\ m_retr_to' = (highest_ack_psn > una)
    BY <1>5, <2>1, Zenon DEF TimerGuardsAckRequests
  <2>2. CASE highest_ack_psn' = una /\ m_retr_to' = FALSE
    BY <1>3, <1>5, <2>2 DEF TimerGuardsAckRequests
  <2>3. QED
    BY <1>6, <2>1, <2>2
<1>11. RequestsTile' /\ DeliveryInv'
  BY <1>5 DEF IInv, RequestsTile, DeliveryInv, Covers, EndPSN, rq_vars
<1>12. DataInv'
  BY <1>5 DEF IInv, DataInv, Carries, EndPSN
<1>13. m_snd_nxt' < m_snd_nxt => m_snd_nxt' = m_snd_una' /\ ~m_retr_to'
  BY <1>2, <1>3, <1>5, <1>6
<1>14. QED
  BY <1>3, <1>5, <1>7, <1>8, <1>9, <1>10, <1>11, <1>12, <1>13 DEF IInv

LEMMA ReceiveAckInv ==
    ASSUME IInv, ReceiveAck
    PROVE  /\ IInv'
           /\ m_snd_una <= m_snd_una'
           /\ completed <= completed'
           /\ UNCHANGED <<requests, rq_vars>>
           /\ m_snd_nxt' < m_snd_nxt => m_snd_nxt' = m_snd_una' /\ ~m_retr_to'
<1>1. TypeOK /\ AckInv
  BY DEF IInv
<1>2. /\ acks # << >> /\ acks' = Tail(acks)
      /\ UNCHANGED <<rq_vars, data>>
      /\ Acknowledge(Head(acks).seq) \/ RecoverNack(Head(acks).seq)
  BY DEF ReceiveAck
<1>3. /\ acks' \in Seq(Ack)
      /\ 1 \in 1 .. Len(acks) /\ Head(acks) = acks[1]
      /\ \A k \in 1 .. Len(acks') : k + 1 \in 1 .. Len(acks) /\ acks'[k] = acks[k + 1]
  <2>1. acks \in Seq(Ack)
    BY <1>1 DEF TypeOK
  <2>2. QED
    BY <1>2, <2>1
<1>4. Head(acks).seq \in Nat /\ Head(acks).seq <= ReceiverNextExpectedSeq
  BY <1>1, <1>3, ElementTypes DEF AckInv
<1>5. AckInv'
  BY <1>1, <1>2, <1>3 DEF AckInv, rq_vars
<1>6. QED
  BY <1>2, <1>3, <1>4, <1>5, AcknowledgeInv

LEMMA OnRetrTimeoutInv ==
    ASSUME IInv, OnRetrTimeout
    PROVE  /\ IInv'
           /\ m_snd_una <= m_snd_una'
           /\ completed <= completed'
           /\ UNCHANGED <<requests, rq_vars>>
           /\ m_snd_nxt' < m_snd_nxt => m_snd_nxt' = m_snd_una' /\ ~m_retr_to'
<1>1. TypeOK /\ PsnOrder /\ AckInv
  BY DEF IInv
<1>2. /\ RecoverNack(m_snd_una)
      /\ UNCHANGED <<rq_vars, data, acks>>
  BY DEF OnRetrTimeout
<1>3. m_snd_una \in Nat /\ m_snd_una <= ReceiverNextExpectedSeq
  BY <1>1 DEF TypeOK, PsnOrder
<1>4. acks' \in Seq(Ack) /\ AckInv'
  BY <1>1, <1>2 DEF TypeOK, AckInv, rq_vars
<1>5. QED
  BY <1>2, <1>3, <1>4, AcknowledgeInv

\* Losing packets or the NACK interval passing disturbs nothing.
LEMMA PathInv ==
    ASSUME IInv, Lose \/ NackTimerElapses \/ UNCHANGED vars
    PROVE  IInv'
<1>1. UNCHANGED <<sq_vars, ReceiverNextExpectedSeq, m_lastNACK, delivered>>
  BY DEF Lose, LoseData, LoseAck, NackTimerElapses, vars, rq_vars
<1>2. TypeOK /\ DataInv /\ AckInv
  BY DEF IInv
<1>3. nack_elapsed' \in BOOLEAN
  BY <1>2 DEF Lose, LoseData, LoseAck, NackTimerElapses, vars, rq_vars, TypeOK
<1>4. /\ data \in Seq(Packet) /\ acks \in Seq(Ack)
      /\ data' = data \/ (data # << >> /\ data' = Tail(data))
      /\ acks' = acks \/ (acks # << >> /\ acks' = Tail(acks))
  BY <1>2 DEF Lose, LoseData, LoseAck, NackTimerElapses, vars, TypeOK
<1>5. /\ data' \in Seq(Packet)
      /\ \A k \in 1 .. Len(data') : \E m \in 1 .. Len(data) : data'[k] = data[m]
  <2>1. CASE data' = data
    BY <1>4, <2>1
  <2>2. CASE data # << >> /\ data' = Tail(data)
    <3>1. \A k \in 1 .. Len(data') : k + 1 \in 1 .. Len(data) /\ data'[k] = data[k + 1]
      BY <1>4, <2>2
    <3>2. QED
      BY <1>4, <2>2, <3>1
  <2>3. QED
    BY <1>4, <2>1, <2>2
<1>6. /\ acks' \in Seq(Ack)
      /\ \A k \in 1 .. Len(acks') : \E m \in 1 .. Len(acks) : acks'[k] = acks[m]
  <2>1. CASE acks' = acks
    BY <1>4, <2>1
  <2>2. CASE acks # << >> /\ acks' = Tail(acks)
    <3>1. \A k \in 1 .. Len(acks') : k + 1 \in 1 .. Len(acks) /\ acks'[k] = acks[k + 1]
      BY <1>4, <2>2
    <3>2. QED
      BY <1>4, <2>2, <3>1
  <2>3. QED
    BY <1>4, <2>1, <2>2
<1>7. TypeOK'
  BY <1>1, <1>2, <1>3, <1>5, <1>6 DEF TypeOK, sq_vars
<1>8. DataInv'
  <2>1. ASSUME NEW k \in 1 .. Len(data')
        PROVE  \E j \in 1 .. Len(requests') : Carries(data[k], j)'
    <3>1. PICK m \in 1 .. Len(data) : data'[k] = data[m]
      BY <1>5, <2>1
    <3>2. PICK j \in 1 .. Len(requests) : Carries(data[m], j)
      BY <1>2, <3>1 DEF DataInv
    <3>3. Carries(data[k], j)'
      BY <1>1, <3>1, <3>2 DEF Carries, EndPSN, sq_vars
    <3>4. QED
      BY <1>1, <3>3 DEF sq_vars
  <2>2. QED
    BY <2>1 DEF DataInv
<1>9. AckInv'
  BY <1>1, <1>2, <1>6 DEF AckInv
<1>10. RequestsTile' /\ DeliveryInv' /\ Covers(completed, m_snd_una)'
  BY <1>1 DEF IInv, RequestsTile, DeliveryInv, Covers, EndPSN, sq_vars
<1>11. PsnOrder' /\ HighestInv' /\ TimerGuardsAckRequests'
  BY <1>1 DEF IInv, PsnOrder, HighestInv, TimerGuardsAckRequests, sq_vars
<1>12. QED
  BY <1>7, <1>8, <1>9, <1>10, <1>11 DEF IInv

LEMMA NextInv ==
    ASSUME NoWrap, IInv, [Next]_vars
    PROVE  IInv'
<1>1. ASSUME NEW payload \in PayloadSizes, PostSend(payload) PROVE IInv'
  BY <1>1, PostSendInv
<1>2. CASE GetNextPacket
  BY <1>2, GetNextPacketInv
<1>3. CASE ReceiveUdp
  BY <1>3, ReceiveUdpInv
<1>4. CASE ReceiveAck
  BY <1>4, ReceiveAckInv
<1>5. CASE OnRetrTimeout
  BY <1>5, OnRetrTimeoutInv
<1>6. CASE Lose \/ NackTimerElapses \/ UNCHANGED vars
  BY <1>6, PathInv
<1>7. QED
  BY <1>1, <1>2, <1>3, <1>4, <1>5, <1>6 DEF Next, Step

THEOREM InductiveInvariant == ASSUME NoWrap PROVE Spec => []IInv
<1>1. Init => IInv
  BY InitInv
<1>2. IInv /\ [Next]_vars => IInv'
  BY NextInv
<1>3. QED
  BY <1>1, <1>2, PTL DEF Spec

-----------------------------------------------------------------------------
(* The properties *)

\* Variables keep their types, and with them every packet built by
\* GetNextPacket has a positive size.
THEOREM TypeCorrect == ASSUME NoWrap PROVE Spec => []TypeOK
<1>1. IInv => TypeOK
  BY DEF IInv
<1>2. QED
  BY <1>1, InductiveInvariant, PTL

\* Every message is delivered at most once and in order.
THEOREM DeliveryCorrect == ASSUME NoWrap PROVE Spec => []DeliveredInOrderOnce
<1>1. IInv => DeliveredInOrderOnce
  BY DEF IInv, TypeOK, DeliveryInv, Covers, DeliveredInOrderOnce
<1>2. QED
  BY <1>1, InductiveInvariant, PTL

LEMMA CompletedBelowDelivered == IInv => CompletedWereDelivered
<1> SUFFICES ASSUME IInv PROVE CompletedWereDelivered
  OBVIOUS
<1>1. /\ TypeOK /\ RequestsTile
      /\ m_snd_una \in Nat /\ ReceiverNextExpectedSeq \in Nat
      /\ m_snd_una <= ReceiverNextExpectedSeq
      /\ Covers(completed, m_snd_una)
      /\ Covers(Len(delivered), ReceiverNextExpectedSeq)
  BY DEF IInv, TypeOK, PsnOrder, DeliveryInv
<1>2. QED
  BY <1>1, CoversMonotonic DEF CompletedWereDelivered

\* on_send is called only for messages the peer was notified of.
THEOREM CompletionCorrect == ASSUME NoWrap PROVE Spec => []CompletedWereDelivered
BY CompletedBelowDelivered, InductiveInvariant, PTL

\* The send and receive PSNs stay ordered.
THEOREM PsnsOrdered == ASSUME NoWrap PROVE Spec => []PsnOrder
<1>1. IInv => PsnOrder
  BY DEF IInv
<1>2. QED
  BY <1>1, InductiveInvariant, PTL

\* The timer runs exactly while a requested acknowledgement is outstanding.
THEOREM TimerCorrect == ASSUME NoWrap PROVE Spec => []TimerGuardsAckRequests
<1>1. IInv => TimerGuardsAckRequests
  BY DEF IInv
<1>2. QED
  BY <1>1, InductiveInvariant, PTL

\* A queue with pending requests can send, or will time out.
THEOREM NeverStalls == ASSUME NoWrap PROVE Spec => []NoSilentStall
<1>1. ASSUME IInv, ToSend # {}, ~HasDataToSend PROVE m_retr_to
  <2>1. /\ TypeOK /\ RequestsTile /\ PsnOrder /\ HighestInv
        /\ Covers(completed, m_snd_una) /\ TimerGuardsAckRequests
    BY <1>1 DEF IInv
  <2>2. /\ completed \in 0 .. Len(requests) /\ Len(requests) \in Nat
        /\ m_snd_una \in Nat /\ m_snd_nxt \in Nat /\ m_next_op_first_psn \in Nat
    BY <2>1 DEF TypeOK
  <2>3. completed < Len(requests) /\ completed + 1 \in 1 .. Len(requests)
    BY <1>1, <2>2 DEF ToSend
  <2>4. m_snd_nxt = m_next_op_first_psn
    BY <1>1, <2>1, <2>2 DEF HasDataToSend, PsnOrder
  <2>5. requests[completed + 1].first_psn \in Nat /\ requests[completed + 1].payload_size \in Nat
    BY <2>1, <2>3, ElementTypes
  <2>6. m_snd_una < m_next_op_first_psn
    BY <2>1, <2>2, <2>3, <2>5 DEF Covers, RequestsTile, EndPSN
  <2>7. highest_ack_psn > m_snd_una
    BY <2>1, <2>2, <2>4, <2>6 DEF HighestInv
  <2>8. QED
    BY <2>1, <2>7 DEF TimerGuardsAckRequests
<1>2. IInv => NoSilentStall
  BY <1>1 DEF NoSilentStall
<1>3. QED
  BY <1>2, InductiveInvariant, PTL

\* Acknowledgements never go backwards, and m_snd_nxt does only in a rollback.
THEOREM PsnsNeverRegress == ASSUME NoWrap PROVE Spec => PsnsAdvance
<1>1. ASSUME IInv, [Next]_vars PROVE [Progress]_vars
  <2>1. m_snd_una \in Nat /\ m_snd_nxt \in Nat /\ ReceiverNextExpectedSeq \in Nat
    BY <1>1 DEF IInv, TypeOK
  <2>2. CASE GetNextPacket
    <3>1. m_snd_nxt < m_snd_nxt' /\ m_snd_nxt' \in Nat
      BY <1>1, <2>2, GetNextPacketInv DEF IInv, TypeOK
    <3>2. UNCHANGED <<m_snd_una, ReceiverNextExpectedSeq>>
      BY <2>2 DEF GetNextPacket, rq_vars
    <3>3. QED
      BY <2>1, <3>1, <3>2 DEF Progress
  <2>3. CASE ReceiveUdp
    <3>1. ReceiverNextExpectedSeq <= ReceiverNextExpectedSeq'
      BY <1>1, <2>3, ReceiveUdpInv
    <3>2. ReceiverNextExpectedSeq' \in Nat
      BY <1>1, NextInv DEF IInv, TypeOK
    <3>3. UNCHANGED <<m_snd_una, m_snd_nxt>>
      BY <2>3 DEF ReceiveUdp, sq_vars
    <3>4. QED
      BY <2>1, <3>1, <3>2, <3>3 DEF Progress
  <2>4. CASE ReceiveAck \/ OnRetrTimeout
    <3>1. /\ m_snd_una <= m_snd_una'
          /\ UNCHANGED rq_vars
          /\ m_snd_nxt' < m_snd_nxt => m_snd_nxt' = m_snd_una' /\ ~m_retr_to'
      BY <1>1, <2>4, ReceiveAckInv, OnRetrTimeoutInv
    <3>2. m_snd_una' \in Nat
      BY <1>1, NextInv DEF IInv, TypeOK
    <3>3. QED
      BY <2>1, <3>1, <3>2 DEF Progress, rq_vars
  <2>5. CASE /\ ~GetNextPacket /\ ~ReceiveUdp /\ ~ReceiveAck /\ ~OnRetrTimeout
    <3>1. UNCHANGED <<m_snd_una, m_snd_nxt, ReceiverNextExpectedSeq>>
      BY <1>1, <2>5 DEF Next, Step, PostSend, NackTimerElapses, Lose, LoseData, LoseAck,
                        vars, sq_vars, rq_vars
    <3>2. QED
      BY <2>1, <3>1 DEF Progress
  <2>6. QED
    BY <2>2, <2>3, <2>4, <2>5
<1>2. QED
  BY <1>1, InductiveInvariant, PTL DEF Spec, PsnsAdvance

\* The connection implements reliable, in-order, exactly-once delivery.
THEOREM Refinement == ASSUME NoWrap PROVE Spec => ImplementsReliableDelivery
<1>1. Init => Reliable!Init
  <2>1. Len(<< >>) = 0
    OBVIOUS
  <2>2. QED
    BY <2>1 DEF Init, Reliable!Init
<1>2. ASSUME IInv, [Next]_vars PROVE [Reliable!Next]_Reliable!avars
  <2>1. IInv' /\ TypeOK
    BY <1>1, <1>2, NextInv DEF IInv
  <2>2. ASSUME NEW payload \in PayloadSizes, PostSend(payload)
        PROVE  Reliable!Post
    <3>1. UNCHANGED <<delivered, completed>>
      BY <2>2 DEF PostSend, rq_vars
    <3>2. \E sr : requests' = Append(requests, sr)
      BY <2>2 DEF PostSend
    <3>3. Len(requests') = Len(requests) + 1
      BY <2>1, <3>2 DEF TypeOK
    <3>4. QED
      BY <3>1, <3>3 DEF Reliable!Post
  <2>3. CASE ReceiveUdp
    <3>1. UNCHANGED <<requests, completed>>
      BY <2>3 DEF ReceiveUdp, sq_vars
    <3>2. \/ delivered' = delivered
          \/ /\ Len(delivered) < Len(requests)
             /\ delivered' = Append(delivered, Len(delivered) + 1)
      BY <1>2, <2>3, ReceiveUdpInv
    <3>3. QED
      BY <3>1, <3>2 DEF Reliable!Next, Reliable!Notify, Reliable!avars
  <2>4. CASE ReceiveAck \/ OnRetrTimeout
    <3>1. /\ completed <= completed'
          /\ UNCHANGED <<requests, delivered>>
      BY <1>2, <2>4, ReceiveAckInv, OnRetrTimeoutInv DEF rq_vars
    <3>2. /\ completed \in Nat /\ completed' \in Nat /\ Len(delivered) \in Nat
      BY <2>1, ElementTypes DEF IInv, TypeOK
    <3>3. completed' <= Len(delivered)
      <4>1. CompletedWereDelivered'
        BY <2>1, CompletedBelowDelivered, PTL
      <4>2. QED
        BY <3>1, <4>1 DEF CompletedWereDelivered
    <3>4. completed' = completed \/ completed' \in (completed + 1) .. Len(delivered)
      BY <3>1, <3>2, <3>3
    <3>5. QED
      BY <3>1, <3>4 DEF Reliable!Next, Reliable!Finish, Reliable!avars
  <2>5. CASE GetNextPacket \/ NackTimerElapses \/ Lose \/ UNCHANGED vars
    <3>1. UNCHANGED <<requests, completed, delivered>>
      BY <2>5 DEF GetNextPacket, NackTimerElapses, Lose, LoseData, LoseAck, vars,
                  sq_vars, rq_vars
    <3>2. QED
      BY <3>1 DEF Reliable!avars
  <2>6. QED
    BY <1>2, <2>2, <2>3, <2>4, <2>5 DEF Next, Step, Reliable!Next
<1>3. QED
  BY <1>1, <1>2, InductiveInvariant, PTL
     DEF Spec, ImplementsReliableDelivery, Reliable!Spec

LEMMA LeastNumber ==
    ASSUME NEW T, T \subseteq Nat, T # {}
    PROVE  \E m \in T : \A n \in T : m <= n
<1> DEFINE R == OpToRel(<, Nat)
<1>1. IsWellFoundedOn(R, Nat)
  BY NatLessThanWellFounded
<1> HIDE DEF R
<1>2. PICK m \in T : \A n \in T : ~(<<n, m>> \in R)
  BY <1>1, WFMin
<1>3. ASSUME NEW n \in T PROVE m <= n
  <2>1. n \in Nat /\ m \in Nat /\ ~(<<n, m>> \in R)
    BY <1>2
  <2>2. ~(n < m)
    BY <2>1 DEF R, OpToRel
  <2>3. QED
    BY <2>1, <2>2
<1>4. QED
  BY <1>2, <1>3

\* The assertions of GetNextPacket hold: it always finds the request to send
\* from, and never asks for an acknowledgement it already asked for.
THEOREM NextPacketFound == ASSUME NoWrap PROVE Spec => []NextPacketExists
<1>1. ASSUME IInv, HasDataToSend PROVE NextPacketExists
  <2> DEFINE L == Len(requests)
             T == {j \in ToSend : requests[j].first_psn > m_snd_nxt}
  <2>1. /\ TypeOK /\ RequestsTile /\ PsnOrder
        /\ Covers(completed, m_snd_una)
        /\ m_snd_nxt \in Nat /\ m_snd_una \in Nat /\ m_next_op_first_psn \in Nat
        /\ m_snd_una <= m_snd_nxt /\ m_snd_nxt < m_next_op_first_psn
        /\ L \in Nat /\ completed \in 0 .. L
        /\ highest_ack_psn \in Nat /\ highest_ack_psn <= m_snd_nxt
    BY <1>1 DEF IInv, TypeOK, HasDataToSend, PsnOrder, HighestInv
  <2>2. completed + 1 \in 1 .. L /\ completed < L
    BY <1>1, <2>1 DEF HasDataToSend, ToSend
  <2>3. \A j \in 1 .. L : requests[j].first_psn \in Nat /\ requests[j].payload_size \in Nat \ {0}
    BY <2>1, ElementTypes
  <2>4. requests[completed + 1].first_psn <= m_snd_nxt
    <3>1. CASE completed = 0
      BY <2>1, <2>2, <3>1 DEF RequestsTile
    <3>2. CASE completed > 0
      <4>1. completed \in 1 .. L /\ EndPSN(requests[completed]) <= m_snd_una
        BY <2>1, <3>2 DEF Covers
      <4>2. requests[completed + 1].first_psn = EndPSN(requests[completed])
        BY <2>1, <2>2, <4>1 DEF RequestsTile
      <4>3. QED
        BY <2>1, <2>3, <4>1, <4>2 DEF EndPSN
    <3>3. QED
      BY <2>1, <3>1, <3>2
  <2>5. \E i \in ToSend : IsNextRequest(i) /\ m_snd_nxt < EndPSN(requests[i])
    <3>1. CASE T = {}
      <4>1. L \in ToSend /\ L \in 1 .. L
        BY <2>1, <2>2 DEF ToSend
      <4>2. requests[L].first_psn <= m_snd_nxt
        BY <2>1, <2>3, <3>1, <4>1
      <4>3. EndPSN(requests[L]) = m_next_op_first_psn
        BY <2>1, <4>1 DEF RequestsTile
      <4>4. QED
        BY <2>1, <4>1, <4>2, <4>3 DEF IsNextRequest, ToSend
    <3>2. CASE T # {}
      <4>1. T \subseteq Nat
        BY <2>1 DEF ToSend
      <4>2. PICK m \in T : \A n \in T : m <= n
        BY <3>2, <4>1, LeastNumber
      <4>3. /\ m \in (completed + 1) .. L
            /\ m # completed + 1
            /\ requests[m].first_psn > m_snd_nxt
        BY <2>1, <2>2, <2>3, <2>4, <4>2 DEF ToSend
      <4>4. m - 1 \in ToSend /\ m - 1 \in 1 .. L /\ m - 1 < m
        BY <2>1, <4>3 DEF ToSend
      <4>5. m - 1 \notin T
        BY <2>1, <4>2, <4>3, <4>4
      <4>6. requests[m - 1].first_psn <= m_snd_nxt
        BY <2>1, <2>3, <4>4, <4>5
      <4>7. requests[m].first_psn = EndPSN(requests[m - 1])
        BY <2>1, <4>3, <4>4 DEF RequestsTile
      <4>8. ASSUME NEW j \in ToSend, requests[j].first_psn <= m_snd_nxt
            PROVE  j <= m - 1
        <5>1. SUFFICES ASSUME m <= j PROVE FALSE
          BY <2>1, <4>3 DEF ToSend
        <5>2. j \in 1 .. L /\ m \in 1 .. L
          BY <2>1, <4>3 DEF ToSend
        <5>3. CASE m = j
          BY <2>1, <2>3, <4>3, <4>8, <5>2, <5>3
        <5>4. CASE m < j
          <6>1. EndPSN(requests[m]) <= requests[j].first_psn
            BY <2>1, <5>2, <5>4 DEF RequestsTile
          <6>2. QED
            BY <2>1, <2>3, <4>3, <4>8, <5>2, <6>1 DEF EndPSN
        <5>5. QED
          BY <5>1, <5>2, <5>3, <5>4
      <4>9. IsNextRequest(m - 1)
        BY <4>6, <4>8 DEF IsNextRequest
      <4>10. QED
        BY <4>3, <4>4, <4>7, <4>9
    <3>3. QED
      BY <3>1, <3>2
  <2>6. QED
    BY <2>1, <2>5 DEF NextPacketExists
<1>2. IInv => NextPacketExists
  BY <1>1 DEF NextPacketExists
<1>3. QED
  BY <1>2, InductiveInvariant, PTL

=============================================================================
