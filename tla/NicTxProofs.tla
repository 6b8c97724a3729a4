---------------------------- MODULE NicTxProofs -----------------------------
(* For any queue pairs, rates and requests, if no on_send callback registers *)
(* a queue pair: the assertion of TransmitStart holds, the transmitter's     *)
(* state keeps its types, and no wake-up is lost.  That every queue pair is  *)
(* served is liveness, which only TLC checks.                                *)
EXTENDS NicTx, SumTheorems, SequenceTheorems, TLAPS

\* What one event leaves on the stack: a look for the next packet, or the packet
\* that was found and perhaps the callback of its queue pair before it.
Stacks ==
    {<< >>, <<Dequeuing>>} \union {<<Sending(qp)>> : qp \in Qps}
        \union {<<Notifying, Sending(qp)>> : qp \in Qps}

\* Once a packet was found idle, nothing makes the transmitter busy until that
\* packet is transmitted.
TransmitInv ==
    /\ ~aborted
    /\ stack \in Stacks
    /\ m_txMachineState \in {"READY", "BUSY"}
    /\ stack \notin {<< >>, <<Dequeuing>>} => m_txMachineState = "READY"

LEMMA SmallSeqs == ASSUME NEW a, NEW b
                   PROVE  <<b>> \in Seq({b, a}) /\ <<a, b>> \in Seq({b, a})
OBVIOUS

LEMMA CallsDiffer == /\ Dequeuing.call = "DequeueAndTransmit"
                     /\ \A qp : Sending(qp).call = "TransmitStart"
                     /\ Notifying.call = "on_send"
BY DEF Dequeuing, Sending, Notifying

\* The stack in each of the calls.
LEMMA DequeuingStack == ASSUME TransmitInv, InCall("DequeueAndTransmit")
                        PROVE  stack = <<Dequeuing>>
BY CallsDiffer DEF TransmitInv, Stacks, InCall

LEMMA NotifyingStack == ASSUME TransmitInv, InCall("on_send")
                        PROVE  \E qp \in Qps : stack = <<Notifying, Sending(qp)>>
BY CallsDiffer DEF TransmitInv, Stacks, InCall

LEMMA SendingStack == ASSUME TransmitInv, InCall("TransmitStart")
                      PROVE  \E qp \in Qps : stack = <<Sending(qp)>>
BY CallsDiffer DEF TransmitInv, Stacks, InCall

LEMMA TransmitInvInit == Init => TransmitInv
BY DEF Init, TransmitInv, Stacks

\* A call of the present event.
LEMMA TransmitInvCall == TransmitInv /\ Call => TransmitInv'
<1> SUFFICES ASSUME TransmitInv, Call PROVE TransmitInv'
  OBVIOUS
<1>1. CASE DequeueAck
  <2>1. stack = <<Dequeuing>> /\ m_txMachineState = "READY" /\ ~aborted
    BY <1>1, DequeuingStack DEF DequeueAck, IsBusy, TransmitInv
  <2>2. stack' = << >> /\ m_txMachineState' = "BUSY" /\ UNCHANGED aborted
    BY <1>1, <2>1 DEF DequeueAck, TransmitStart
  <2>3. QED
    BY <2>1, <2>2 DEF TransmitInv, Stacks
<1>2. ASSUME NEW qp \in Qps, DequeueQp(qp) PROVE TransmitInv'
  <2>1. stack = <<Dequeuing>> /\ m_txMachineState = "READY" /\ ~aborted
    BY <1>2, DequeuingStack DEF DequeueQp, IsBusy, TransmitInv
  <2>2. stack' \in {<<Sending(qp)>>, <<Notifying, Sending(qp)>>}
    <3>1. Tail(stack) = << >>
      BY <2>1
    <3>2. PICK s \in {<<Sending(qp)>>, <<Notifying, Sending(qp)>>} : stack' = s \o << >>
      BY <1>2, <3>1 DEF DequeueQp
    <3>3. s \in Seq({Sending(qp), Notifying})
      BY SmallSeqs, <3>2
    <3>4. QED
      BY <3>2, <3>3, ConcatEmptySeq
  <2>3. UNCHANGED <<m_txMachineState, aborted>>
    BY <1>2 DEF DequeueQp
  <2>4. QED
    BY <2>1, <2>2, <2>3 DEF TransmitInv, Stacks
<1>3. ASSUME NEW qp \in Qps, SendQp(qp) PROVE TransmitInv'
  <2>1. PICK other \in Qps : stack = <<Sending(other)>>
    BY <1>3, SendingStack DEF SendQp
  <2>2. stack \notin {<< >>, <<Dequeuing>>}
    BY <2>1, CallsDiffer
  <2>3. m_txMachineState = "READY" /\ ~aborted
    BY <2>2 DEF TransmitInv
  <2>4. stack' = << >> /\ m_txMachineState' = "BUSY" /\ UNCHANGED aborted
    BY <1>3, <2>1, <2>3 DEF SendQp, TransmitStart
  <2>5. QED
    BY <2>3, <2>4 DEF TransmitInv, Stacks
<1>4. CASE OnSend
  <2>1. PICK qp \in Qps : stack = <<Notifying, Sending(qp)>>
    BY <1>4, NotifyingStack DEF OnSend
  <2>2. stack \notin {<< >>, <<Dequeuing>>}
    BY <2>1
  <2>3. m_txMachineState = "READY" /\ ~aborted
    BY <2>2 DEF TransmitInv
  <2>4. stack' = <<Sending(qp)>> /\ UNCHANGED <<m_txMachineState, aborted>>
    BY <1>4, <2>1 DEF OnSend
  <2>5. QED
    BY <2>3, <2>4 DEF TransmitInv, Stacks
<1>5. CASE NothingToDequeue
  <2>1. stack = <<Dequeuing>>
    BY <1>5, DequeuingStack DEF NothingToDequeue
  <2>2. stack' = << >> /\ UNCHANGED <<m_txMachineState, aborted>>
    BY <1>5, <2>1 DEF NothingToDequeue
  <2>3. QED
    BY <2>2 DEF TransmitInv, Stacks
<1>6. QED
  BY <1>1, <1>2, <1>3, <1>4, <1>5 DEF Call

\* A new event: it leaves the stack empty or looks for a packet.
LEMMA TransmitInvEvent ==
    ASSUME TransmitInv, stack' \in {<< >>, <<Dequeuing>>}, UNCHANGED aborted,
           m_txMachineState' \in {"READY", "BUSY"}
    PROVE  TransmitInv'
BY DEF TransmitInv, Stacks

LEMMA TransmitInvNext == TransmitInv /\ [Next]_vars => TransmitInv'
<1> SUFFICES ASSUME TransmitInv, [Next]_vars PROVE TransmitInv'
  OBVIOUS
<1>1. CASE Call
  BY <1>1, TransmitInvCall
<1>2. CASE TriggerTransmit \/ NextSend \/ TransmitComplete \/ Tick
  <2>1. stack' \in {<< >>, <<Dequeuing>>} /\ UNCHANGED aborted
    BY <1>2 DEF TriggerTransmit, NextSend, TransmitComplete, CallDequeue, Tick, Idle
  <2>2. m_txMachineState' \in {"READY", "BUSY"}
    BY <1>2 DEF TriggerTransmit, NextSend, TransmitComplete, Tick, TransmitInv
  <2>3. QED
    BY <2>1, <2>2, TransmitInvEvent
<1>3. ASSUME NEW qp \in Qps,
             \/ RegisterQP(qp) \/ Retransmit(qp) \/ SkipAcked(qp) \/ EnqueueAck(qp)
             \/ SetRate(qp) \/ \E n \in Lengths : PostSend(qp, n)
      PROVE  TransmitInv'
  <2>1. stack' \in {<< >>, <<Dequeuing>>} /\ UNCHANGED <<aborted, m_txMachineState>>
    BY <1>3 DEF RegisterQP, Retransmit, SkipAcked, EnqueueAck, SetRate, PostSend, Idle
  <2>2. QED
    BY <2>1, TransmitInvEvent DEF TransmitInv
<1>4. ASSUME NEW q \in Prios, Pause(q) \/ Resume(q) PROVE TransmitInv'
  <2>1. stack' \in {<< >>, <<Dequeuing>>} /\ UNCHANGED <<aborted, m_txMachineState>>
    BY <1>4 DEF Pause, Resume, CallDequeue, Idle
  <2>2. QED
    BY <2>1, TransmitInvEvent DEF TransmitInv
<1>5. CASE UNCHANGED vars
  BY <1>5 DEF vars, TransmitInv
<1>6. QED
  BY <1>1, <1>2, <1>3, <1>4, <1>5 DEF Next

\* TransmitStart never finds the transmitter busy, whatever the on_send callbacks
\* post between the choice of a packet and its transmission.
THEOREM TransmitsOnlyWhenReady == Spec => []TransmitsWhenReady
<1>1. TransmitInv => TransmitsWhenReady
  BY DEF TransmitInv, TransmitsWhenReady
<1>2. QED
  BY <1>1, TransmitInvInit, TransmitInvNext, PTL DEF Spec

-----------------------------------------------------------------------------
(* Types.  A group of conjuncts per part of the state, so that an action is  *)
(* looked at only for the groups it can disturb.                             *)

MachineOK ==
    /\ m_txMachineState \in {"READY", "BUSY"}
    /\ complete \in {None, 0, 1}
    /\ complete # None <=> m_txMachineState = "BUSY"
    /\ aborted \in BOOLEAN

GroupOK ==
    /\ m_qpGrp \in Seq(Qps)
    /\ IsInjective(m_qpGrp)
    /\ m_rrlast \in 0 .. Len(m_qpGrp)

\* The packet that the stack will send is one of a registered queue pair.
StackOK ==
    \A qp \in Qps : stack \in {<<Sending(qp)>>, <<Notifying, Sending(qp)>>} => qp \in Range(m_qpGrp)

DataOK ==
    /\ m_paused \in [Prios -> BOOLEAN]
    /\ to_send \in [Qps -> Seq(Nat \ {0})]
    /\ m_ackQ \in 0 .. AckCap

PaceOK ==
    /\ m_nextAvail \in [Qps -> 0 .. MaxGap]
    /\ gap \in [Qps -> 1 .. MaxGap]
    /\ \A qp \in Qps : gap[qp] \in Gaps[qp]

WakeOK ==
    /\ m_nextSend \in None .. MaxGap
    /\ triggers \subseteq 0 .. MaxGap

TypeInv ==
    /\ TransmitInv /\ MachineOK /\ GroupOK /\ StackOK /\ DataOK /\ PaceOK /\ WakeOK

LEMMA TypeInvIsTypeOK == TypeInv => TypeOK
<1> SUFFICES ASSUME TypeInv PROVE TypeOK
  OBVIOUS
<1>1. /\ m_txMachineState \in {"READY", "BUSY"}
      /\ complete \in {None, 0, 1}
      /\ (complete # None) = (m_txMachineState = "BUSY")
      /\ aborted \in BOOLEAN
  <2>1. complete # None <=> m_txMachineState = "BUSY"
    BY DEF TypeInv, MachineOK
  <2>2. (complete # None) = (m_txMachineState = "BUSY")
    BY <2>1
  <2>3. aborted \in BOOLEAN
    BY DEF TypeInv, MachineOK
  <2>4. QED
    BY <2>2, <2>3 DEF TypeInv, MachineOK
<1>2. IsInjective(m_qpGrp) /\ Range(m_qpGrp) \subseteq Qps /\ m_rrlast \in 0 .. Len(m_qpGrp)
  BY DEF TypeInv, GroupOK, Range
<1>3. \A qp \in Qps : \A k \in DOMAIN to_send[qp] : to_send[qp][k] \in Nat \ {0}
  BY DEF TypeInv, DataOK
<1>4. QED
  BY <1>1, <1>2, <1>3 DEF TypeInv, DataOK, PaceOK, WakeOK, TypeOK

LEMMA NearestType == ASSUME NEW t \in Int, t <= MaxGap PROVE Nearest(t) \in 0 .. MaxGap
BY NicAssumption DEF Nearest

LEMMA TypeInvInit == Init => TypeInv
<1> SUFFICES ASSUME Init PROVE TypeInv
  OBVIOUS
<1> USE NicAssumption
<1>1. MachineOK /\ WakeOK
  <2>1. aborted \in BOOLEAN
    BY DEF Init
  <2>2. QED
    BY <2>1 DEF Init, MachineOK, WakeOK, None
<1>2. GroupOK /\ StackOK
  BY DEF Init, GroupOK, StackOK, IsInjective
<1>3. DataOK
  BY DEF Init, DataOK
<1>4. PaceOK
  BY DEF Init, PaceOK
<1>5. QED
  BY <1>1, <1>2, <1>3, <1>4, TransmitInvInit DEF TypeInv

\* What starting a transmission leaves.
LEMMA TransmitStartTypes == ASSUME TypeInv, TransmitStart, m_txMachineState = "READY"
                            PROVE  MachineOK' /\ m_txMachineState' = "BUSY" /\ complete' = 1
BY DEF TypeInv, TransmitStart, MachineOK, None

\* A queue pair's time in the range of the triggers.
LEMMA TriggerTypes == ASSUME TypeInv, NEW qp \in Qps, TriggerDevTransmit(qp)
                      PROVE  triggers' \subseteq 0 .. MaxGap
<1>1. Nearest(m_nextAvail[qp]) \in 0 .. MaxGap
  BY NicAssumption, NearestType DEF TypeInv, PaceOK
<1>2. QED
  BY <1>1 DEF TypeInv, WakeOK, TriggerDevTransmit

\* The queue pair served next is a registered one.
LEMMA AfterIsRegistered == ASSUME GroupOK, NEW k \in DOMAIN m_qpGrp
                           PROVE  After(k) \in Range(m_qpGrp)
<1>1. k \in Nat \ {0} /\ Len(m_qpGrp) \in Nat \ {0} /\ DOMAIN m_qpGrp = 1 .. Len(m_qpGrp)
      /\ m_rrlast \in Nat
  BY DEF GroupOK
<1>2. (k + m_rrlast) % Len(m_qpGrp) \in 0 .. Len(m_qpGrp) - 1
  BY <1>1
<1>3. ((k + m_rrlast) % Len(m_qpGrp)) + 1 \in DOMAIN m_qpGrp
  BY <1>1, <1>2
<1>4. QED
  BY <1>3 DEF After, Range

LEMMA GetNextPacketTypes ==
    ASSUME DataOK, NEW qp \in Qps, to_send[qp] # << >>, GetNextPacket(qp)
    PROVE  to_send' \in [Qps -> Seq(Nat \ {0})]
<1> DEFINE S == Nat \ {0}
           q == to_send[qp]
<1>1. q \in Seq(S) /\ q # << >>
  BY DEF DataOK
<1> HIDE DEF q, S
<1>2. Head(q) \in S /\ Tail(q) \in Seq(S)
  BY <1>1, HeadTailProperties
<1>3. Head(q) # 1 => <<Head(q) - 1>> \o Tail(q) \in Seq(S)
  <2>1. Head(q) # 1 => Head(q) - 1 \in S
    BY <1>2 DEF S
  <2>2. Head(q) # 1 => <<Head(q) - 1>> \in Seq(S)
    BY <2>1
  <2>3. QED
    BY <1>2, <2>2, ConcatProperties
<1>4. (IF Head(q) = 1 THEN Tail(q) ELSE <<Head(q) - 1>> \o Tail(q)) \in Seq(S)
  BY <1>2, <1>3
<1>5. to_send' = [to_send EXCEPT ![qp] = IF Head(q) = 1 THEN Tail(q) ELSE <<Head(q) - 1>> \o Tail(q)]
  BY DEF GetNextPacket, q
<1>6. to_send \in [Qps -> Seq(S)]
  BY DEF DataOK, S
<1>7. to_send' \in [Qps -> Seq(S)]
  BY <1>4, <1>5, <1>6
<1>8. QED
  BY <1>7 DEF S

\* The earliest time of a queue pair that waits.
LEMMA NearestWaiter ==
    ASSUME TypeInv, Waiters # {}
    PROVE  /\ Nearest(Min({m_nextAvail[qp] : qp \in Waiters})) \in 0 .. MaxGap
           /\ \A qp \in Waiters :
                  Nearest(Min({m_nextAvail[other] : other \in Waiters})) <= m_nextAvail[qp]
<1> DEFINE times == {m_nextAvail[qp] : qp \in Waiters}
<1>1. Waiters \subseteq Qps
  BY DEF Waiters, TypeInv, GroupOK, Range
<1>2. times # {} /\ times \subseteq 0 .. MaxGap /\ times \in SUBSET Nat
  BY <1>1, NicAssumption DEF TypeInv, PaceOK
<1>3. PICK first \in times : \A t \in times : first <= t
  BY <1>2, LeastNatural
<1>4. \A qp \in Waiters : m_nextAvail[qp] \in times
  OBVIOUS
<1> HIDE DEF times
<1>5. Min(times) \in times /\ \A t \in times : Min(times) <= t
  BY <1>3 DEF Min
<1>6. Nearest(Min(times)) = Min(times)
  <2>1. Min(times) \in Nat
    BY <1>2, <1>5
  <2>2. QED
    BY <2>1 DEF Nearest
<1>7. Nearest(Min(times)) \in 0 .. MaxGap
  BY <1>2, <1>5, <1>6
<1>8. \A qp \in Waiters : Nearest(Min(times)) <= m_nextAvail[qp]
  BY <1>4, <1>5, <1>6
<1>9. QED
  BY <1>7, <1>8 DEF times

\* A call of the present event.
LEMMA TypeInvCall == TypeInv /\ Call => TypeInv'
<1> SUFFICES ASSUME TypeInv, Call PROVE TypeInv'
  OBVIOUS
<1> USE NicAssumption
<1>0. TransmitInv /\ TransmitInv'
  BY TransmitInvCall DEF TypeInv
<1>1. CASE DequeueAck
  <2>1. m_txMachineState = "READY"
    BY <1>0, <1>1 DEF DequeueAck, IsBusy, TransmitInv
  <2>2. MachineOK'
    BY <1>1, <2>1, TransmitStartTypes DEF DequeueAck
  <2>3. stack' = << >>
    BY <1>0, <1>1, DequeuingStack DEF DequeueAck
  <2>4. StackOK'
    BY <2>3 DEF StackOK
  <2>5. m_ackQ' \in 0 .. AckCap
    BY <1>1 DEF DequeueAck, AckIsNext, TypeInv, DataOK
  <2>6. DataOK'
    BY <1>1, <2>5 DEF DequeueAck, TypeInv, DataOK, qp_vars
  <2>7. GroupOK' /\ PaceOK' /\ WakeOK'
    BY <1>1 DEF DequeueAck, TypeInv, GroupOK, PaceOK, WakeOK, qp_vars
  <2>8. QED
    BY <1>0, <2>2, <2>4, <2>6, <2>7 DEF TypeInv
<1>2. ASSUME NEW qp \in Qps, DequeueQp(qp) PROVE TypeInv'
  <2>1. qp \in Range(m_qpGrp)
    BY <1>2, AfterIsRegistered DEF DequeueQp, IsNextQp, TypeInv
  <2>2. stack' \in {<<Sending(qp)>>, <<Notifying, Sending(qp)>>}
    <3>1. Tail(stack) = << >>
      <4>1. stack = <<Dequeuing>>
        BY <1>0, <1>2, DequeuingStack DEF DequeueQp
      <4>2. QED
        BY <4>1
    <3>2. PICK s \in {<<Sending(qp)>>, <<Notifying, Sending(qp)>>} : stack' = s \o << >>
      BY <1>2, <3>1 DEF DequeueQp
    <3>3. s \in Seq({Sending(qp), Notifying})
      BY SmallSeqs, <3>2
    <3>4. QED
      BY <3>2, <3>3, ConcatEmptySeq
  <2>3. ASSUME NEW other \in Qps,
               stack' \in {<<Sending(other)>>, <<Notifying, Sending(other)>>}
        PROVE  other = qp
    <3>1. Sending(other) = Sending(qp)
      BY <2>2, <2>3, CallsDiffer
    <3>2. QED
      BY <3>1 DEF Sending
  <2>4. StackOK'
    BY <1>2, <2>1, <2>3 DEF StackOK, DequeueQp
  <2>5. to_send' \in [Qps -> Seq(Nat \ {0})]
    BY <1>2, GetNextPacketTypes DEF DequeueQp, IsReadyToSend, HasDataToSend, TypeInv
  <2>6. DataOK'
    BY <1>2, <2>5 DEF DequeueQp, TypeInv, DataOK
  <2>7. MachineOK' /\ GroupOK' /\ PaceOK' /\ WakeOK'
    BY <1>2 DEF DequeueQp, TypeInv, MachineOK, GroupOK, PaceOK, WakeOK, wake_vars
  <2>8. QED
    BY <1>0, <2>4, <2>6, <2>7 DEF TypeInv
<1>3. ASSUME NEW qp \in Qps, SendQp(qp) PROVE TypeInv'
  <2>1. stack = <<Sending(qp)>>
    BY <1>0, <1>3, SendingStack DEF SendQp
  <2>2. qp \in Range(m_qpGrp)
    BY <2>1 DEF TypeInv, StackOK
  <2>3. IndexOf(qp) \in 0 .. Len(m_qpGrp)
    <3>1. DOMAIN m_qpGrp = 1 .. Len(m_qpGrp) /\ Len(m_qpGrp) \in Nat
      BY DEF TypeInv, GroupOK
    <3>2. (CHOOSE k \in DOMAIN m_qpGrp : m_qpGrp[k] = qp) \in DOMAIN m_qpGrp
      BY <2>2 DEF Range
    <3>3. QED
      BY <3>1, <3>2 DEF IndexOf
  <2>4. GroupOK'
    BY <1>3, <2>3 DEF SendQp, TypeInv, GroupOK
  <2>5. m_txMachineState = "READY"
    BY <1>0, <2>1, CallsDiffer DEF TransmitInv
  <2>6. MachineOK'
    BY <1>3, <2>5, TransmitStartTypes DEF SendQp
  <2>7. stack' = << >>
    BY <1>3, <2>1 DEF SendQp
  <2>8. StackOK'
    BY <2>7 DEF StackOK
  <2>9. gap[qp] \in 0 .. MaxGap
    BY DEF TypeInv, PaceOK
  <2>10. PaceOK'
    BY <1>3, <2>9 DEF SendQp, TypeInv, PaceOK
  <2>11. DataOK' /\ WakeOK'
    BY <1>3 DEF SendQp, TypeInv, DataOK, WakeOK
  <2>12. QED
    BY <1>0, <2>4, <2>6, <2>8, <2>10, <2>11 DEF TypeInv
<1>4. CASE OnSend
  <2>1. PICK qp \in Qps : stack = <<Notifying, Sending(qp)>>
    BY <1>0, <1>4, NotifyingStack DEF OnSend
  <2>2. stack' = <<Sending(qp)>> /\ UNCHANGED m_qpGrp
    BY <1>4, <2>1 DEF OnSend
  <2>3. StackOK'
    <3>1. qp \in Range(m_qpGrp)
      BY <2>1 DEF TypeInv, StackOK
    <3>2. ASSUME NEW other \in Qps,
                 stack' \in {<<Sending(other)>>, <<Notifying, Sending(other)>>}
          PROVE  other = qp
      <4>1. Sending(other) = Sending(qp)
        BY <2>2, <3>2
      <4>2. QED
        BY <4>1 DEF Sending
    <3>3. QED
      BY <2>2, <3>1, <3>2 DEF StackOK
  <2>4. DataOK' /\ WakeOK'
    <3>1. CASE UNCHANGED <<to_send, triggers>>
      BY <1>4, <3>1 DEF OnSend, TypeInv, DataOK, WakeOK
    <3>2. CASE \E user \in Range(m_qpGrp), n \in Lengths :
                   /\ to_send[user] = << >>
                   /\ to_send' = [to_send EXCEPT ![user] = <<n>>]
                   /\ TriggerDevTransmit(user)
      <4>1. PICK user \in Range(m_qpGrp), n \in Lengths :
                   /\ to_send' = [to_send EXCEPT ![user] = <<n>>]
                   /\ TriggerDevTransmit(user)
        BY <3>2
      <4>2. user \in Qps /\ <<n>> \in Seq(Nat \ {0})
        BY DEF TypeInv, GroupOK, Range
      <4>3. DataOK'
        BY <1>4, <4>1, <4>2 DEF OnSend, TypeInv, DataOK
      <4>4. WakeOK'
        BY <1>4, <4>1, <4>2, TriggerTypes DEF OnSend, TypeInv, WakeOK
      <4>5. QED
        BY <4>3, <4>4
    <3>3. QED
      BY <1>4, <3>1, <3>2 DEF OnSend
  <2>5. MachineOK' /\ GroupOK' /\ PaceOK'
    BY <1>4 DEF OnSend, TypeInv, MachineOK, GroupOK, PaceOK
  <2>6. QED
    BY <1>0, <2>3, <2>4, <2>5 DEF TypeInv
<1>5. CASE NothingToDequeue
  <2>1. stack' = << >>
    BY <1>0, <1>5, DequeuingStack DEF NothingToDequeue
  <2>2. StackOK'
    BY <2>1 DEF StackOK
  <2>3. WakeOK'
    <3>1. CASE UNCHANGED m_nextSend
      BY <1>5, <3>1 DEF NothingToDequeue, TypeInv, WakeOK
    <3>2. CASE /\ Waiters # {}
               /\ UpdateNextAvail(Nearest(Min({m_nextAvail[qp] : qp \in Waiters})))
      <4>1. Nearest(Min({m_nextAvail[qp] : qp \in Waiters})) \in 0 .. MaxGap
        BY <3>2, NearestWaiter
      <4>2. m_nextSend' \in None .. MaxGap
        BY <3>2, <4>1 DEF UpdateNextAvail, TypeInv, WakeOK, None
      <4>3. QED
        BY <1>5, <4>2 DEF NothingToDequeue, TypeInv, WakeOK
    <3>3. QED
      BY <1>5, <3>1, <3>2 DEF NothingToDequeue
  <2>4. MachineOK' /\ GroupOK' /\ DataOK' /\ PaceOK'
    BY <1>5 DEF NothingToDequeue, TypeInv, MachineOK, GroupOK, DataOK, PaceOK, qp_vars
  <2>5. QED
    BY <1>0, <2>2, <2>3, <2>4 DEF TypeInv
<1>6. QED
  BY <1>1, <1>2, <1>3, <1>4, <1>5 DEF Call

\* An event begins with an empty stack and leaves nothing that is sent.
LEMMA EventStack == ASSUME stack' \in {<< >>, <<Dequeuing>>} PROVE StackOK'
BY CallsDiffer DEF StackOK

LEMMA TypeInvNext == TypeInv /\ [Next]_vars => TypeInv'
<1> SUFFICES ASSUME TypeInv, [Next]_vars PROVE TypeInv'
  OBVIOUS
<1> USE NicAssumption
<1>0. TransmitInv' /\ m_qpGrp \in Seq(Qps)
  BY TransmitInvNext DEF TypeInv, GroupOK
<1>1. CASE Call
  BY <1>1, TypeInvCall
<1>2. CASE TriggerTransmit
  <2>1. StackOK'
    BY <1>2, EventStack DEF TriggerTransmit
  <2>2. QED
    BY <1>0, <1>2, <2>1 DEF TriggerTransmit, TypeInv, MachineOK, GroupOK, DataOK, PaceOK, WakeOK, qp_vars
<1>3. CASE NextSend
  <2>1. StackOK'
    BY <1>3, EventStack DEF NextSend
  <2>2. WakeOK'
    BY <1>3 DEF NextSend, TypeInv, WakeOK, None
  <2>3. QED
    BY <1>0, <1>3, <2>1, <2>2 DEF NextSend, TypeInv, MachineOK, GroupOK, DataOK, PaceOK, qp_vars
<1>4. CASE TransmitComplete
  <2>1. StackOK'
    BY <1>4, EventStack DEF TransmitComplete, CallDequeue
  <2>2. MachineOK'
    BY <1>4 DEF TransmitComplete, TypeInv, MachineOK
  <2>3. QED
    BY <1>0, <1>4, <2>1, <2>2 DEF TransmitComplete, TypeInv, GroupOK, DataOK, PaceOK, WakeOK, qp_vars
<1>5. CASE Tick
  <2>1. StackOK'
    BY <1>5, EventStack DEF Tick, Idle
  <2>2. MachineOK'
    <3>1. UNCHANGED <<m_txMachineState, aborted>> /\ complete # 0 /\ complete' = Later(complete)
      BY <1>5 DEF Tick
    <3>2. complete' \in {None, 0, 1} /\ (complete' # None <=> complete # None)
      BY <3>1 DEF TypeInv, MachineOK, Later, None
    <3>3. QED
      BY <3>1, <3>2 DEF TypeInv, MachineOK
  <2>3. m_nextAvail' \in [Qps -> 0 .. MaxGap]
    <3>1. \A qp \in Qps : Nearest(m_nextAvail[qp] - 1) \in 0 .. MaxGap
      BY NearestType DEF TypeInv, PaceOK
    <3>2. QED
      BY <1>5, <3>1 DEF Tick
  <2>4. WakeOK'
    <3>1. m_nextSend' \in None .. MaxGap
      BY <1>5 DEF Tick, TypeInv, WakeOK, Later, None
    <3>2. triggers' \subseteq 0 .. MaxGap
      BY <1>5 DEF Tick, TypeInv, WakeOK
    <3>3. QED
      BY <3>1, <3>2 DEF WakeOK
  <2>5. QED
    BY <1>0, <1>5, <2>1, <2>2, <2>3, <2>4 DEF Tick, TypeInv, GroupOK, DataOK, PaceOK
<1>6. ASSUME NEW qp \in Qps, RegisterQP(qp) PROVE TypeInv'
  <2>1. StackOK'
    BY <1>6, EventStack DEF RegisterQP
  <2>2. GroupOK'
    <3>1. /\ m_qpGrp' \in Seq(Qps) /\ Len(m_qpGrp') = Len(m_qpGrp) + 1
          /\ \A i \in 1 .. Len(m_qpGrp) : m_qpGrp'[i] = m_qpGrp[i]
          /\ m_qpGrp'[Len(m_qpGrp) + 1] = qp
      BY <1>0, <1>6, AppendProperties DEF RegisterQP
    <3>2. \A i \in 1 .. Len(m_qpGrp) : m_qpGrp[i] # qp
      BY <1>0, <1>6 DEF RegisterQP, Range
    <3>3. IsInjective(m_qpGrp')
      BY <1>0, <3>1, <3>2 DEF TypeInv, GroupOK, IsInjective
    <3>4. m_rrlast' \in 0 .. Len(m_qpGrp')
      BY <1>0, <1>6, <3>1 DEF RegisterQP, TypeInv, GroupOK
    <3>5. QED
      BY <3>1, <3>3, <3>4 DEF GroupOK
  <2>3. QED
    BY <1>0, <1>6, <2>1, <2>2 DEF RegisterQP, TypeInv, MachineOK, DataOK, PaceOK, WakeOK, qp_vars, wake_vars
<1>7. ASSUME NEW qp \in Qps,
             \/ Retransmit(qp) \/ SkipAcked(qp) \/ EnqueueAck(qp)
             \/ \E n \in Lengths : PostSend(qp, n)
      PROVE  TypeInv'
  <2>1. StackOK'
    BY <1>7, EventStack DEF Retransmit, SkipAcked, EnqueueAck, PostSend, Idle
  <2>2. TriggerDevTransmit(qp) /\ UNCHANGED m_nextSend
    BY <1>7 DEF Retransmit, SkipAcked, EnqueueAck, PostSend
  <2>3. WakeOK'
    BY <2>2, TriggerTypes DEF TypeInv, WakeOK
  <2>4. UNCHANGED m_paused /\ m_ackQ' \in 0 .. AckCap
    BY <1>7 DEF Retransmit, SkipAcked, EnqueueAck, PostSend, TypeInv, DataOK
  <2>5. to_send' \in [Qps -> Seq(Nat \ {0})]
    <3>1. \A n \in Lengths : <<n>> \in Seq(Nat \ {0})
      OBVIOUS
    <3>2. << >> \in Seq(Nat \ {0})
      OBVIOUS
    <3>3. to_send \in [Qps -> Seq(Nat \ {0})]
      BY DEF TypeInv, DataOK
    <3>4. \/ UNCHANGED to_send \/ to_send' = [to_send EXCEPT ![qp] = << >>]
          \/ \E n \in Lengths : to_send' = [to_send EXCEPT ![qp] = <<n>>]
      BY <1>7 DEF Retransmit, SkipAcked, EnqueueAck, PostSend, qp_vars
    <3>5. QED
      BY <3>1, <3>2, <3>3, <3>4
  <2>6. DataOK'
    BY <2>4, <2>5 DEF TypeInv, DataOK
  <2>7. MachineOK' /\ GroupOK' /\ PaceOK'
    BY <1>7 DEF Retransmit, SkipAcked, EnqueueAck, PostSend, qp_vars, TypeInv, MachineOK, GroupOK, PaceOK
  <2>8. QED
    BY <1>0, <2>1, <2>3, <2>6, <2>7 DEF TypeInv
<1>8. ASSUME NEW qp \in Qps, SetRate(qp) PROVE TypeInv'
  <2>1. StackOK'
    BY <1>8, EventStack DEF SetRate, Idle
  <2>2. PICK g \in Gaps[qp] : gap' = [gap EXCEPT ![qp] = g]
    BY <1>8 DEF SetRate
  <2>3. g \in 1 .. MaxGap
    OBVIOUS
  <2>4. PaceOK'
    BY <1>8, <2>2, <2>3 DEF SetRate, TypeInv, PaceOK
  <2>5. QED
    BY <1>0, <1>8, <2>1, <2>4 DEF SetRate, TypeInv, MachineOK, GroupOK, DataOK, WakeOK, wake_vars
<1>9. ASSUME NEW q \in Prios, Pause(q) \/ Resume(q) PROVE TypeInv'
  <2>1. StackOK'
    BY <1>9, EventStack DEF Pause, Resume, CallDequeue, Idle
  <2>2. DataOK'
    BY <1>9 DEF Pause, Resume, TypeInv, DataOK, qp_vars
  <2>3. QED
    BY <1>0, <1>9, <2>1, <2>2 DEF Pause, Resume, TypeInv, MachineOK, GroupOK, PaceOK, WakeOK, qp_vars, wake_vars
<1>10. CASE UNCHANGED vars
  BY <1>0, <1>10 DEF vars, qp_vars, wake_vars, TypeInv, MachineOK, GroupOK, StackOK, DataOK, PaceOK, WakeOK
<1>11. QED
  BY <1>1, <1>2, <1>3, <1>4, <1>5, <1>6, <1>7, <1>8, <1>9, <1>10 DEF Next

\* The queue pairs registered with the device, what they have to send, the delays
\* of its events and its state keep their types and bounds: the TransmitComplete
\* event is scheduled exactly while the transmitter is busy.
THEOREM TypesAreKept == Spec => []TypeOK
<1>1. QED
  BY TypeInvInit, TypeInvNext, TypeInvIsTypeOK, PTL DEF Spec

-----------------------------------------------------------------------------
(* Wake-ups.  NoLostWakeup is inductive together with the types: an event    *)
(* either leaves a look for the next packet on the stack or triggers one at  *)
(* the time of the queue pair that it made ready, and a look that finds      *)
(* nothing schedules the next.                                               *)

\* A queue pair that may send is looked at by the time it may.
WokenInTime(qp) == \E t \in Wakeups : t <= Nearest(m_nextAvail[qp])

LEMMA WakeupsAreTimes == ASSUME TypeInv PROVE Wakeups \subseteq 0 .. MaxGap
BY NicAssumption DEF TypeInv, MachineOK, WakeOK, Wakeups, None

\* An event that drops no wake-up loses none, if it makes nobody ready unwoken.
LEMMA StillWoken ==
    ASSUME NoLostWakeup, Idle, TypeInv,
           AckIsNext' => AckIsNext \/ Wakeups' # {},
           Wakeups \subseteq Wakeups', UNCHANGED <<m_txMachineState, m_nextAvail, m_qpGrp>>,
           \A qp \in Range(m_qpGrp) : HasDataToSend(qp)' => HasDataToSend(qp) \/ WokenInTime(qp)'
    PROVE  NoLostWakeup'
BY DEF NoLostWakeup, Idle, WokenInTime

\* The events that make a queue pair ready, or an ACK, trigger a look for it.
LEMMA TriggerWakes ==
    ASSUME TypeInv, NoLostWakeup, Idle, NEW qp \in Qps, TriggerDevTransmit(qp),
           UNCHANGED <<m_txMachineState, m_nextAvail, m_qpGrp, m_paused, complete, m_nextSend>>,
           \A other \in Qps \ {qp} : to_send'[other] = to_send[other]
    PROVE  NoLostWakeup'
<1>1. Wakeups \subseteq Wakeups' /\ Nearest(m_nextAvail[qp]) \in Wakeups'
  BY DEF Wakeups, TriggerDevTransmit
<1>2. Nearest(m_nextAvail[qp]) \in 0 .. MaxGap
  BY <1>1, NicAssumption, NearestType DEF TypeInv, PaceOK
<1>3. WokenInTime(qp)'
  BY <1>1, <1>2 DEF WokenInTime
<1>4. \A other \in Range(m_qpGrp) :
          HasDataToSend(other)' => HasDataToSend(other) \/ WokenInTime(other)'
  <2>1. Range(m_qpGrp) \subseteq Qps
    BY DEF TypeInv, GroupOK, Range
  <2>2. \A other \in Qps \ {qp} : HasDataToSend(other)' => HasDataToSend(other)
    BY DEF HasDataToSend
  <2>3. QED
    BY <1>3, <2>1, <2>2
<1>5. QED
  BY <1>1, <1>4, StillWoken

WakeInv == TypeInv /\ NoLostWakeup

LEMMA WakeInvNext == WakeInv /\ [Next]_vars => WakeInv'
<1> SUFFICES ASSUME TypeInv, NoLostWakeup, [Next]_vars, TypeInv' PROVE NoLostWakeup'
  BY TypeInvNext DEF WakeInv
<1> USE NicAssumption
<1>1. CASE Call
  <2>1. TransmitInv
    BY DEF TypeInv
  <2>2. CASE DequeueAck \/ \E qp \in Qps : SendQp(qp)
    <3>1. m_txMachineState = "READY" /\ TransmitStart
      BY <2>1, <2>2, SendingStack, CallsDiffer DEF DequeueAck, SendQp, IsBusy, TransmitInv
    <3>2. m_txMachineState' = "BUSY" /\ complete' = 1
      BY <3>1 DEF TransmitStart
    <3>3. Wakeups' # {}
      BY <3>2 DEF Wakeups, None
    <3>4. QED
      BY <3>2, <3>3 DEF NoLostWakeup
  <2>3. CASE OnSend \/ \E qp \in Qps : DequeueQp(qp)
    <3>1. CASE OnSend
      <4>1. PICK qp \in Qps : stack = <<Notifying, Sending(qp)>>
        BY <2>1, <3>1, NotifyingStack DEF OnSend
      <4>2. stack' = <<Sending(qp)>>
        BY <3>1, <4>1 DEF OnSend
      <4>3. QED
        BY <4>2 DEF NoLostWakeup
    <3>2. ASSUME NEW qp \in Qps, DequeueQp(qp) PROVE NoLostWakeup'
      <4>1. Tail(stack) = << >>
        <5>1. stack = <<Dequeuing>>
          BY <2>1, <3>2, DequeuingStack DEF DequeueQp
        <5>2. QED
          BY <5>1
      <4>2. PICK s \in {<<Sending(qp)>>, <<Notifying, Sending(qp)>>} : stack' = s \o << >>
        BY <3>2, <4>1 DEF DequeueQp
      <4>3. s \in Seq({Sending(qp), Notifying})
        BY SmallSeqs, <4>2
      <4>4. stack' \in {<<Sending(qp)>>, <<Notifying, Sending(qp)>>}
        BY <4>2, <4>3, ConcatEmptySeq
      <4>5. QED
        BY <4>4 DEF NoLostWakeup
    <3>3. QED
      BY <2>3, <3>1, <3>2
  <2>4. CASE NothingToDequeue
    <3>1. UNCHANGED <<m_txMachineState, m_paused, m_qpGrp, m_nextAvail, to_send, m_ackQ,
                      complete, triggers>>
      BY <2>4 DEF NothingToDequeue, qp_vars
    <3>2. CASE IsBusy
      <4>1. complete' # None /\ m_txMachineState' # "READY"
        BY <3>1, <3>2 DEF IsBusy, TypeInv, MachineOK
      <4>2. Wakeups' # {}
        BY <4>1 DEF Wakeups
      <4>3. QED
        BY <4>1, <4>2 DEF NoLostWakeup
    <3>3. CASE ~IsBusy
      <4>1. ~AckIsNext'
        BY <2>4, <3>1, <3>3 DEF NothingToDequeue, AckIsNext
      <4>2. ASSUME NEW qp \in Range(m_qpGrp), HasDataToSend(qp)' PROVE WokenInTime(qp)'
        <5> DEFINE next == Nearest(Min({m_nextAvail[other] : other \in Waiters}))
        <5>1. qp \in Waiters
          BY <3>1, <4>2 DEF Waiters, HasDataToSend
        <5>2. next \in 0 .. MaxGap /\ next <= m_nextAvail[qp]
          BY <5>1, NearestWaiter
        <5>3. UpdateNextAvail(next)
          BY <2>4, <3>3, <5>1 DEF NothingToDequeue
        <5> HIDE DEF next
        <5>4. m_nextSend' \in 0 .. MaxGap /\ m_nextSend' <= next
          BY <5>2, <5>3 DEF UpdateNextAvail, TypeInv, WakeOK, None
        <5>5. qp \in Qps /\ m_nextAvail[qp] \in 0 .. MaxGap
          BY DEF TypeInv, GroupOK, Range, PaceOK
        <5>6. Nearest(m_nextAvail[qp]) = m_nextAvail[qp]
          BY <5>5 DEF Nearest
        <5>7. m_nextSend' \in Wakeups'
          BY <5>4 DEF Wakeups, None
        <5>8. m_nextSend' <= Nearest(m_nextAvail[qp])
          BY <5>2, <5>4, <5>5, <5>6
        <5>9. QED
          BY <3>1, <5>7, <5>8 DEF WokenInTime
      <4>3. QED
        BY <3>1, <4>1, <4>2 DEF NoLostWakeup, WokenInTime
    <3>4. QED
      BY <3>2, <3>3
  <2>5. QED
    BY <1>1, <2>2, <2>3, <2>4 DEF Call
<1>2. CASE \/ TriggerTransmit \/ NextSend \/ TransmitComplete
           \/ \E qp \in Qps : RegisterQP(qp)
           \/ \E q \in Prios : Resume(q)
  <2>1. stack' = <<Dequeuing>>
    BY <1>2 DEF TriggerTransmit, NextSend, TransmitComplete, RegisterQP, Resume, CallDequeue
  <2>2. QED
    BY <2>1 DEF NoLostWakeup
<1>3. CASE Tick
  <2>1. UNCHANGED <<m_txMachineState, m_paused, m_qpGrp, to_send, m_ackQ>> /\ Idle
    BY <1>3 DEF Tick
  <2>2. ASSUME NEW t \in Wakeups PROVE t \in 1 .. MaxGap /\ t - 1 \in Wakeups'
    <3>1. t \in 1 .. MaxGap
      BY <1>3, WakeupsAreTimes DEF Tick, Wakeups
    <3>2. t - 1 \in Wakeups'
      <4>1. CASE t \in triggers
        BY <1>3, <4>1 DEF Tick, Wakeups
      <4>2. CASE t \in {m_nextSend, complete}
        BY <1>3, <3>1, <4>2 DEF Tick, Wakeups, Later, None
      <4>3. QED
        BY <4>1, <4>2 DEF Wakeups
    <3>3. QED
      BY <3>1, <3>2
  <2>3. AckIsNext' => Wakeups' # {}
    BY <2>1, <2>2 DEF NoLostWakeup, AckIsNext, Idle
  <2>4. ASSUME m_txMachineState = "READY", NEW qp \in Range(m_qpGrp), HasDataToSend(qp)
        PROVE  WokenInTime(qp)'
    <3>1. PICK t \in Wakeups : t <= Nearest(m_nextAvail[qp])
      BY <2>1, <2>4 DEF NoLostWakeup, Idle
    <3>2. qp \in Qps /\ m_nextAvail[qp] \in 0 .. MaxGap
      BY DEF TypeInv, GroupOK, Range, PaceOK
    <3>3. t \in 1 .. MaxGap /\ t - 1 \in Wakeups'
      BY <2>2
    <3>4. m_nextAvail'[qp] = m_nextAvail[qp] - 1 /\ t - 1 <= m_nextAvail[qp] - 1
      BY <1>3, <3>1, <3>2, <3>3 DEF Tick, Nearest
    <3>5. t - 1 <= Nearest(m_nextAvail'[qp])
      BY <3>2, <3>3, <3>4 DEF Nearest
    <3>6. QED
      BY <3>3, <3>5 DEF WokenInTime
  <2>5. QED
    BY <2>1, <2>3, <2>4 DEF NoLostWakeup, WokenInTime, HasDataToSend
<1>4. ASSUME NEW qp \in Qps,
             \/ Retransmit(qp) \/ SkipAcked(qp) \/ EnqueueAck(qp)
             \/ \E n \in Lengths : PostSend(qp, n)
      PROVE  NoLostWakeup'
  <2>1. /\ Idle /\ TriggerDevTransmit(qp)
        /\ UNCHANGED <<m_txMachineState, m_nextAvail, m_qpGrp, m_paused, complete, m_nextSend>>
    BY <1>4 DEF Retransmit, SkipAcked, EnqueueAck, PostSend, qp_vars
  <2>2. \A other \in Qps \ {qp} : to_send'[other] = to_send[other]
    <3>1. \/ UNCHANGED to_send \/ \E s : to_send' = [to_send EXCEPT ![qp] = s]
      BY <1>4 DEF Retransmit, SkipAcked, EnqueueAck, PostSend, qp_vars
    <3>2. to_send \in [Qps -> Seq(Nat \ {0})]
      BY DEF TypeInv, DataOK
    <3>3. QED
      BY <3>1, <3>2
  <2>3. QED
    BY <2>1, <2>2, TriggerWakes
<1>5. CASE \/ \E qp \in Qps : SetRate(qp)
           \/ \E q \in Prios : Pause(q)
  <2>1. /\ UNCHANGED <<m_txMachineState, m_nextAvail, m_qpGrp, complete, m_nextSend, triggers,
                       to_send, m_ackQ>>
        /\ Idle
    BY <1>5 DEF SetRate, Pause, qp_vars, wake_vars
  <2>2. \A q \in Prios : ~m_paused'[q] => ~m_paused[q]
    BY <1>5 DEF SetRate, Pause, TypeInv, DataOK
  <2>3. UNCHANGED Wakeups
    BY <2>1 DEF Wakeups
  <2>4. AckIsNext' => AckIsNext
    BY <2>1, <2>2 DEF AckIsNext, Prios
  <2>5. \A qp \in Range(m_qpGrp) : HasDataToSend(qp)' => HasDataToSend(qp)
    <3>1. Range(m_qpGrp) \subseteq Qps
      BY DEF TypeInv, GroupOK, Range
    <3>2. QED
      BY <2>1, <2>2, <3>1 DEF HasDataToSend, Prios
  <2>6. QED
    BY <2>1, <2>3, <2>4, <2>5, StillWoken
<1>6. CASE UNCHANGED vars
  <2>1. UNCHANGED <<m_txMachineState, m_paused, m_qpGrp, to_send, m_nextAvail, m_ackQ, complete,
                    m_nextSend, triggers, stack, aborted>>
    BY <1>6 DEF vars, qp_vars, wake_vars
  <2>2. UNCHANGED Wakeups /\ AckIsNext' = AckIsNext
        /\ \A qp \in Range(m_qpGrp) : HasDataToSend(qp)' = HasDataToSend(qp)
    BY <2>1 DEF Wakeups, AckIsNext, HasDataToSend
  <2>3. QED
    BY <2>1, <2>2 DEF NoLostWakeup
<1>7. QED
  BY <1>1, <1>2, <1>3, <1>4, <1>5, <1>6 DEF Next

\* Between two events, whatever was posted, acknowledged, paused or resumed and
\* whatever rates DCQCN chose, a queue pair that may send is looked at by the time
\* it may, unless the transmitter is busy and will look when it is done; and some
\* event will find the ACK that waits.
THEOREM NoWakeupIsLost == Spec => []NoLostWakeup
<1>1. Init => WakeInv
  <2> SUFFICES ASSUME Init PROVE NoLostWakeup
    BY TypeInvInit DEF WakeInv
  <2>1. ~AckIsNext
    BY DEF Init, AckIsNext
  <2>2. Range(m_qpGrp) = {}
    BY DEF Init, Range
  <2>3. QED
    BY <2>1, <2>2 DEF NoLostWakeup
<1>2. WakeInv => NoLostWakeup
  BY DEF WakeInv
<1>3. QED
  BY <1>1, <1>2, WakeInvNext, PTL DEF Spec

=============================================================================
