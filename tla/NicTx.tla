------------------------------- MODULE NicTx -------------------------------
(***************************************************************************)
(* The transmitter of a server: QbbNetDevice and RdmaEgressQueue with the  *)
(* send queues of RdmaHw.  Nobody polls it: DequeueAndTransmit runs when   *)
(* some event calls it, and what becomes ready without such an event waits *)
(* for ever.                                                               *)
(*                                                                         *)
(* Times are delays from now: Tick brings everything nearer by one.  The   *)
(* calls that one event makes are the frames of `stack`, and no other      *)
(* event runs until it is empty.  A queue pair is only seen through what   *)
(* it has to send; acknowledgements and timeouts show as Retransmit.       *)
(* IsFinished and ChangeRate are left out: no code finishes a queue pair,  *)
(* and DCQCN assigns the rate without calling ChangeRate.                  *)
(***************************************************************************)
EXTENDS Integers, Sequences, SequencesExt, FiniteSetsExt

CONSTANTS
    Qps,
    Unreliable,     \* those that call on_send when the last packet is dequeued
    Prio,           \* GetPG() of each
    ack_q_idx,      \* priority of the ACK queue
    Gaps,           \* by queue pair: times from one packet to the next that
                    \* DCQCN may choose
    MaxGap,         \* bound: the longest of them
    Lengths,        \* packets in a request
    AckCap          \* bound: packets in the ACK queue

Prios == {Prio[qp] : qp \in Qps} \union {ack_q_idx}

ASSUME NicAssumption ==
    /\ Unreliable \subseteq Qps
    /\ MaxGap \in Nat \ {0}
    /\ \A qp \in Qps : Gaps[qp] # {} /\ Gaps[qp] \subseteq 1 .. MaxGap
    /\ Lengths \subseteq Nat \ {0}
    /\ AckCap \in Nat

VARIABLES
    m_txMachineState,   \* "READY" or "BUSY"
    complete,           \* delay of the TransmitComplete event
    m_paused,
    m_qpGrp,            \* the registered queue pairs, in order
    m_rrlast,           \* 0-based index of the last one served
    to_send,            \* by queue pair: packets left of each request
    m_nextAvail,        \* by queue pair; zero stands for the past, too
    gap,                \* by queue pair: the packet time at m_rate
    m_ackQ,             \* number of ACKs
    m_nextSend,         \* delay of the event of UpdateNextAvail
    triggers,           \* delays of the TriggerTransmit events
    stack,
    aborted             \* has an assertion failed?

qp_vars   == <<to_send, m_nextAvail, gap>>
wake_vars == <<complete, m_nextSend, triggers>>
vars      == <<m_txMachineState, m_paused, m_qpGrp, m_rrlast, qp_vars, m_ackQ, wake_vars,
               stack, aborted>>

None == -1      \* no such event

Idle == stack = << >> /\ ~aborted
Later(t) == IF t = None THEN None ELSE t - 1
Nearest(t) == IF t < 0 THEN 0 ELSE t

Dequeuing == [call |-> "DequeueAndTransmit"]
Sending(qp) == [call |-> "TransmitStart", qp |-> qp]
Notifying == [call |-> "on_send"]

\* The next call of the present event.
InCall(call) == ~aborted /\ stack # << >> /\ Head(stack).call = call

-----------------------------------------------------------------------------
(* Waking the transmitter *)

TriggerDevTransmit(qp) == triggers' = triggers \union {Nearest(m_nextAvail[qp])}

UpdateNextAvail(t) ==
    m_nextSend' = IF m_nextSend = None \/ t < m_nextSend THEN t ELSE m_nextSend

HasDataToSend(qp) == to_send[qp] # << >> /\ ~m_paused[Prio[qp]]

IsReadyToSend(qp) == HasDataToSend(qp) /\ m_nextAvail[qp] <= 0

\* GetNextQindex: the k-th queue pair after the last one served.
After(k) == m_qpGrp[((k + m_rrlast) % Len(m_qpGrp)) + 1]

\* Faulty variant, for mutation checks only: the first queue pair goes first.
FirstQp(qp) ==
    \E k \in DOMAIN m_qpGrp :
        /\ qp = m_qpGrp[k]
        /\ \A j \in 1 .. (k - 1) : ~IsReadyToSend(m_qpGrp[j])

IsNextQp(qp) ==
    \E k \in DOMAIN m_qpGrp :
        /\ qp = After(k)
        /\ \A j \in 1 .. (k - 1) : ~IsReadyToSend(After(j))

AckIsNext == m_ackQ > 0 /\ ~m_paused[ack_q_idx]

TransmitStart ==
    IF m_txMachineState = "READY"
    THEN m_txMachineState' = "BUSY" /\ complete' = 1 /\ UNCHANGED aborted
    ELSE aborted' = TRUE /\ UNCHANGED <<m_txMachineState, complete>>

\* Faulty variant, for mutation checks only: the request stays queued.
GetNextPacketKeeps(qp) == to_send' = [to_send EXCEPT ![qp] = <<Head(@) - 1>> \o Tail(@)]

\* GetNextPacket: the last packet of a request takes it off the queue.
GetNextPacket(qp) ==
    to_send' = [to_send EXCEPT ![qp] =
                   IF Head(@) = 1 THEN Tail(@) ELSE <<Head(@) - 1>> \o Tail(@)]

\* Faulty variant, for mutation checks only: a busy transmitter starts again.
NeverBusy == FALSE

IsBusy == m_txMachineState = "BUSY"

DequeueAck ==
    /\ InCall("DequeueAndTransmit") /\ ~IsBusy
    /\ AckIsNext
    /\ m_ackQ' = m_ackQ - 1
    /\ TransmitStart
    /\ stack' = Tail(stack)
    /\ UNCHANGED <<m_paused, m_qpGrp, m_rrlast, qp_vars, m_nextSend, triggers>>

DequeueQp(qp) ==
    /\ InCall("DequeueAndTransmit") /\ ~IsBusy
    /\ ~AckIsNext
    /\ IsNextQp(qp) /\ IsReadyToSend(qp)
    /\ GetNextPacket(qp)
    /\ stack' = (IF qp \in Unreliable /\ Head(to_send[qp]) = 1
                  THEN <<Notifying, Sending(qp)>> ELSE <<Sending(qp)>>) \o Tail(stack)
    /\ UNCHANGED <<m_txMachineState, m_paused, m_qpGrp, m_rrlast, m_nextAvail, gap, m_ackQ,
                   wake_vars, aborted>>

\* The user of an unreliable queue pair posts another request or does nothing.
OnSend ==
    /\ InCall("on_send")
    /\ \/ \E qp \in Range(m_qpGrp), n \in Lengths :
             /\ to_send[qp] = << >>
             /\ to_send' = [to_send EXCEPT ![qp] = <<n>>]
             /\ TriggerDevTransmit(qp)
       \/ UNCHANGED <<to_send, triggers>>
    /\ stack' = Tail(stack)
    /\ UNCHANGED <<m_txMachineState, m_paused, m_qpGrp, m_rrlast, m_nextAvail, gap, m_ackQ,
                   complete, m_nextSend, aborted>>

\* The completion of a flow runs another one, which opens a queue pair at the
\* same server: RegisterQP calls DequeueAndTransmit.
OnSendRegisters ==
    /\ InCall("on_send")
    /\ \E qp \in Qps \ Range(m_qpGrp) : m_qpGrp' = Append(m_qpGrp, qp)
    /\ stack' = <<Dequeuing>> \o Tail(stack)
    /\ UNCHANGED <<m_txMachineState, m_paused, m_rrlast, qp_vars, m_ackQ, wake_vars, aborted>>

IndexOf(qp) == (CHOOSE k \in DOMAIN m_qpGrp : m_qpGrp[k] = qp) - 1

\* The packet of `qp` is transmitted, and PktSent paces the queue pair.
SendQp(qp) ==
    /\ InCall("TransmitStart")
    /\ Head(stack) = Sending(qp)
    /\ m_rrlast' = IndexOf(qp)
    /\ TransmitStart
    /\ m_nextAvail' = [m_nextAvail EXCEPT ![qp] = gap[qp]]
    /\ stack' = Tail(stack)
    /\ UNCHANGED <<m_paused, m_qpGrp, to_send, gap, m_ackQ, m_nextSend, triggers>>

\* Faulty variant, for mutation checks only: those that must wait are forgotten.
ReadyWaiters == {qp \in Range(m_qpGrp) : IsReadyToSend(qp)}

\* The queue pairs that will be ready.
Waiters == {qp \in Range(m_qpGrp) : HasDataToSend(qp)}

NothingToDequeue ==
    /\ InCall("DequeueAndTransmit")
    /\ \/ IsBusy /\ UNCHANGED m_nextSend
       \/ /\ ~IsBusy
          /\ ~AckIsNext
          /\ \A qp \in Range(m_qpGrp) : ~IsReadyToSend(qp)
          /\ IF Waiters = {} THEN UNCHANGED m_nextSend
                             ELSE UpdateNextAvail(Nearest(Min({m_nextAvail[qp] : qp \in Waiters})))
    /\ stack' = Tail(stack)
    /\ UNCHANGED <<m_txMachineState, m_paused, m_qpGrp, m_rrlast, qp_vars, m_ackQ, complete,
                   triggers, aborted>>
-----------------------------------------------------------------------------
(* Events *)

Init ==
    /\ m_txMachineState = "READY"
    /\ complete = None
    /\ m_paused = [q \in Prios |-> FALSE]
    /\ m_qpGrp = << >>
    /\ m_rrlast = 0
    /\ to_send = [qp \in Qps |-> << >>]
    /\ m_nextAvail = [qp \in Qps |-> 0]
    /\ gap \in {g \in [Qps -> 1 .. MaxGap] : \A qp \in Qps : g[qp] \in Gaps[qp]}
    /\ m_ackQ = 0
    /\ m_nextSend = None
    /\ triggers = {}
    /\ stack = << >>
    /\ aborted = FALSE

Tick ==
    /\ Idle
    /\ complete # 0 /\ m_nextSend # 0 /\ 0 \notin triggers
    /\ complete' = Later(complete)
    /\ m_nextSend' = Later(m_nextSend)
    /\ triggers' = {t - 1 : t \in triggers}
    /\ m_nextAvail' = [qp \in Qps |-> Nearest(m_nextAvail[qp] - 1)]
    /\ UNCHANGED <<m_txMachineState, m_paused, m_qpGrp, m_rrlast, to_send, gap, m_ackQ,
                   stack, aborted>>

RegisterQP(qp) ==
    /\ Idle
    /\ qp \notin Range(m_qpGrp)
    /\ m_qpGrp' = Append(m_qpGrp, qp)
    /\ stack' = <<Dequeuing>>
    /\ UNCHANGED <<m_txMachineState, m_paused, m_rrlast, qp_vars, m_ackQ, wake_vars, aborted>>

\* PostSend with bound: a queue pair has one request at a time.
PostSend(qp, n) ==
    /\ Idle
    /\ qp \in Range(m_qpGrp)
    /\ to_send[qp] = << >>
    /\ to_send' = [to_send EXCEPT ![qp] = <<n>>]
    /\ TriggerDevTransmit(qp)
    /\ UNCHANGED <<m_txMachineState, m_paused, m_qpGrp, m_rrlast, m_nextAvail, gap, m_ackQ,
                   complete, m_nextSend, stack, aborted>>

\* RecoverNack rolls a reliable queue pair back.
Retransmit(qp) ==
    /\ Idle
    /\ qp \in Range(m_qpGrp) \ Unreliable
    /\ \E n \in Lengths :
          /\ to_send[qp] # << >> => Head(to_send[qp]) < n
          /\ to_send' = [to_send EXCEPT ![qp] = <<n>>]
    /\ TriggerDevTransmit(qp)
    /\ UNCHANGED <<m_txMachineState, m_paused, m_qpGrp, m_rrlast, m_nextAvail, gap, m_ackQ,
                   complete, m_nextSend, stack, aborted>>

\* A cumulative ACK moves m_snd_nxt past packets that were to be resent.
SkipAcked(qp) ==
    /\ Idle
    /\ qp \notin Unreliable
    /\ to_send[qp] # << >>
    /\ to_send' = [to_send EXCEPT ![qp] = << >>]
    /\ TriggerDevTransmit(qp)
    /\ UNCHANGED <<m_txMachineState, m_paused, m_qpGrp, m_rrlast, m_nextAvail, gap, m_ackQ,
                   complete, m_nextSend, stack, aborted>>

\* ReceiveUdp of a reliable queue pair answers: the ACK waits for the pace of
\* its own send queue.
EnqueueAck(qp) ==
    /\ Idle
    /\ qp \in Range(m_qpGrp) \ Unreliable
    /\ m_ackQ < AckCap
    /\ m_ackQ' = m_ackQ + 1
    /\ TriggerDevTransmit(qp)
    /\ UNCHANGED <<m_txMachineState, m_paused, m_qpGrp, m_rrlast, qp_vars, complete,
                   m_nextSend, stack, aborted>>

\* DCQCN gives the queue pair another rate.
SetRate(qp) ==
    /\ Idle
    /\ gap' \in {[gap EXCEPT ![qp] = g] : g \in Gaps[qp] \ {gap[qp]}}
    /\ UNCHANGED <<m_txMachineState, m_paused, m_qpGrp, m_rrlast, to_send, m_nextAvail, m_ackQ,
                   wake_vars, stack, aborted>>

TriggerTransmit ==
    /\ Idle
    /\ 0 \in triggers
    /\ triggers' = triggers \ {0}
    /\ stack' = <<Dequeuing>>
    /\ UNCHANGED <<m_txMachineState, m_paused, m_qpGrp, m_rrlast, qp_vars, m_ackQ, complete,
                   m_nextSend, aborted>>

NextSend ==
    /\ Idle
    /\ m_nextSend = 0
    /\ m_nextSend' = None
    /\ stack' = <<Dequeuing>>
    /\ UNCHANGED <<m_txMachineState, m_paused, m_qpGrp, m_rrlast, qp_vars, m_ackQ, complete,
                   triggers, aborted>>

\* Faulty variant, for mutation checks only: the next packet is not looked for.
NoCall == << >>

\* What TransmitComplete and Resume do in the end.
CallDequeue == <<Dequeuing>>

TransmitComplete ==
    /\ Idle
    /\ complete = 0
    /\ complete' = None
    /\ m_txMachineState' = "READY"
    /\ stack' = CallDequeue
    /\ UNCHANGED <<m_paused, m_qpGrp, m_rrlast, qp_vars, m_ackQ, m_nextSend, triggers, aborted>>

Pause(q) ==
    /\ Idle
    /\ ~m_paused[q]
    /\ m_paused' = [m_paused EXCEPT ![q] = TRUE]
    /\ UNCHANGED <<m_txMachineState, m_qpGrp, m_rrlast, qp_vars, m_ackQ, wake_vars, stack, aborted>>

Resume(q) ==
    /\ Idle
    /\ m_paused[q]
    /\ m_paused' = [m_paused EXCEPT ![q] = FALSE]
    /\ stack' = CallDequeue
    /\ UNCHANGED <<m_txMachineState, m_qpGrp, m_rrlast, qp_vars, m_ackQ, wake_vars, aborted>>

\* The rest of the present event.
Call ==
    \/ DequeueAck
    \/ \E qp \in Qps : DequeueQp(qp) \/ SendQp(qp)
    \/ OnSend
    \/ NothingToDequeue

Next ==
    \/ Call
    \/ TriggerTransmit \/ NextSend \/ TransmitComplete \/ Tick
    \/ \E qp \in Qps : RegisterQP(qp)
    \/ \E qp \in Qps, n \in Lengths : PostSend(qp, n)
    \/ \E qp \in Qps : Retransmit(qp) \/ SkipAcked(qp) \/ EnqueueAck(qp) \/ SetRate(qp)
    \/ \E q \in Prios : Pause(q) \/ Resume(q)

Spec == Init /\ [][Next]_vars

\* Flows that depend on the completion of an unreliable queue pair.
DependentSpec == Init /\ [][Next \/ OnSendRegisters]_vars

\* The event loop runs events in the order of their times, and finitely many of
\* them happen at one time: a due event runs and time passes, however often
\* other events come first.
Fairness ==
    /\ WF_vars(Call)
    /\ SF_vars(TriggerTransmit) /\ SF_vars(NextSend) /\ SF_vars(TransmitComplete)
    /\ SF_vars(Tick)

LiveSpec == Spec /\ Fairness

-----------------------------------------------------------------------------
(* Properties *)

TypeOK ==
    /\ m_txMachineState \in {"READY", "BUSY"}
    /\ complete \in {None, 0, 1}
    /\ (complete # None) = (m_txMachineState = "BUSY")
    /\ m_paused \in [Prios -> BOOLEAN]
    /\ IsInjective(m_qpGrp) /\ Range(m_qpGrp) \subseteq Qps
    /\ m_rrlast \in 0 .. Len(m_qpGrp)
    /\ \A qp \in Qps : \A k \in DOMAIN to_send[qp] : to_send[qp][k] \in Nat \ {0}
    /\ m_nextAvail \in [Qps -> 0 .. MaxGap]
    /\ \A qp \in Qps : gap[qp] \in Gaps[qp]
    /\ m_ackQ \in 0 .. AckCap
    /\ m_nextSend \in None .. MaxGap
    /\ triggers \subseteq 0 .. MaxGap
    /\ aborted \in BOOLEAN

\* The assertion of TransmitStart: it never finds the transmitter busy, although
\* an on_send callback runs between the choice of a packet and its transmission
\* and may post another request (but it must not register a queue pair).
TransmitsWhenReady == ~aborted

\* The delay of the next call of DequeueAndTransmit.
Wakeups == triggers \union ({m_nextSend, complete} \ {None})

\* No lost wake-up: between two events, a queue pair that may send at a time
\* will be looked at by then, unless the transmitter is busy.  An ACK is not
\* forgotten either, but it may wait for the pace of its queue pair.
NoLostWakeup ==
    stack = << >> /\ ~aborted =>
        /\ AckIsNext => Wakeups # {}
        /\ m_txMachineState = "READY" =>
               \A qp \in Range(m_qpGrp) : HasDataToSend(qp) =>
                   \E t \in Wakeups : t <= Nearest(m_nextAvail[qp])

\* A queue pair that is neither paused for ever nor kept out by ACKs for ever is
\* served again and again while it has packets: the rounds of GetNextQindex
\* start after the last one served.
EveryQpIsServed ==
    \A qp \in Qps :
        <>[](~m_paused[Prio[qp]] /\ m_ackQ = 0 /\ to_send[qp] # << >>)
            => []<><<SendQp(qp)>>_vars
=============================================================================
