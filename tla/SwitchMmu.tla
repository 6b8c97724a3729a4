----------------------------- MODULE SwitchMmu -----------------------------
(***************************************************************************)
(* The shared packet buffer of one switch and its priority flow control    *)
(* (PFC): SwitchMmu, the forwarding functions of SwitchNode that call it,  *)
(* and the pause state of the neighbour behind each port.                  *)
(*                                                                         *)
(* Every queued packet is charged to the port it came from: first to a     *)
(* reserve, then to the memory all ports share, and once its share is used *)
(* up to the port's headroom.  A neighbour that reaches its threshold gets *)
(* a PAUSE frame, and a RESUME frame when its packets have left.           *)
(*                                                                         *)
(* Which port a packet leaves by is the routing's choice and the time it   *)
(* leaves is the transmitter's: both are arbitrary here.  The output       *)
(* queues hold 1000 MiB, much more than the buffer, and are unbounded.     *)
(* Priority 0 carries PFC frames and is not accounted.  ECN marking and    *)
(* m_bytes, which only the monitors read, are left out.                    *)
(***************************************************************************)
EXTENDS Naturals, Sequences, FiniteSetsExt, Functions, SequencesExt

CONSTANTS
    Ports,          \* the interface indices of the switch
    Prios,          \* the PFC priorities in use, without 0
    Sizes,          \* packet sizes
    BufferSize,     \* m_buffer_size
    Reserve,        \* reserve
    ResumeOffset,   \* resume_offset
    headroom,       \* headroom[port]
    total_hdrm,     \* what ConfigNPort computes from the two above
    total_rsrv,
    Divisor,        \* 2 ^ pfc_a_shift[port]
    OutSets,        \* the sets of ports that a multicast packet is sent to
    QueueCap,       \* bound: packets in one output queue
    FrameCap        \* bound: PFC frames on their way to one neighbour

ASSUME PortsAssumption ==
    /\ Ports \subseteq Nat
    /\ IsFiniteSet(Ports)
    /\ IsFiniteSet(Prios)
    /\ Sizes \subseteq Nat \ {0}
    /\ OutSets \in SUBSET (SUBSET Ports)
    /\ QueueCap \in Nat
    /\ FrameCap \in Nat

ASSUME MemoryAssumption ==
    /\ BufferSize \in Nat
    /\ Reserve \in Nat
    /\ ResumeOffset \in Nat
    /\ headroom \in [Ports -> Nat]
    /\ total_hdrm \in Nat
    /\ total_rsrv \in Nat
    /\ Divisor \in [Ports -> Nat \ {0}]

ConfigNPort ==
    /\ total_hdrm = SumFunction(headroom)
    /\ total_rsrv = Reserve * Cardinality(Ports)

ASSUME ConfigAssumption == ConfigNPort

VARIABLES
    hdrm_bytes,         \* by port and priority
    ingress_bytes,
    egress_bytes,
    paused,             \* has a PAUSE been sent, and no RESUME since?
    shared_used_bytes,
    queues,             \* the packets queued for each output, by priority
    multicast,          \* the loop of SendMultiToDevs: at most one runs
    pfc,                \* PFC frames on their way to each neighbour
    m_paused            \* the neighbour's QbbNetDevice::m_paused

ingress_vars == <<hdrm_bytes, ingress_bytes, shared_used_bytes>>
mmu_vars     == <<ingress_vars, egress_bytes, paused>>
vars         == <<mmu_vars, queues, multicast, pfc, m_paused>>

Packet == [in: Ports, size: Sizes]
Frame  == [prio: Prios, pause: BOOLEAN]

-----------------------------------------------------------------------------
(* SwitchMmu *)

MinOf(a, b) == IF a < b THEN a ELSE b

GetSharedUsed(port, q) ==
    IF ingress_bytes[port][q] > Reserve THEN ingress_bytes[port][q] - Reserve ELSE 0

\* Faulty variant, for mutation checks only: the headroom is not set aside.
ThresholdWithoutHeadroom(port) ==
    (BufferSize - total_rsrv - shared_used_bytes) \div Divisor[port]

GetPfcThreshold(port) ==
    IF BufferSize < total_hdrm + total_rsrv + shared_used_bytes
    THEN 0
    ELSE (BufferSize - total_hdrm - total_rsrv - shared_used_bytes) \div Divisor[port]

\* Faulty variant, for mutation checks only: the packet itself is not counted.
CheckHeadroomLeft(port, q, psize) ==
    \/ hdrm_bytes[port][q] <= headroom[port]
    \/ psize + GetSharedUsed(port, q) <= GetPfcThreshold(port)

CheckIngressAdmission(port, q, psize) ==
    \/ psize + hdrm_bytes[port][q] <= headroom[port]
    \/ psize + GetSharedUsed(port, q) <= GetPfcThreshold(port)

\* Faulty variant, for mutation checks only: a packet that starts in the
\* reserve is charged to the shared memory as a whole.
UpdateAllShared(port, q, psize) ==
    LET new_bytes == ingress_bytes[port][q] + psize
    IN  IF new_bytes <= Reserve \/ new_bytes - Reserve <= GetPfcThreshold(port)
        THEN /\ ingress_bytes' = [ingress_bytes EXCEPT ![port][q] = new_bytes]
             /\ shared_used_bytes' =
                    shared_used_bytes + (IF new_bytes <= Reserve THEN 0 ELSE psize)
             /\ UNCHANGED hdrm_bytes
        ELSE /\ hdrm_bytes' = [hdrm_bytes EXCEPT ![port][q] = @ + psize]
             /\ UNCHANGED <<ingress_bytes, shared_used_bytes>>

UpdateIngressAdmission(port, q, psize) ==
    LET new_bytes == ingress_bytes[port][q] + psize
        fits      == \/ new_bytes <= Reserve
                     \/ new_bytes - Reserve <= GetPfcThreshold(port)
        shared    == IF new_bytes <= Reserve THEN 0
                                             ELSE MinOf(psize, new_bytes - Reserve)
    IN  IF fits
        THEN /\ ingress_bytes' = [ingress_bytes EXCEPT ![port][q] = new_bytes]
             /\ shared_used_bytes' = shared_used_bytes + shared
             /\ UNCHANGED hdrm_bytes
        ELSE /\ hdrm_bytes' = [hdrm_bytes EXCEPT ![port][q] = @ + psize]
             /\ UNCHANGED <<ingress_bytes, shared_used_bytes>>

\* Faulty variant, for mutation checks only: the headroom is released last.
RemoveFromIngressFirst(port, q, psize) ==
    LET from_shared == MinOf(psize, GetSharedUsed(port, q))
    IN  /\ ingress_bytes' = [ingress_bytes EXCEPT ![port][q] = @ - psize]
        /\ shared_used_bytes' = shared_used_bytes - from_shared
        /\ UNCHANGED hdrm_bytes

RemoveFromIngressAdmission(port, q, psize) ==
    LET from_hdrm   == MinOf(hdrm_bytes[port][q], psize)
        from_shared == MinOf(psize - from_hdrm, GetSharedUsed(port, q))
    IN  /\ hdrm_bytes' = [hdrm_bytes EXCEPT ![port][q] = @ - from_hdrm]
        /\ ingress_bytes' = [ingress_bytes EXCEPT ![port][q] = @ - (psize - from_hdrm)]
        /\ shared_used_bytes' = shared_used_bytes - from_shared

\* What CheckShouldPause looks at, besides paused.
IsCongested(port, q) ==
    \/ hdrm_bytes[port][q] > 0
    \/ GetSharedUsed(port, q) >= GetPfcThreshold(port)

\* Faulty variant, for mutation checks only: the headroom is not looked at.
IsRelievedOfShared(port, q) ==
    \/ GetSharedUsed(port, q) = 0
    \/ GetSharedUsed(port, q) + ResumeOffset <= GetPfcThreshold(port)

\* What CheckShouldResume looks at, besides paused.
IsRelieved(port, q) ==
    /\ hdrm_bytes[port][q] = 0
    /\ \/ GetSharedUsed(port, q) = 0
       \/ GetSharedUsed(port, q) + ResumeOffset <= GetPfcThreshold(port)

-----------------------------------------------------------------------------
(* SwitchNode.  The thresholds are evaluated after the MMU was updated: the *)
(* primes need ports and priorities that are constants of the step.         *)

\* Faulty variant, for mutation checks only: a frame overtakes those before it.
SendPfcFirst(port, q, pause) ==
    pfc' = [pfc EXCEPT ![port] = <<[prio |-> q, pause |-> pause]>> \o @]

SendPfc(port, q, pause) ==
    pfc' = [pfc EXCEPT ![port] = Append(@, [prio |-> q, pause |-> pause])]

CheckAndSendPfc(port, q) ==
    IF ~paused[port][q] /\ IsCongested(port, q)'
    THEN SendPfc(port, q, TRUE) /\ paused' = [paused EXCEPT ![port][q] = TRUE]
    ELSE UNCHANGED <<pfc, paused>>

\* Faulty variant, for mutation checks only: the check before the update.
ResumeCheckedTooEarly(port, q) ==
    IF paused[port][q] /\ IsRelieved(port, q)
    THEN SendPfc(port, q, FALSE) /\ paused' = [paused EXCEPT ![port][q] = FALSE]
    ELSE UNCHANGED <<pfc, paused>>

CheckAndSendResume(port, q) ==
    IF paused[port][q] /\ IsRelieved(port, q)'
    THEN SendPfc(port, q, FALSE) /\ paused' = [paused EXCEPT ![port][q] = FALSE]
    ELSE UNCHANGED <<pfc, paused>>

NoMulticast == [active |-> FALSE]

Init ==
    /\ hdrm_bytes = [port \in Ports |-> [q \in Prios |-> 0]]
    /\ ingress_bytes = [port \in Ports |-> [q \in Prios |-> 0]]
    /\ egress_bytes = [port \in Ports |-> [q \in Prios |-> 0]]
    /\ paused = [port \in Ports |-> [q \in Prios |-> FALSE]]
    /\ shared_used_bytes = 0
    /\ queues = [port \in Ports |-> [q \in Prios |-> << >>]]
    /\ multicast = NoMulticast
    /\ pfc = [port \in Ports |-> << >>]
    /\ m_paused = [port \in Ports |-> [q \in Prios |-> FALSE]]

\* A unicast packet from port `in` is queued for port `out`, or dropped.
SendToDev(in, out, q, psize) ==
    /\ multicast = NoMulticast
    /\ out # in
    /\ Len(queues[out][q]) < QueueCap
    /\ Len(pfc[in]) < FrameCap
    /\ CheckIngressAdmission(in, q, psize)
    /\ UpdateIngressAdmission(in, q, psize)
    /\ egress_bytes' = [egress_bytes EXCEPT ![out][q] = @ + psize]
    /\ CheckAndSendPfc(in, q)
    /\ queues' = [queues EXCEPT ![out][q] = Append(@, [in |-> in, size |-> psize])]
    /\ UNCHANGED <<multicast, m_paused>>

\* A multicast packet from port `in` starts the loop over the output ports
\* `outs`.  No other event runs until MulticastSend.
SendMultiToDevs(in, outs, q, psize) ==
    /\ multicast = NoMulticast
    /\ in \notin outs
    /\ \A out \in outs : Len(queues[out][q]) < QueueCap
    /\ Len(pfc[in]) < FrameCap
    /\ multicast' = [active |-> TRUE, in |-> in, prio |-> q, size |-> psize,
                     outs |-> outs, tosend |-> {}]
    /\ UNCHANGED <<mmu_vars, queues, pfc, m_paused>>

\* One iteration: a copy for port `out` is admitted on its own, or dropped.
MulticastCopy(out) ==
    LET in    == multicast.in
        q     == multicast.prio
        psize == multicast.size
        rest  == multicast.outs \ {out}
    IN  /\ IF CheckIngressAdmission(in, q, psize)
           THEN /\ UpdateIngressAdmission(in, q, psize)
                /\ egress_bytes' = [egress_bytes EXCEPT ![out][q] = @ + psize]
                /\ multicast' = [multicast EXCEPT !.outs = rest, !.tosend = @ \union {out}]
           ELSE /\ multicast' = [multicast EXCEPT !.outs = rest]
                /\ UNCHANGED <<ingress_vars, egress_bytes>>
        /\ UNCHANGED <<paused, queues, pfc, m_paused>>

\* After the loop, even if no copy was admitted.
MulticastSend(in, q) ==
    LET copied == [in |-> in, size |-> multicast.size]
    IN  /\ multicast.in = in /\ multicast.prio = q /\ multicast.outs = {}
        /\ UNCHANGED <<ingress_vars, egress_bytes, m_paused>>
        /\ CheckAndSendPfc(in, q)
        /\ queues' = [out \in Ports |->
                         IF out \in multicast.tosend
                         THEN [queues[out] EXCEPT ![q] = Append(@, copied)]
                         ELSE queues[out]]
        /\ multicast' = NoMulticast

MulticastStep ==
    /\ multicast.active
    /\ \/ \E out \in multicast.outs :
             /\ \A other \in multicast.outs : out <= other
             /\ MulticastCopy(out)
       \/ \E in \in Ports, q \in Prios : MulticastSend(in, q)

\* The transmitter of port `out` takes a packet of priority q that came from
\* port `in`.
SwitchNotifyDequeue(in, out, q) ==
    /\ multicast = NoMulticast
    /\ queues[out][q] # << >>
    /\ Head(queues[out][q]).in = in
    /\ Len(pfc[in]) < FrameCap
    /\ LET psize == Head(queues[out][q]).size
       IN  /\ RemoveFromIngressAdmission(in, q, psize)
           /\ egress_bytes' = [egress_bytes EXCEPT ![out][q] = @ - psize]
    /\ CheckAndSendResume(in, q)
    /\ queues' = [queues EXCEPT ![out][q] = Tail(@)]
    /\ UNCHANGED <<multicast, m_paused>>

\* The neighbour behind `port` gets a PFC frame.
ReceivePfc(port) ==
    /\ multicast = NoMulticast
    /\ pfc[port] # << >>
    /\ LET frame == Head(pfc[port])
       IN  m_paused' = [m_paused EXCEPT ![port][frame.prio] = frame.pause]
    /\ pfc' = [pfc EXCEPT ![port] = Tail(@)]
    /\ UNCHANGED <<mmu_vars, queues, multicast>>

\* The link of `port` has an error model, and it drops a PFC frame.
LosePfc(port) ==
    /\ multicast = NoMulticast
    /\ pfc[port] # << >>
    /\ pfc' = [pfc EXCEPT ![port] = Tail(@)]
    /\ UNCHANGED <<mmu_vars, queues, multicast, m_paused>>

Next ==
    \/ \E in \in Ports, q \in Prios, psize \in Sizes :
          \/ \E out \in Ports : SendToDev(in, out, q, psize)
          \/ \E outs \in OutSets : SendMultiToDevs(in, outs, q, psize)
    \/ MulticastStep
    \/ \E in \in Ports, out \in Ports, q \in Prios : SwitchNotifyDequeue(in, out, q)
    \/ \E port \in Ports : ReceivePfc(port)

\* No PFC frame is lost.
Spec == Init /\ [][Next]_vars

\* Links with an error model.
LossySpec == Init /\ [][Next \/ \E port \in Ports : LosePfc(port)]_vars

\* Neighbours that send nothing of a priority for which they are paused, over
\* links without length, and outputs that keep sending.
RespectfulNext ==
    \/ \E in \in Ports, q \in Prios, psize \in Sizes :
          /\ ~m_paused[in][q]
          /\ \/ \E out \in Ports : SendToDev(in, out, q, psize)
             \/ \E outs \in OutSets : SendMultiToDevs(in, outs, q, psize)
    \/ MulticastStep
    \/ \E in \in Ports, out \in Ports, q \in Prios : SwitchNotifyDequeue(in, out, q)
    \/ \E port \in Ports : ReceivePfc(port)

\* Fairness is strong because the loop of SendMultiToDevs, one event in the program,
\* disables the other actions for some steps here.
RespectfulSpec ==
    /\ Init /\ [][RespectfulNext]_vars
    /\ WF_vars(MulticastStep)
    /\ \A out \in Ports, q \in Prios : SF_vars(\E in \in Ports : SwitchNotifyDequeue(in, out, q))
    /\ \A port \in Ports : SF_vars(ReceivePfc(port))

-----------------------------------------------------------------------------
(* Properties *)

Multicast == [active: {FALSE}] \union
             [active: {TRUE}, in: Ports, prio: Prios, size: Sizes,
              outs: SUBSET Ports, tosend: SUBSET Ports]

\* The byte counters are unsigned in C++: a Nat here means that none of them
\* underflows (the NS_ABORTs of RemoveFromIngressAdmission never fire).
TypeOK ==
    /\ hdrm_bytes \in [Ports -> [Prios -> Nat]]
    /\ ingress_bytes \in [Ports -> [Prios -> Nat]]
    /\ egress_bytes \in [Ports -> [Prios -> Nat]]
    /\ paused \in [Ports -> [Prios -> BOOLEAN]]
    /\ shared_used_bytes \in Nat
    /\ queues \in [Ports -> [Prios -> Seq(Packet)]]
    /\ multicast \in Multicast
    /\ pfc \in [Ports -> Seq(Frame)]
    /\ m_paused \in [Ports -> [Prios -> BOOLEAN]]

\* The headroom of a port is never exceeded by one of its priorities, although
\* CheckIngressAdmission admits a packet that exceeds it when the shared memory
\* has room, and UpdateIngressAdmission decides anew where to charge it.
HeadroomRespected ==
    \A port \in Ports, q \in Prios : hdrm_bytes[port][q] <= headroom[port]

\* While packets of a neighbour are in the headroom it has been told to pause,
\* except inside the loop of SendMultiToDevs, which sends the frame at its end.
HeadroomUseIsPaused ==
    \A port \in Ports, q \in Prios :
        hdrm_bytes[port][q] > 0 =>
            \/ paused[port][q]
            \/ multicast.active /\ multicast.in = port /\ multicast.prio = q

\* The neighbour is paused and no packet of its is queued whose departure would
\* check whether to resume it (SwitchNotifyDequeue).
Stranded(port, q) == paused[port][q] /\ hdrm_bytes[port][q] + ingress_bytes[port][q] = 0

\* No departure strands a neighbour, although it checks once and thresholds and
\* headroom change on the way, and no copy that was made does.  What strands one is
\* the check of SendMultiToDevs for a packet of which no copy was made, because it
\* goes to no port or none was admitted, while the threshold of the port is 0.
OnlyLostMulticastsStrand ==
    [][\A port \in Ports, q \in Prios :
          ~Stranded(port, q) /\ Stranded(port, q)' =>
              /\ multicast.active /\ multicast.in = port /\ multicast.prio = q
              /\ multicast.outs = {} /\ multicast.tosend = {}
              /\ GetPfcThreshold(port) = 0]_vars

\* A paused device is eventually resumed (CheckAndSendResume, Resume): a pause has
\* an end, as qbb-net-device.cc:189 says of PauseTime: "Time to pause upon
\* congestion".  It supposes neighbours that send nothing while they are paused.
PauseEnds ==
    \A port \in Ports, q \in Prios : m_paused[port][q] ~> ~m_paused[port][q]

\* Bytes of the packets of a sequence, or of those that came from one port.
Bytes(s) == SumFunction([i \in DOMAIN s |-> s[i].size])
BytesFrom(s, port) ==
    SumFunction([i \in DOMAIN s |-> IF s[i].in = port THEN s[i].size ELSE 0])

\* Bytes from a port in the queues of all outputs.
QueuedFrom(port, q) == SumFunction([out \in Ports |-> BytesFrom(queues[out][q], port)])

\* Bytes that the loop of SendMultiToDevs has admitted and not queued yet.
CopiedFrom(port, q) ==
    IF multicast.active /\ multicast.in = port /\ multicast.prio = q
    THEN multicast.size * Cardinality(multicast.tosend) ELSE 0
CopiedTo(port, q) ==
    IF multicast.active /\ multicast.prio = q /\ port \in multicast.tosend
    THEN multicast.size ELSE 0

\* The counters agree with the queues: what a port is charged for is what
\* came from it and has not left, whatever thresholds applied on the way, and
\* the shared memory in use is what the ports use beyond their reserves.
AccountingMatchesQueues ==
    /\ \A port \in Ports, q \in Prios :
          /\ hdrm_bytes[port][q] + ingress_bytes[port][q] =
                 QueuedFrom(port, q) + CopiedFrom(port, q)
          /\ egress_bytes[port][q] = Bytes(queues[port][q]) + CopiedTo(port, q)
    /\ shared_used_bytes =
           SumFunction([pq \in Ports \X Prios |-> GetSharedUsed(pq[1], pq[2])])

\* The buffer holds every headroom and every reserve, and PFC is used on one
\* priority: a port has one headroom, which is offered to each of its priorities.
BufferIsConfigured ==
    /\ total_hdrm + total_rsrv <= BufferSize
    /\ Cardinality(Prios) = 1

\* The packets queued in the switch fit in its buffer.
BufferRespected ==
    SumFunction([pq \in Ports \X Prios |->
                    hdrm_bytes[pq[1]][pq[2]] + ingress_bytes[pq[1]][pq[2]]]) <= BufferSize

\* What a neighbour's pause state becomes when it gets the frames of s.
AfterFrames(port, q, s) ==
    LET last == SelectLastInSeq(s, LAMBDA frame : frame.prio = q)
    IN  IF last = 0 THEN m_paused[port][q] ELSE s[last].pause

\* The switch and its neighbours agree on who is paused, frames in flight
\* included, and a RESUME frame only reaches a device that is paused, as the
\* assertion "Must be PAUSEd" of QbbNetDevice::Resume demands.
PauseStatesAgree ==
    \A port \in Ports :
        /\ \A q \in Prios : AfterFrames(port, q, pfc[port]) = paused[port][q]
        /\ pfc[port] # << >> /\ ~Head(pfc[port]).pause
               => m_paused[port][Head(pfc[port]).prio]
=============================================================================
