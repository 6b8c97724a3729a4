------------------------------ MODULE PfcLink ------------------------------
(***************************************************************************)
(* A switch (SwitchMmu) and the neighbours that send to it: the devices    *)
(* respect the PAUSE and RESUME frames they have received, and the links   *)
(* have a length.  Packets that left a device before a PAUSE reached it    *)
(* still arrive; the headroom is there for them.                           *)
(*                                                                         *)
(* Time appears only as a length: a link holds at most LinkCap packets in  *)
(* one direction, so a device can send at most LinkCap packets while a     *)
(* frame travels towards it, and one more while the frame waits for the    *)
(* transmission in progress at the switch.                                 *)
(*                                                                         *)
(* Unicast traffic only: SendMultiToDevs charges a multicast packet once   *)
(* for each copy, which multiplies what a link can bring.                  *)
(***************************************************************************)
EXTENDS SwitchMmu

CONSTANT LinkCap   \* packets in flight on a link, in one direction

ASSUME LinkAssumption == LinkCap \in Nat \ {0}

VARIABLES
    wire,      \* packets on their way from each neighbour to the switch
    late       \* late[port][i]: the packets the neighbour may still send
               \* before the frame pfc[port][i] arrives

link_vars == <<vars, wire, late>>

LinkInit ==
    /\ Init
    /\ wire = [port \in Ports |-> << >>]
    /\ late = [port \in Ports |-> << >>]

\* A frame that was just sent may arrive after LinkCap + 1 more packets.
NewFramesAreLate ==
    late' = [port \in Ports |->
                IF Len(pfc'[port]) > Len(pfc[port])
                THEN Append(late[port], LinkCap + 1) ELSE late[port]]

\* The neighbour behind `port` starts to transmit (DequeueAndTransmit).
NeighbourSends(port, q, psize) ==
    /\ ~m_paused[port][q]
    /\ Len(wire[port]) < LinkCap
    /\ \A i \in DOMAIN late[port] : late[port][i] > 0
    /\ wire' = [wire EXCEPT ![port] = Append(@, [prio |-> q, size |-> psize])]
    /\ late' = [late EXCEPT ![port] = [i \in DOMAIN @ |-> @[i] - 1]]
    /\ UNCHANGED vars

\* The switch gets the packet at the head of the wire.
SwitchReceives(port) ==
    /\ wire[port] # << >>
    /\ \E q \in Prios, psize \in Sizes :
          /\ Head(wire[port]) = [prio |-> q, size |-> psize]
          /\ \/ \E out \in Ports : SendToDev(port, out, q, psize)
             \/ ~CheckIngressAdmission(port, q, psize) /\ UNCHANGED vars
    /\ wire' = [wire EXCEPT ![port] = Tail(@)]
    /\ NewFramesAreLate

SwitchSends(out, q) ==
    /\ \E in \in Ports : SwitchNotifyDequeue(in, out, q)
    /\ NewFramesAreLate
    /\ UNCHANGED wire

FrameArrives(port) ==
    /\ ReceivePfc(port)
    /\ late' = [late EXCEPT ![port] = Tail(@)]
    /\ UNCHANGED wire

LinkNext ==
    \/ \E port \in Ports, q \in Prios, psize \in Sizes : NeighbourSends(port, q, psize)
    \/ \E port \in Ports : SwitchReceives(port)
    \/ \E out \in Ports, q \in Prios : SwitchSends(out, q)
    \/ \E port \in Ports : FrameArrives(port)

\* What is in flight arrives, and the outputs of the switch keep sending: the
\* devices behind them do not pause them for ever.
LinkFairness ==
    /\ \A port \in Ports : WF_link_vars(SwitchReceives(port)) /\ WF_link_vars(FrameArrives(port))
    /\ \A out \in Ports, q \in Prios : WF_link_vars(SwitchSends(out, q))

LinkSpec == LinkInit /\ [][LinkNext]_link_vars /\ LinkFairness

-----------------------------------------------------------------------------
(* Properties *)

\* For any packet, the headroom has room for the one that causes the PAUSE, the
\* LinkCap - 1 behind it, and the LinkCap + 1 sent before the PAUSE arrives.
HeadroomCovers ==
    \A port \in Ports, psize \in Sizes : psize * (2 * LinkCap + 1) <= headroom[port]

\* PFC is lossless: no packet of a neighbour that respects PFC is dropped by
\* CheckIngressAdmission, if the headroom covers what a link can still bring.
NothingIsDropped ==
    \A port \in Ports :
        wire[port] # << >> =>
            CheckIngressAdmission(port, Head(wire[port]).prio, Head(wire[port]).size)
=============================================================================
