---------------------------- MODULE UdMulticast ----------------------------
(***************************************************************************)
(* One flow of an unreliable queue pair through the switches of a network: *)
(* from a server to the members of a multicast group, or to one server.    *)
(* The bound MaxPosts limits the requests of the flow.                     *)
(***************************************************************************)
EXTENDS UnreliableQP, SwitchRouting

CONSTANTS Sources, MaxPosts

\* Every server has a receive queue.
ASSUME FlowAssumption ==
    /\ \A n \in DOMAIN Topology : Topology[n].servers \subseteq Receivers
    /\ MaxPosts \in Nat

VARIABLES
    flow,           \* its source, the members of the group, and `dip` if unicast
    transmitted,    \* history: the packets the source sent
    passed          \* history: by switch, the psns of the packets that came in

vars == <<sq_vars, notified, route_vars, group_vars, queue, dropped, flow, transmitted, passed>>

\* A server that is in the group does not get the packets it sends.
Destinations == IF flow.multicast THEN flow.members \ {flow.src} ELSE {flow.dip}

Flows(servers) ==
    {f \in [src : Sources \intersect servers, multicast : BOOLEAN, members : SUBSET servers, dip : servers] :
        \/ f.multicast  /\ f.members # {} /\ f.dip = f.src
        \/ ~f.multicast /\ f.members = {} /\ f.dip # f.src}

Init ==
    /\ net \in DOMAIN Topology
    /\ flow \in Flows(Topology[net].servers)
    /\ RouteInit(flow.members)
    /\ QpInit
    /\ transmitted = << >>
    /\ passed = [v \in Switches(Topology[net]) |-> << >>]

\* The groups are known before the first flow starts.
NetworkIsBuilt == calls = << >>

Build ==
    /\ AddGroup
    /\ UNCHANGED <<sq_vars, notified, flow, transmitted, passed>>

Post ==
    /\ NetworkIsBuilt /\ Len(posted) < MaxPosts
    /\ \E sr \in SendRequest, flags \in SendFlags : PostSend(sr, flags)
    /\ UNCHANGED <<route_vars, group_vars, queue, dropped, flow, transmitted, passed>>

Transmit ==
    /\ GetNextPacket
    /\ SwitchSend(flow.src, NextPacket)
    /\ transmitted' = Append(transmitted, NextPacket)
    /\ UNCHANGED <<route_vars, group_vars, dropped, flow, passed>>

Hop(dev) ==
    /\ SwitchReceiveFromDevice(dev, flow.multicast, flow.dip)
    /\ passed' = [passed EXCEPT ![dev[2]] = Append(@, Head(queue[dev]).psn)]
    /\ UNCHANGED <<sq_vars, notified, flow, transmitted>>

Deliver(dev) ==
    /\ queue[dev] # << >>
    /\ ~IsSwitchNode(dev[2])
    /\ ReceiveUdp(dev[2], Head(queue[dev]))
    /\ queue' = [queue EXCEPT ![dev] = Tail(@)]
    /\ UNCHANGED <<route_vars, group_vars, dropped, flow, transmitted, passed>>

Next ==
    \/ Build
    \/ Post
    \/ Transmit
    \/ \E dev \in devices : Hop(dev) \/ Deliver(dev)

Spec == Init /\ [][Next]_vars

-----------------------------------------------------------------------------
IsIncreasing(s) == \A i, j \in DOMAIN s : i < j => s[i] < s[j]
Psns(s) == [i \in DOMAIN s |-> s[i].psn]

\* Each destination is notified of the packets in the order they were sent and
\* at most once for each, and no other server is: the flood tells the switches
\* of the members only, and the uplink that a switch elects is the same for all
\* packets of a flow.
DeliveredInOrderOnce ==
    \A s \in Receivers :
        /\ IsIncreasing(Psns(notified[s]))
        /\ \A i \in DOMAIN notified[s] : \E j \in DOMAIN transmitted :
               /\ notified[s][i].psn = transmitted[j].psn
               /\ notified[s][i].imm = transmitted[j].imm
        /\ s \notin Destinations => notified[s] = << >>

\* When nothing was dropped and nothing is on its way, every destination has
\* been notified of every packet: each switch has learnt every port that leads
\* to a member, through whatever devices the calls of AddGroup went.
ReachesEveryMember ==
    (\A d \in DOMAIN queue : queue[d] = << >>) /\ dropped = 0 =>
        \A s \in Destinations : Psns(notified[s]) = Psns(transmitted)

\* No packet comes twice to a switch, in whichever copy, and the packets come
\* in order: the tree a packet takes has no cycle and no two ways to a node.
NoSwitchSeesTwice == \A v \in DOMAIN passed : IsIncreasing(passed[v])
=============================================================================
