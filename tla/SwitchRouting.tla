---------------------------- MODULE SwitchRouting ----------------------------
(***************************************************************************)
(* How the switches of a RdmaNetwork find the way of a packet: the routes  *)
(* and uplinks computed when the network is built, the flood by which the  *)
(* members of a multicast group make themselves known, and the choice of   *)
(* the output ports.  A device is the pair <<a, b>> of its node and the    *)
(* node at the other end of its link; node numbers order the devices.      *)
(* The buffers of a switch are the matter of SwitchMmu: here a switch may  *)
(* drop any copy that it makes, MaxDrops times in all.                     *)
(***************************************************************************)
EXTENDS Naturals, Sequences, FiniteSets, FiniteSetsExt

CONSTANTS
    Topology,       \* networks by name: records of `servers` and `devices`
    Hashes,         \* values of EcmpHash
    MaxDrops

VARIABLES
    net,            \* the name of the network of this behaviour
    ecmp,           \* by switch with a choice: EcmpHash of the flow and the seed of the switch
    calls,          \* calls of AddGroup to come, the innermost first
    m_groups,       \* devices that have joined the group
    m_ogroups,      \* by switch: the devices that lead to a member
    queue,          \* by device: the packets it has to send
    dropped         \* number of copies refused by a switch

route_vars == <<net, ecmp>>
group_vars == <<calls, m_groups, m_ogroups>>

Nodes(nw)    == {d[1] : d \in nw.devices}
Switches(nw) == Nodes(nw) \ nw.servers
Peer(d)      == <<d[2], d[1]>>

\* Breadth-first search from `from` that expands nodes of `through` only.
Distance(nw, from, through) ==
    LET expanded == from \union through
        ball(inner) == inner \union {d[2] : d \in {e \in nw.devices : e[1] \in inner \intersect expanded}}
        balls[n \in 0 .. Cardinality(Nodes(nw))] ==
            IF n = 0 THEN <<from>>
            ELSE LET smaller == balls[n - 1] IN Append(smaller, ball(smaller[n]))
        all == balls[Cardinality(Nodes(nw))]
    IN  [v \in Nodes(nw) |-> Cardinality({i \in DOMAIN all : v \notin all[i]})]

\* Links join nodes whose distances to the servers differ by one, or Rebuild aborts.
IsLayered(nw) ==
    LET dist == Distance(nw, nw.servers, Nodes(nw))
    IN  \A d \in nw.devices : dist[d[1]] # dist[d[2]]

ASSUME NetworksAssumption ==
    /\ \A n \in DOMAIN Topology : LET nw == Topology[n] IN
           /\ nw.devices \subseteq Nat \X Nat /\ IsFiniteSet(nw.devices)
           /\ \A d \in nw.devices : Peer(d) \in nw.devices
           /\ \A s \in nw.servers : Cardinality({d \in nw.devices : d[1] = s}) = 1
           /\ IsLayered(nw)
    /\ Hashes \subseteq Nat /\ MaxDrops \in Nat

\* The devices of switches that lead away from the servers.
Rebuild(nw) ==
    LET dist == Distance(nw, nw.servers, Nodes(nw))
    IN  {d \in nw.devices : d[1] \notin nw.servers /\ dist[d[2]] = dist[d[1]] + 1}

\* By switch: the next hops to `host`.  Packets never go through a server.
BuildRoute(nw, host) ==
    LET dist == Distance(nw, {host}, Switches(nw))
    IN  [v \in Switches(nw) |->
            {d \in nw.devices : /\ d[1] = v
                                /\ dist[v] = dist[d[2]] + 1
                                /\ d[2] \in Switches(nw) \union {host}}]

\* Both are computed when the network is built, and do not change.
Uplinks == [n \in DOMAIN Topology |-> Rebuild(Topology[n])]
RoutingTables ==
    [n \in DOMAIN Topology |->
        [host \in Topology[n].servers |-> BuildRoute(Topology[n], host)]]

devices   == Topology[net].devices
m_uplink  == Uplinks[net]
m_rtTable == RoutingTables[net]

Devices(v)      == {d \in devices : d[1] = v}
IsSwitchNode(v) == v \notin Topology[net].servers

\* The devices in the order of the loops over them.
InOrder(devs) ==
    LET before(d) == {e \in devs : e[1] < d[1] \/ (e[1] = d[1] /\ e[2] < d[2])}
    IN  [i \in 1 .. Cardinality(devs) |-> CHOOSE d \in devs : Cardinality(before(d)) = i - 1]

\* The NIC of each member, in the order of the group.
BuildGroups(members) == InOrder({d \in devices : d[1] \in members})

\* The switch has several uplinks, or several next hops to a server.
HasChoice(v) ==
    \/ Cardinality(Devices(v) \intersect m_uplink) > 1
    \/ \E host \in Topology[net].servers : Cardinality(m_rtTable[host][v]) > 1

RouteInit(members) ==
    /\ ecmp \in [{v \in Switches(Topology[net]) : HasChoice(v)} -> Hashes]
    /\ calls = BuildGroups(members)
    /\ m_groups = {}
    /\ m_ogroups = [v \in Switches(Topology[net]) |-> {}]
    /\ queue = [d \in devices |-> << >>]
    /\ dropped = 0

\* Faulty variant, for mutation checks only: the early return that
\* OnPeerJoinGroup has commented out.
ToNotifyOnce(sw, iface) ==
    IF m_ogroups[sw] = {} THEN Devices(sw) \ {iface} ELSE {}

\* OnPeerJoinGroup calls AddGroup of every other device of the switch.
ToNotify(sw, iface) == Devices(sw) \ {iface}

\* AddGroup of a device, up to the calls it makes, which are next.
AddGroup ==
    /\ calls # << >>
    /\ LET dev   == Head(calls)
           peer  == Peer(dev)
           joins == dev \notin m_groups
           learns == joins /\ IsSwitchNode(peer[1])
       IN  /\ m_groups' = m_groups \union {dev}
           /\ m_ogroups' = IF learns THEN [m_ogroups EXCEPT ![peer[1]] = @ \union {peer}]
                                     ELSE m_ogroups
           /\ calls' = (IF learns THEN InOrder(ToNotify(peer[1], peer)) ELSE << >>) \o Tail(calls)
    /\ UNCHANGED <<route_vars, queue, dropped>>

ElectedIn(candidates, sw) ==
    IF Cardinality(candidates) = 1 THEN CHOOSE d \in candidates : TRUE
    ELSE InOrder(candidates)[1 + (ecmp[sw] % Cardinality(candidates))]

\* Faulty variants, for mutation checks only: a packet goes to every uplink; a
\* packet from an uplink may go to another one.
OutDevsAllUplinks(iface) ==
    {d \in m_ogroups[iface[1]] \ {iface} : d \in m_uplink => iface \notin m_uplink}
OutDevsBackUp(iface) ==
    LET candidates == m_ogroups[iface[1]] \intersect m_uplink
    IN  {d \in m_ogroups[iface[1]] \ {iface} : d \in m_uplink => d = ElectedIn(candidates, iface[1])}

\* The devices on which SendMultiToDevs sends a packet that came in on `iface`:
\* one uplink, and none when it comes from an uplink.
OutDevs(iface) ==
    LET candidates == m_ogroups[iface[1]] \intersect m_uplink
    IN  {d \in m_ogroups[iface[1]] \ {iface} :
            d \in m_uplink => iface \notin m_uplink /\ d = ElectedIn(candidates, iface[1])}

\* The device GetOutDev picks for a packet to server `dip`.
GetOutDev(sw, dip) ==
    LET nexthops == m_rtTable[dip][sw]
    IN  IF nexthops = {} THEN {} ELSE {ElectedIn(nexthops, sw)}

\* A packet leaves the NIC of server `s`.
SwitchSend(s, p) == queue' = [d \in devices |->
                                 IF d[1] = s THEN Append(queue[d], p) ELSE queue[d]]

\* The head of the queue of `dev` arrives at a switch, which sends copies on
\* `outs` and drops some of them.
SendToDevs(dev, outs) ==
    \E kept \in SUBSET outs :
        /\ dropped' = dropped + Cardinality(outs \ kept)
        /\ dropped' <= MaxDrops
        /\ queue' = [d \in devices |->
                        IF d = dev THEN Tail(queue[d])
                        ELSE IF d \in kept THEN Append(queue[d], Head(queue[dev]))
                        ELSE queue[d]]
        /\ UNCHANGED <<route_vars, group_vars>>

SwitchReceiveFromDevice(dev, multicast, dip) ==
    /\ queue[dev] # << >>
    /\ IsSwitchNode(dev[2])
    /\ \/ multicast  /\ SendToDevs(dev, OutDevs(Peer(dev)))
       \/ ~multicast /\ SendToDevs(dev, GetOutDev(dev[2], dip))

-----------------------------------------------------------------------------
(* What is true of the networks that spineleaf.py generates, though not of *)
(* every network, and what the properties of a flow rest on.               *)

Downlinks(nw) == {d \in nw.devices : d[1] \notin nw.servers} \ Rebuild(nw)

\* below[v] are the nodes to which one can go down from v.  No two ways lead
\* down to a node, and a switch without uplinks has every server below it.
IsFatTree(nw, below) ==
    LET down == Downlinks(nw)
        up   == Rebuild(nw)
    IN  /\ \A v, w \in Nodes(nw) :
               w \in below[v] <=> w = v \/ \E d \in down : d[1] = v /\ w \in below[d[2]]
        /\ \A d, e \in down :
               d[1] = e[1] /\ d # e => below[d[2]] \intersect below[e[2]] = {}
        /\ \A v \in Switches(nw) :
               (\A d \in up : d[1] # v) => nw.servers \subseteq below[v]

\* GetOutDev finds a next hop.
HasRoutes(nw) == \A host \in nw.servers, v \in Switches(nw) : BuildRoute(nw, host)[v] # {}
=============================================================================
