# TLA+ verification of ns3-roce

ns3-roce simulates RoCE (RDMA over Ethernet) networks: NICs with reliable and
unreliable queue pairs, PFC switches with shared buffers, DCQCN congestion
control, multicast, and an all-gather collective on top of them. It is one
single-threaded program: an event loop runs callbacks at simulated times. What
makes it hard is that the order of those callbacks depends on delays, losses
and topology, so a callback may find state another one left behind long ago.
Its own code is `src/simulation/src/rdma-core` and `src/simulation/src/rdma-ag`
(about 11,000 lines); the rest of `src/simulation` is the vendored ns-3
simulator.

## 1. Inventory

| Component | State | Operations | Interacts through |
|---|---|---|---|
| Reliable queue pair (`rdma-reliable-qp`) | pending requests, `m_snd_nxt`, `m_snd_una`, `highest_ack_psn`, retransmission timer; expected PSN, NACK timer | PostSend, GetNextPacket, ReceiveUdp, ReceiveAck, Acknowledge, RecoverNack, OnRetrTimeout | packets with the peer queue pair; `on_send`, `m_onRecv` callbacks to flows and runtime; TriggerDevTransmit to the NIC |
| Unreliable queue pair (`rdma-unreliable-qp`) | queue of requests, bytes and fragments sent of the first, `m_snd_nxt` | PostSend, GetNextPacket, ReceiveUdp | same, without replies |
| Switch buffer (`switch-mmu`, `switch-node`) | headroom, ingress, egress and shared byte counts, `paused`, `m_egress_lasts` | admission on receive (unicast, multicast), release on dequeue, pause and resume | called by the device of the input and of the output port; PFC frames to neighbours |
| Net device (`qbb-net-device`, `broadcom-egress-queue`) | transmitter state, `m_paused`, egress queues, ACK queue, `m_nextSend` | DequeueAndTransmit, TransmitComplete, Receive, Resume, SendPfc | channel; switch or RdmaHw callbacks |
| Switch routing and multicast (`switch-node`, `rdma-network`) | routing table, `m_ogroups`, uplinks, depth | AddTableEntry, OnPeerJoinGroup, Rebuild, SendMultiToDevs | flooding of joins over channels |
| DCQCN (`rdma-hw`) | rate and target, alpha, stage, three timers of a queue pair | CNP reception, alpha update, rate decrease and increases | called by ReceiveAck of reliable queue pairs; paces the NIC |
| Flow scheduler (`rdma-flow-scheduler`, `rdma-flow`, `flows/`) | remaining dependencies, running foreground flows | AddFlow, RunFlow, OnFlowFinish | completion callbacks; stops the simulation |
| All-gather (`rdma-ag`) | per node: phase, chunks received, cutoff timer, chunks to recover | StartMulticast, chain hand-over, NotifyRecovery, recovery over the ring, finish | UD multicast, RC messages with immediates to both neighbours |
| Serialisation, configuration, monitors | none or write-only | - | - |

What makes each correct:

* Reliable queue pair: exactly-once in-order notification, completion only after
  delivery, no state in which nothing will ever happen again, completion of every
  message if losses stop.
* Unreliable queue pair: each request is cut into packets that cover it exactly once;
  the callback runs once per request.
* Switch buffer: what is counted equals what is queued, the headroom is never
  exceeded, a paused neighbour is resumed once its packets have left, no packet
  of a well-behaved neighbour is dropped when the headroom covers the link.
* Net device: a ready packet never waits for ever (no lost wake-up), the transmitter
  never starts twice, no queue pair starves; PFC stops the paused priority only.
* Routing and multicast: each member receives each multicast packet once, no loops.
* DCQCN: rates stay between the minimum and the line rate, and recover when congestion ends.
* Flow scheduler: a flow runs once, after its dependencies and its start time;
  completion is reported after every foreground flow.
* All-gather: every node ends with every chunk and finishes.

Which behaviours are hard: a timer that fires while the answer it waits for is in
flight; a cumulative ACK that arrives after a rollback; a PAUSE in flight while the
packet that caused it leaves; callbacks that re-enter the function that called them
(`on_send` in `DequeueAndTransmit`, `RunFlow` in `OnFlowFinish`); a start event and the
completion of the last dependency at the same time. `PROJECT.json` lists each
one with its line and the properties that cover it.

## 2. Plan

Written, in this order:

| Module | Models | Composes |
|---|---|---|
| `ReliableDelivery` | what an RC queue pair promises | - |
| `ReliableQP` | one direction of an RC connection | implements `ReliableDelivery` |
| `ReliableQPLive` | the same on a path that stops losing packets | extends `ReliableQP` |
| `ReliableQPProofs` | its safety, for every value of the constants | extends `ReliableQP` |
| `SwitchMmu` | the shared buffer and PFC of one switch | - |
| `PfcLink` | the switch with neighbours that respect PFC over links with a length | extends `SwitchMmu` |
| `SumTheorems` | facts about the sums that count bytes and tokens | - |
| `SwitchProofs` | headroom, accounting, pause states and buffer, for any topology and sizes; PFC is lossless, for links of any length | extends `PfcLink` |
| `FlowGraph` | what the flow scheduler promises | - |
| `FlowScheduler` | the scheduler, flows, completion callbacks, all-gather multicast phase | implements `FlowGraph` |
| `FlowSchedulerProofs` | its safety and the refinement, for any flows and chains | extends `FlowScheduler` |
| `NicTx` | the transmitter of a server | - |
| `NicTxProofs` | no transmission starts inside another, no wake-up is lost | extends `NicTx` |
| `UnreliableQP` | the two queues of a UD queue pair | - |
| `SpineLeaf` | the topologies `spineleaf.py` generates | - |
| `SwitchRouting` | routes, uplinks, the flood of joins, forwarding | - |
| `UdMulticast` | a UD flow through the switches of a network | extends `UnreliableQP`, `SwitchRouting` |
| `UdMulticastProofs` | each packet once, in order, to every member, in any fat tree; `spineleaf.py` generates fat trees | extends `UdMulticast`, `SpineLeaf` |
| `AgConfig` | the arithmetic of an all-gather | - |
| `AllGather` | the all-gather application on all nodes | extends `AgConfig`; uses what `ReliableDelivery` and `UdMulticast` promise |
| `AllGatherProofs` | types, no assertion fails, no node finishes ahead, for any ring | extends `AllGather` |
| `Dcqcn` | the rate of one queue pair | - |
| `DcqcnProofs` | the rate keeps its bounds, every timer runs once | extends `Dcqcn` |

Every invariant and action property that a passing run checks is also a theorem. Left:
`EgressQueue`, the round robin over the priorities of a switch port, and with it the
composition of `SwitchMmu` and a transmitter. It needs several data priorities, which
no configuration of the repository uses.

The project keeps to a dozen runs and some forty properties, so a new property replaces
a weaker one.

## 3. The modules and the code

Everything runs on one event loop, so an action is an event handler with all it
calls, and actions interleave as delays permit. Where a handler calls back into code
that re-enters the same component (`FlowScheduler`, `NicTx`, the loop of
`SendMultiToDevs`) the nested calls are explicit and no other event runs until they
return. `PROJECT.json` "map" gives the lines behind each definition.

### ReliableQP

State: the send queue of one node (`m_to_send` is the suffix of `requests` after the first
`completed`; `m_snd_nxt`, `m_snd_una`, `highest_ack_psn`, the timer `m_retr_to`), the
receive queue of its peer (`ReceiverNextExpectedSeq`, the NACK timer and `m_lastNACK`), and
the packets and replies in flight. Ghost state: `delivered`, what `m_onRecv` was given.
Actions: `PostSend`, `GetNextPacket` (with the acknowledgement policy of `ShouldReqAck`),
`ReceiveUdp`, `ReceiveAck` (ACK or NACK), `OnRetrTimeout`, `NackTimerElapses`, and loss.

Abstractions. A timer may fire at any moment while it runs. The path is FIFO, because
ECMP hashes the fixed addresses and ports of a connection, and never duplicates.
`m_nextAvail` and the NIC are delays of `GetNextPacket`. The window and `m_backto0` are
left out: nothing in the repository sets them. Sequence numbers have `PsnMod` values on
the wire and in the receive queue, and are unbounded in the send queue, as in the code.

### SwitchMmu and PfcLink

State: the byte counters of `SwitchMmu` by port and priority, the packets in the output
queues with the port they came from, PFC frames on their way to each neighbour, and the
neighbour's `m_paused`. Actions: `SendToDev` and `SendMultiToDevs` (admission, accounting,
`CheckAndSendPfc`), `SwitchNotifyDequeue` (release, `CheckAndSendResume`), `ReceivePfc`, and
`LosePfc` in `LossySpec` only. The loop of `SendMultiToDevs` has a step for each copy,
because each is admitted on its own. Routing and transmitters are arbitrary. A packet
that is not admitted changes nothing.

Abstractions. ECN marking and `m_bytes` (read by monitors only) are left out. Output queues
hold 1000 MiB, more than any buffer, and are unbounded. `QbbEnabled` is assumed, and a
pause time of at least 1 us: zero would turn a PAUSE frame into a RESUME. The duration in
the frame is never used by the receiver. `OutSets` are the sets of ports that a multicast
packet may go to: in the runs any, the empty one included. A leaf without members learns
its uplinks in the flood of joins (`SwitchRouting`), gets group packets from one of them, and
may send them nowhere.

`RespectfulSpec` adds what `PauseEnds` needs: neighbours that send nothing while they are paused,
here over links without length, and fairness.

`PfcLink` lets the neighbours send, over links of at most `LinkCap` packets per direction.
A PAUSE takes effect at most `LinkCap + 1` packets after it was sent (one transmission in
progress, one link length). With the packet that causes it and those that were on the wire,
the headroom must hold `2 * LinkCap + 1` packets. The code computes it from
the link alone, three times the bandwidth-delay product (`rdma-network.cc:478`): enough
for links longer than a few packets, not for links shorter than one packet.
`PfcLink` covers unicast: a multicast packet is charged once per copy (a TODO in the
code), so the headroom would have to grow with the number of copies.

### FlowScheduler

State: as in the code, with `events` (start events in the order they were scheduled),
`stack` (nested calls of `NotifyComplete` and `OnFlowFinish`) and `writes` (what a flow still
waits for). Actions: `StartEvent`, `FirstCheck` (the check the constructor schedules at
time 0), `WriteCompletes`, the callbacks `OnChainComplete` and `OnFlowFinish`, one
`ResolveDependency` per iteration of its loop, `AnnounceEnd`, `NotifyCompleteReturns`, `Tick`.
An `AgFlowMcastPhase` adds its chains while the simulation runs.

`Immediate` flows may complete inside `RunFlow`: a multicast of one packet whose source is
itself in the group. Its `OnFlowStarted` posts the write and then registers the receive
queues; registering the one of the source calls `DequeueAndTransmit` at once, which takes
the packet and calls `on_send`.

`Chains` are the flows of each chain of a phase and `Added` all of them in the order in
which the phase hands them over, which is the order of their start events.
`FgRunningCounts` compares the counter with the flows that `RunFlow` and `OnFlowFinish` have seen, by
flow; `StartsApart` says that no start event is due for a flow that `OnFlowFinish` runs, which
the code does not ensure (section 7).

Left out: disabled flows (a dependency on one dereferences a null pointer), duplicate
dependencies, `simulator_stop_time`. `ScheduleNow` uses the absolute time as a delay, which is
only right at time 0; the multicast phase is only used with children of start time 0.

### NicTx

State: transmitter, `m_paused`, the registered queue pairs and the last one served, for
each the packets of its requests, `m_nextAvail` and the pace of its rate; the ACK queue;
and the three kinds of events that call `DequeueAndTransmit`: `TransmitComplete`, `m_nextSend`
and the events of `TriggerDevTransmit`. Times are delays from now, so that the state space
is finite without a bound on time. `DequeueAndTransmit` is split where it calls `on_send`:
`DequeueQp` chooses a queue pair and takes the packet, `OnSend` is the user's callback,
`SendQp` transmits and paces.

Left out: `IsFinished` (nothing finishes a queue pair) and `ChangeRate` (nothing calls it).
A queue pair has one request at a time. The reliable queue pair is seen through what it
has to send: `Retransmit` is `RecoverNack`, `SkipAcked` a late ACK. Links stay up.
A packet takes one unit of time on the link, and at most two at the pace of DCQCN.

### UnreliableQP, SwitchRouting, UdMulticast

State: the requests not sent and what was sent of the first (`m_to_send`, `m_snd_nxt`);
by device `m_groups` and the packets in its queue; by switch `m_ogroups`. `passed`,
`transmitted` and `notified` are histories. Actions: `Build` is one call of `AddGroup`, with
the calls it makes pushed on `calls` in the order of the loop of `OnPeerJoinGroup`; `Post`;
`Transmit` (`GetNextPacket` and the NIC); `Hop` (`SwitchReceiveFromDevice`, which sends copies by
`OutDevs` or one packet by `GetOutDev`); `Deliver` (`ReceiveUdp` and `m_onRecv`).
`Rebuild` and `BuildRoute` run once when the network is built and keep nothing else, so they
are operators on the topology: breadth-first searches. A device is the pair of its node
and its peer. `EcmpHash` may be anything, but is the same for all packets of a flow at a
switch, and only matters where `HasChoice`: several uplinks, or several next hops. A switch
may drop any copy (the buffer is in `SwitchMmu`), `MaxDrops` in all.

The immediate and the size of a packet are computed as in the code, including the
two errors of section 7. `SpineLeaf` follows the node numbers and links of
`src/analysis/src/topology/spineleaf.py`, the only topology generator of the repository.

Left out: links that go down, several groups at once (they share nothing but buffers).
Exactly-once delivery is a fact of fat trees in which a switch has one way down to each
server: with two, a switch sends a copy on each, and the member gets both. `IsFatTree` and
`HasRoutes` say so. No run needs them, the theorems do.

### AgConfig and AllGather

State: for each node the members of `AgRuntime` that decide something, the packets left to
multicast, the cutoff timer, and the messages to its two neighbours. `recv` holds the
chunks, `torecover` the blocks missed. Actions: `Transmit` (a packet of a block, received by
any set of nodes, and the hand-over after the last), `ReceiveHandOver`, `OnCutoffTimer`,
`RunMarkovMcast`, and in the recovery `NotifyRecvRecoveryRequest`, `RequestSent` (the ACK of an
empty request), `ReceiveBlock`, `BlockSent` (its ACK), each with the `TryUpdateState` it calls.
As in the code, `TryUpdateState` and the `on_send` callbacks read the `m_torecover` of the right
neighbour directly.

Abstractions. A message between neighbours is delivered once, in order, and then
completed, which is what `ReliableQPProofs` proves of RC. A multicast packet is received
when it is sent or lost: it only changes its receiver, which could have received it
later as well, and `UdMulticast` gives the order. Timers are not compared with the time
packets take. What was received is forgotten when a node enters recovery, because
nothing reads it after. Statistics of `AgShared` are left out.

### Dcqcn

State: `m_rate`, the target, `m_alpha`, the flags and the stage of `mlx`, and the event list of the
simulator with its order, because the code delays a timer by 1 ns to make it run after
another one. Actions: `cnp_received_mlx` at any moment, the three timers, and `Elapse`, which
lets time pass when nothing is due. Rates are integers that truncate like `DataRate`;
alpha is a multiple of 1/4, truncated where the code uses a double. `m_rpTimeStage`
wraps at 3 bits instead of 32. `LineRate` is the data rate of the device, which caps the
increases, and `m_max_rate` the rate the queue pair starts with. CNPs reach reliable
queue pairs only: the other call is compiled out.

## 4. Runs

| Run | Bounds | States | Shows |
|---|---|---|---|
| `ReliableQP_safety` | messages of 1 and 3 packets, 7 PSNs, 3 packets and 2 replies in flight, unlimited loss | 663,055 | the type and PSN invariants, exactly-once in-order notification, completion after delivery, no stall, refinement of `ReliableDelivery` |
| `ReliableQP_live` | messages of 1 and 2 packets, 4 PSNs, 2 in flight each way | 41,938 | every message completes if losses stop |
| `SwitchMmu_multicast` | 3 ports, sizes 2 and 3, buffer of 16, queues of 2, 2 frames per link | 3,715,525 | counters match queues, headroom and buffer respected, PFC states consistent, nobody stranded by a departure, unicast and multicast |
| `SwitchMmu_stranded` | 2 ports, 2 bytes of shared memory | violation | a multicast packet that goes to no port pauses its sender for ever |
| `PfcLink_lossless` | 2 ports, links of 1 packet | 25,043 | no packet is dropped, every pause ends |
| `FlowScheduler_graph` | 6 listed flows, a phase of 2 chains of 2 sources, times 0 to 3 | 4,282 | no assertion fails, no flow is forgotten or early, `FlowGraph` is implemented, the simulation ends |
| `NicTx_wakeup` | an RC queue pair of two rates, a UD one, 2 priorities, 1 ACK | 34,210 | no lost wake-up of packets or ACKs, no double transmission, no starvation |
| `NicTx_reentry` | UD queue pair with a dependant flow | violation | `TransmitStart` is entered while busy |
| `UdMulticast` | 2 spines, 2 leafs, 4 servers; 3 levels with 3 servers; 2 requests of 1 or 2 packets, 1 drop | 1,554,944 | each member gets each packet once, in order; no loops |
| `AllGather_recovery` | 3 nodes, 2 chains, segments of 1 + 1 chunks | 406,159 | no assertion fails, a node finishes with its neighbour, all finish |
| `AllGather_stuck` | 3 nodes, 1 chain | violation | a request registered early is never served |
| `Dcqcn` | line rate 32, minimum 2, periods 4, 6 and 12 | 287,892 | rates bounded, timers in one copy, recovery |

Why the bounds are enough. `ReliableQP`: three packets per message and in flight give a
gap, a duplicate and a fresh packet at once, two replies an ACK overtaken by a rollback,
and the chunk and interval boundaries fall inside messages; the theorems cover the
rest. `SwitchMmu`: sizes 2 and 3 with a reserve of 1, a headroom of 3, 4 bytes of shared
memory and two divisors make every branch of admission and release partial, and the
shared memory runs out; three ports are the least for a multicast with copies admitted
in part. Copies of several packets, from several ports, share the queues of 2, so they leave
in another order than they came. Two frames per link let a packet leave while the PAUSE is
in flight, and the RESUME follow it. `SwitchMmu_stranded` needs one port to use up the
shared memory and another to send a packet that goes nowhere.
`FlowScheduler`: dependencies that resolve before, at and after the start time, a
diamond, two levels of nested completion, a background flow. `NicTx`: two queue pairs are
the least for round robin, two packet times for a wake-up that must wait, two priorities
for a pause that stops one of them, or the ACKs. `UdMulticast`: two uplinks are the least
for an election, three levels for a packet that comes from an uplink and could go up
again or reach a core twice; one leaf alone in its pod makes a switch whose members are
all above it; every group is tried. `AllGather`: three nodes are the least for a ring in which
left and right differ, two chains for one that completes before the other. A segment of
one data and one parity chunk makes losses that need no recovery. `Dcqcn`: the periods
make decreases and increases fall together, in either order; alpha updates come between them,
as in the code, where they start 1 ns apart from the decrease checks. The threshold of 2 is
passed, so that all three increases and the cap happen.

Deadlock is not checked where the system may stop by itself: the application posts no
more, all packets are delivered, or the simulation ended.

## 5. Fairness

* `ReliableQPLive`: weak fairness of each step of the NIC, of the path and of the timers:
  scheduled events run, and a NIC serves a ready queue (`EveryQpIsServed`). Posting
  is not fair. `lossy` is a variable because a packet that is ignored and one that is lost
  are the same step of `ReliableQP`; `EveryRequestCompletes` assumes `<>~lossy`.
* `PfcLink`: packets and frames in flight arrive, and outputs keep sending. The second is
  an assumption on the rest of the network: PFC may deadlock on cycles of switches.
* `RespectfulSpec` of `SwitchMmu`: the same. It is strong for outputs and frames because the loop
  of `SendMultiToDevs`, one event in the program, disables them for some steps of the model.
* `FlowScheduler`: the event loop takes the next event, and every write completes, which
  is `EveryRequestCompletes` for RC; a UD write completes when it is sent.
* `NicTx`: every event runs and time passes. Fairness is strong for a due event and for
  `Tick`, because other events of the same time may come first again and again in the
  model, while in the program finitely many events have the same time.
* `AllGather`: the queue pairs deliver and complete (`EveryRequestCompletes`), and pending
  multicasts are sent. The cutoff timer is fair only when nothing is multicast, because every
  packet sets it again. `Finishes` assumes that the multicasts come to an end, and
  that no node gets a request while it is in the multicast phase: without either the code
  does not finish (section 7).
* `Dcqcn`: the simulator runs the events that are due, and time passes. CNPs are not fair;
  `Recovers` assumes that they stop.

## 6. Proofs

`ReliableQPProofs` proves, for every MTU, acknowledgement policy, set of payload
sizes and capacity of the path, each safety property that `ReliableQP_safety` checks,
and the refinement of `ReliableDelivery`. It rests on `ConstantsAssumption` (the
types of the constants) and on `NoWrap`, `MaxPsn < PsnMod`: no more is
posted than a sequence number can count. It is needed: see section 7.

The properties are not inductive: that a message is delivered in order needs to know
what a packet in flight carries. The inductive invariant `IInv` adds

* `RequestsTile`: requests tile the PSN space, in order, without gaps;
* `DataInv`: a packet in flight carries bytes of one request, and is marked as its last
  exactly if it ends it; thus an old duplicate never passes for another message;
* `AckInv`: no reply in flight exceeds what the receiver expects; thus a late one never
  completes too much;
* `DeliveryInv` and `Covers(completed, m_snd_una)`: the messages notified, or completed, are
  exactly those whose bytes lie below the PSN of their side;
* `HighestInv`: when everything is sent and not acknowledged, the last acknowledgement
  asked for covers all of it, which excludes the silent stall.

There is a lemma for each action. The theorems follow from `IInv` alone, and the action
property and the refinement from `IInv` and what the lemmas say of a step.

`SumTheorems` has no system in it. What an index contributes to a sum, what a sum is after
one summand changed, and that it does not depend on the order in which it is taken,
are proved by well-founded arguments on the sets of indices, because the provers cannot
use the library's induction theorems.

`SwitchProofs` holds for any number of ports and priorities, sizes, headrooms and
thresholds.

* `HInv` for `HeadroomRespected` and `HeadroomUseIsPaused`: a packet is only charged to the
  headroom when the shared memory has no room for it, in which case admission has checked
  the headroom. The two conditions differ in form (`psize + GetSharedUsed` against
  `new_bytes - Reserve`) and their agreement is the heart of `UpdateRespectsHeadroom`.
* `AccInv` for `AccountingMatchesQueues` and `TypeOK`: each counter is a sum over the queues, so
  what a departing packet is charged is still in the counters it is taken from, and
  none becomes negative. It adds that a multicast being copied has not been sent to the
  ports that are left.
* `PauseInv` for `PauseStatesAgree`, without loss: the frames on their way to a neighbour
  alternate, start with the opposite of its state and end with what the switch thinks.
* `OnlyLostMulticastsStrand` follows from `AccInv` on both sides of a step: when the last packet of a
  paused neighbour leaves, it uses nothing, which is below every threshold, so it is
  resumed; a packet that is queued, and a copy that is made, is charged (`CopiesAreHeld`). There
  remains the check after a loop that made no copy, which finds a neighbour that uses nothing
  at its threshold only if that is 0 (`PausesEmptyAtZero`). It has no hypothesis.
* `PoolInv` for `BufferRespected`: the shared memory in use stays in what headrooms and reserves
  leave, and the packets are the sum of the three. Assumes `BufferIsConfigured`: the
  headrooms and reserves fit in the buffer and one priority uses PFC. With more, the
  code offers the same headroom to each, and the bound does not hold.

All but `PauseStatesAgree` are theorems of `LossySpec`, in which PFC frames may be lost;
the runs lose none.

For the links, `SwitchProofs` proves `NothingIsDropped` for links of any length. `LinkInv` says that the headroom
covers, beyond what is in it, the packets on the wire and those that the neighbour may
still send before it gets the PAUSE: they only become fewer while the neighbour is paused, and
no packet is charged to the headroom while it is not. Assumes `HeadroomCovers`, for which
section 3 gives the reason. `LinkImplementsSwitch` shows that the switch with its links is a
`SwitchMmu`, so the theorems above hold of it.

`DcqcnProofs` proves `RatesBounded` for all rates, gains, periods and thresholds that satisfy
`RatesAssumption`, `AlphaAssumption` and `TimersAssumption`. The inductive invariant `RateInv` adds
that before the first CNP the rate is `m_max_rate` and no timer runs: only then is the
fraction that the first CNP leaves known to be above the minimum. The arithmetic rests
on `DivBelow` (truncating division is monotonic) and `HalfWay`. That the minimum is even is
necessary: the two halves of an odd rate add up to one less. `TimersInv` adds for `TimersRunOnce`
which handlers the agenda holds, once each: a cut removes the increase timer wherever it
is before it schedules it again.

`NicTxProofs` proves `TransmitsWhenReady` for any queue pairs, paces and priorities. The
inductive invariant `TransmitInv` lists the stacks of calls that exist, and says that
once a packet was chosen the transmitter stays READY until it is sent. `TypeInv` adds what
each call may rely on, and `WakeInv` that an idle transmitter with something to send has a
wake-up: the proof has a case for each reason why `DequeueQp` may find nothing, and shows
that it left `m_nextSend` no later than the first packet that waits for its time. They are theorems
of `Spec`, in which `on_send` posts but does not register; `NicTx_reentry` is the other case.

`AllGatherProofs` proves `NoAssertFails`, `FinishesWithNeighbour` and `TypeOK` for any number of nodes,
chains, segments and chunks. `AGInv` relates the two ends of each message: a request that is not delivered
was not answered, the blocks on their way are different blocks that the sender has sent
and the receiver misses, and a node that knows that all was received has a
neighbour that misses nothing. It says little of the multicast phase, because
what is recovered does not depend on what was received there. `TypeOK` needs `BoundsInv`,
because its bounds are not inductive one node at a time: how many chains a node may yet get
depends on where the others are. `McastInv` sums over the ring the blocks that a node has
packets left of, rounded up, and the chains it has handed over, and the sum is at most `m_roots`: a transmission
moves a chain, a hand-over passes one on, or ends it. A node never misses its own block
because `TransitionToRecovery` asks for the blocks of the chunks that did not come, and the chunks of
its own are divided back to itself; and a block that is on its way, or not acknowledged,
has been sent, so there are no more of them than of other nodes.

`FlowSchedulerProofs` proves every safety property of `FlowScheduler` and the refinement of `FlowGraph`,
for any flows, dependencies, start times and chains. Between two events the properties are
simple; the difficulty is that callbacks nest, and in the middle of them the counters are
behind. `FlowInv` therefore says of each counter that it is the size of a set of flows less
what the frames of the stack have yet to do: a flow is `Finished` for `m_fg_running` once no frame has
its `OnFlowFinish` left (`FgInv`), `Resolved` for `m_rem_dependencies` of another once no frame has
the other left (`RemInv`), `Reported` once its chain was counted (`ChainsInv`). No flow has two
frames of one kind (`StackInv`), so nothing is counted twice. `WaitInv` says that a flow that has
not run has a start event or an unresolved dependency, and `NestInv` that no frame resolves
a flow whose start event is due. The last rests on `StartsApart`, without which it is false.
Each action has a lemma; `RunFlow`, which three of them call, has its own, with the
stack and the dependencies it is called with as parameters.

`UdMulticastProofs` proves the three properties of `UdMulticast` for every fat tree, group, sender,
election, number of requests and loss. The argument has four parts.

* Searches. `Distance` and `BuildRoute` are folds of breadth-first steps, and their
  induction is on the number of steps, as a least counterexample. `LevelFacts` and `UnicastHops`
  give what the rest needs: levels differ by one across a link, a next hop is one nearer.
* Trees. What leads packets on from a device (`OutDevs`, or `GetOutDev`) never makes two
  devices into the same node: `FloodIsTree` shows that a packet climbs one chain of elected
  uplinks and that what hangs down from it lies in disjoint subtrees, `PathIsTree` that the route of
  a unicast gets nearer at every hop. `Tree`, the least set closed under those steps
  from the NIC of the sender, is thus a tree (`FlowIsTree`).
* Logs. `FlowInv` compares, for each device of the tree, what came out of it with what came
  out of the one before: the same PSNs, in the same order, less what was dropped
  (`LogsInOrder`), and all of them if nothing was (`NothingLost`). Nothing is ever queued outside of the
  tree (`OnTree`), so what comes to a node comes through one device. `PsnsGrow` is where
  empty requests matter: they would send two packets of the same PSN.
* Joins. `GroupInv` says that each `AddGroup` was done or is on the stack `calls`, and with it
  those it must make. Once the stack is empty, a switch has heard of a member below it from below
  (`JoinedAbove`) and of any other from each of its uplinks (`JoinedElsewhere`), by the least level at
  which this fails, so the tree climbs until it is above the member and then comes down to it
  (`ClimbReaches`, `DescentStarts`, `TreeReaches`).

The hypothesis `FatTrees` says what the two rules of `SendMultiToDevs`, one uplink and never back
up, rely on and the code never checks: from each switch one way down to each server below it, a
switch without uplinks above all servers, and a next hop to each. It is about the topology file
that the user gives. `SpineLeafIsFatTree` proves it, and the assumption on networks, of
whatever `spineleaf.py` generates, for any numbers of spines, leafs and servers.

Hypotheses. `NoWrap`, `BufferIsConfigured`, `HeadroomCovers`, `StartsApart`, `FatTrees`
and that no payload is empty are not assumptions of the models but hypotheses of the theorems
that need them. The instances that TLC checks satisfy them, and state so by an `ASSUME` in
`MCSwitchMmu`, `MCPfcLink`, `MCFlowScheduler` and `MCUdMulticast`, where `Below` is the witness of
`FatTrees`, for the tree of three levels as well. That `NoWrap` holds in `ReliableQP_safety`
can be read in its cfg.

Only model-checked, as out of reach of the prover: liveness (`EveryRequestCompletes`, `PauseEnds`,
`SimulationEnds`, `EveryQpIsServed`, `Finishes`, `Recovers`).

## 7. Findings

With a run:

* `AllGather_stuck`: a recovery request that arrives in the multicast phase sets a flag, and
  `TransitionToRecovery` does not look at it (`ag-runtime.cc:118`, `:252`). The node then serves it only
  when the ACK of its own empty request or a block from its left neighbour comes. If every
  node that has what its right neighbour misses misses something itself, and got that
  neighbour's request early, neither comes and all wait for ever. Cutoffs at slightly different
  times are enough; the last node to enter recovery finds its left neighbour there already.
* `SwitchMmu_stranded`: `CheckAndSendPfc` is called after the loop of `SendMultiToDevs` (`switch-node.cc:233`),
  also for a packet that goes to no port. If it comes while the shared memory is used up, its
  sender is paused with nothing queued, and nothing ever resumes it. Leafs without members
  get such packets in the ordinary course, from an uplink.
* `NicTx_reentry`: `on_send` may start a transmission in the middle of another. In a build
  without assertions the device sends two packets at once.

Met on the way, without a run:

* The last packet of a request that is cut carries the payload size of the whole request
  (`rdma-unreliable-qp.cc:100`): 2n - 1 MTUs instead of n (`NextPacket` in `UnreliableQP`).
* `rdma-unreliable-qp.cc:23` tests `flags | FragmentAsImmediate`, which always holds. The packets of
  `AgApp`, one request each, all carry immediate 0: no chain completes, and the cutoff
  timer ends the multicast phase of every node (`ReceivedImm` in `AllGather`).
* The last node of a chain hands over to the first of the next (`ag-app.cc:282`), which
  multicasts again. If nothing cuts it off, the multicasts go round for ever.
* PSNs have 64 bits in the send queue and 32 on the wire (`rdma-reliable-qp.cc:538`). After
  4 GiB on one connection acknowledgements look old, and no message completes any more.
* Reserve and headroom are granted per port and priority, but `ConfigNPort` sets them aside
  per port (`switch-mmu.cc:197`). Harmless while one priority carries data.
* A bisection of more than one write never completes: each write has its own copy of the
  counting lambda (`rdma-flow-bisection.cc:57`).
* `OnFlowFinish` runs a flow that waits for its start event, and the start event runs it again
  (`rdma-flow-scheduler.cc:71`, `:92`): in a phase of one-packet multicasts, or for an immediate flow
  and one that depends on it, listed later, with the same start time.
* When a PAUSE frame is lost to the error model of a link, the RESUME after it violates the
  assertion of `QbbNetDevice::Resume` (`:365`), and a lost RESUME pauses the neighbour for ever:
  nothing enforces the pause time.
* The scheduler stops the simulation when no foreground flow runs, even if another one
  still waits for its start time (`rdma-flow-scheduler.cc:102`), so `FlowGraph` promises no more.
* A packet that would fit in the reserve of its port is dropped when headroom and shared
  memory are used up (`CheckIngressAdmission` does not look at the reserve).
* The DCQCN increases are capped at the rate of the device, not at `m_max_rate`.

## 8. Not modelled

The round robin of a switch port (section 2), ECN marking, and the recovery phase of the
all-gather flows (`ag-flow-recovery-phase.cc`), which is unfinished in the source and names
variables that are not declared. Header serialisation, configuration by
reflection, monitors, statistics and animation keep no state that decides anything.
The remote channel is for distributed simulation, which no configuration uses. The
vendored ns-3 is external: events run one at a time, in time order, those of the same
time in the order they were scheduled.

The program is the C++ of `rdma-core` and `rdma-ag`. The Python of the repository, some 790,000
lines, is nearly all generated ns-3 bindings without behaviour of its own, and scripts
that plot results; the one script that decides what is simulated, `spineleaf.py`, is in
`SpineLeaf`. The share of Python lines that the modules cover is therefore close to zero,
while they cover the stateful part of the program.
