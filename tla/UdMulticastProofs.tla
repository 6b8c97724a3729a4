-------------------------- MODULE UdMulticastProofs --------------------------
(***************************************************************************)
(* What a multicast flow over unreliable queue pairs delivers, for every   *)
(* network, flow, number of posts and order of the events: no switch sees  *)
(* a packet twice, a receiver gets it at most once and in order of PSN,    *)
(* and every member gets it.                                               *)
(*                                                                         *)
(* Two hypotheses.  FatTrees: each network is a fat tree with a route to   *)
(* each server, as SwitchNode::SendMultiToDevs assumes when it elects one  *)
(* uplink of a group; SpineLeafIsFatTree proves it of the networks that    *)
(* spineleaf.py writes.  And 0 \notin PayloadSizes: the packet of an empty *)
(* write has the PSN of the packet after it.                               *)
(*                                                                         *)
(* The invariant is UdInv.  The devices a group joins, and those an ECMP   *)
(* path takes, are a tree: into each node leads at most one (FloodIsTree,  *)
(* PathIsTree).  So what has passed a device is what had passed the only   *)
(* device before it, less what is still queued there (FlowInv), and the    *)
(* order of the sender holds along each branch.                            *)
(***************************************************************************)
EXTENDS UdMulticast, SpineLeaf, SumTheorems, FunctionTheorems, SequenceTheorems
-----------------------------------------------------------------------------
(* Breadth-first search.                                                   *)

\* A network as NetworksAssumption has it.
IsNetwork(nw) ==
    /\ nw.devices \subseteq Nat \X Nat /\ IsFiniteSet(nw.devices)
    /\ \A d \in nw.devices : Peer(d) \in nw.devices
    /\ \A s \in nw.servers : Cardinality({d \in nw.devices : d[1] = s}) = 1

\* What the search knows after one more step.
Ball(nw, expanded, inner) ==
    inner \union {d[2] : d \in {e \in nw.devices : e[1] \in inner \intersect expanded}}

IsBalls(b, nw, from, expanded, k) ==
    b = [n \in 0 .. k |->
            IF n = 0 THEN <<from>> ELSE Append(b[n - 1], Ball(nw, expanded, b[n - 1][n]))]

IsSearch(all, nw, from, expanded, k) ==
    /\ all \in Seq(SUBSET Nodes(nw)) /\ Len(all) = k + 1
    /\ all[1] = from
    /\ \A i \in 1 .. k : all[i + 1] = Ball(nw, expanded, all[i])

LEMMA NodesAreFinite ==
    ASSUME NEW nw, IsNetwork(nw)
    PROVE  /\ Nodes(nw) \subseteq Nat /\ IsFiniteSet(Nodes(nw)) /\ Cardinality(Nodes(nw)) \in Nat
           /\ \A d \in nw.devices : /\ d \in Nat \X Nat /\ d = <<d[1], d[2]>>
                                    /\ d[1] \in Nodes(nw) /\ d[2] \in Nodes(nw)
                                    /\ Peer(d) \in nw.devices /\ Peer(Peer(d)) = d
<1>1. \A d \in nw.devices : d \in Nat \X Nat /\ d = <<d[1], d[2]>> /\ Peer(Peer(d)) = d
  BY DEF IsNetwork, Peer
<1>2. \A d \in nw.devices : d[1] \in Nodes(nw) /\ Peer(d) \in nw.devices
  BY DEF IsNetwork, Nodes
<1>3. \A d \in nw.devices : d[2] \in Nodes(nw)
  <2>1. \A d \in nw.devices : Peer(d)[1] = d[2]
    BY DEF Peer
  <2>2. QED
    BY <1>2, <2>1
<1> DEFINE f == [d \in nw.devices |-> d[1]]
<1>4. f \in Surjection(nw.devices, Nodes(nw))
  BY <1>2, Fun_IsSurj DEF Nodes
<1>5. IsFiniteSet(Nodes(nw))
  BY <1>4, FS_Surjection DEF IsNetwork
<1>6. Nodes(nw) \subseteq Nat
  BY <1>1 DEF Nodes
<1>7. QED
  BY <1>1, <1>2, <1>3, <1>5, <1>6, FS_CardinalityType

LEMMA BallType ==
    ASSUME NEW nw, IsNetwork(nw), NEW expanded, NEW inner \in SUBSET Nodes(nw)
    PROVE  Ball(nw, expanded, inner) \in SUBSET Nodes(nw)
BY NodesAreFinite DEF Ball

\* The recursion has a solution, whatever its depth.
LEMMA BallsExist ==
    ASSUME NEW nw, NEW from, NEW expanded, NEW k \in Nat
    PROVE  \E b : IsBalls(b, nw, from, expanded, k)
<1> DEFINE Bad == {n \in Nat : ~\E b : IsBalls(b, nw, from, expanded, n)}
<1>1. 0 \notin Bad
  <2>1. IsBalls([n \in 0 .. 0 |-> <<from>>], nw, from, expanded, 0)
    BY DEF IsBalls
  <2>2. QED
    BY <2>1
<1>2. ASSUME NEW n \in Nat \ {0}, n - 1 \notin Bad PROVE n \notin Bad
  <2>1. PICK b : IsBalls(b, nw, from, expanded, n - 1)
    BY <1>2
  <2> DEFINE step(a, i) == IF i = 0 THEN <<from>>
                           ELSE Append(a[i - 1], Ball(nw, expanded, a[i - 1][i]))
             c == [i \in 0 .. n |-> step(b, i)]
  <2>2. \A i \in 0 .. n - 1 : b[i] = step(b, i)
    BY <2>1 DEF IsBalls
  <2>3. \A i \in 0 .. n - 1 : i \in 0 .. n /\ c[i] = b[i]
    BY <2>2
  <2>4. \A i \in 0 .. n : i # 0 => i - 1 \in 0 .. n - 1
    OBVIOUS
  <2>5. \A i \in 0 .. n : step(b, i) = step(c, i)
    BY <2>3, <2>4
  <2>6. c = [i \in 0 .. n |-> step(c, i)]
    BY <2>5
  <2> HIDE DEF c
  <2>7. IsBalls(c, nw, from, expanded, n)
    BY <2>6 DEF IsBalls
  <2>8. QED
    BY <2>7
<1>3. Bad = {}
  <2>1. SUFFICES ASSUME Bad # {} PROVE FALSE
    OBVIOUS
  <2>2. Bad \in SUBSET Nat
    OBVIOUS
  <2> HIDE DEF Bad
  <2>3. PICK n \in Bad : \A m \in Bad : n <= m
    BY <2>1, <2>2, LeastNatural
  <2>4. n \in Nat \ {0} /\ n - 1 \notin Bad
    BY <1>1, <2>2, <2>3
  <2>5. QED
    BY <1>2, <2>3, <2>4
<1>4. k \notin Bad
  BY <1>3
<1>5. QED
  BY <1>4

LEMMA BallsAreSearches ==
    ASSUME NEW nw, IsNetwork(nw), NEW from \in SUBSET Nodes(nw), NEW expanded, NEW k \in Nat,
           NEW b, IsBalls(b, nw, from, expanded, k)
    PROVE  \A n \in 0 .. k : IsSearch(b[n], nw, from, expanded, n)
<1> DEFINE Bad == {n \in 0 .. k : ~IsSearch(b[n], nw, from, expanded, n)}
<1>1. \A n \in 0 .. k : b[n] = IF n = 0 THEN <<from>>
                                ELSE Append(b[n - 1], Ball(nw, expanded, b[n - 1][n]))
  BY DEF IsBalls
<1>2. 0 \notin Bad
  <2>1. b[0] = <<from>> /\ <<from>> \in Seq(SUBSET Nodes(nw)) /\ Len(<<from>>) = 0 + 1
    BY <1>1
  <2>2. b[0][1] = from /\ 1 .. 0 = {}
    BY <2>1
  <2>3. IsSearch(b[0], nw, from, expanded, 0)
    BY <2>1, <2>2 DEF IsSearch
  <2>4. QED
    BY <2>3
<1>3. ASSUME NEW n \in 1 .. k, n - 1 \notin Bad PROVE n \notin Bad
  <2> DEFINE a == b[n - 1]
             x == Ball(nw, expanded, a[n])
  <2>1. IsSearch(a, nw, from, expanded, n - 1) /\ n - 1 \in Nat
    BY <1>3
  <2>2. b[n] = Append(a, x)
    <3>1. n \in 0 .. k /\ n # 0
      OBVIOUS
    <3>2. QED
      BY <1>1, <3>1
  <2>3. a \in Seq(SUBSET Nodes(nw)) /\ Len(a) = n /\ a[1] = from
    BY <2>1 DEF IsSearch
  <2>4. x \in SUBSET Nodes(nw)
    <3>1. a[n] \in SUBSET Nodes(nw)
      BY <2>3
    <3>2. QED
      BY <3>1, BallType
  <2>5. \A i \in 1 .. n - 1 : a[i + 1] = Ball(nw, expanded, a[i])
    BY <2>1 DEF IsSearch
  <2> HIDE DEF x, a
  <2>6. /\ Append(a, x) \in Seq(SUBSET Nodes(nw)) /\ Len(Append(a, x)) = n + 1
        /\ \A i \in 1 .. n : Append(a, x)[i] = a[i]
        /\ Append(a, x)[n + 1] = x
    BY <2>3, <2>4
  <2>7. ASSUME NEW i \in 1 .. n
        PROVE  Append(a, x)[i + 1] = Ball(nw, expanded, Append(a, x)[i])
    <3>1. CASE i = n
      BY <2>6, <3>1 DEF x
    <3>2. CASE i # n
      BY <2>5, <2>6, <3>2
    <3>3. QED
      BY <3>1, <3>2
  <2>8. IsSearch(Append(a, x), nw, from, expanded, n)
    BY <2>3, <2>6, <2>7 DEF IsSearch
  <2>9. QED
    BY <2>2, <2>8
<1>4. SUFFICES ASSUME Bad # {} PROVE FALSE
  OBVIOUS
<1>5. Bad \in SUBSET Nat /\ Bad \subseteq 0 .. k
  OBVIOUS
<1> HIDE DEF Bad
<1>6. PICK n \in Bad : \A m \in Bad : n <= m
  BY <1>4, <1>5, LeastNatural
<1>7. n \in 1 .. k /\ n - 1 \notin Bad
  BY <1>2, <1>5, <1>6
<1>8. QED
  BY <1>3, <1>6, <1>7

\* What the distances of a search are.
Measures(dist, nw, from, expanded) ==
    /\ dist \in [Nodes(nw) -> 0 .. Cardinality(Nodes(nw)) + 1]
    /\ \A v \in Nodes(nw) : dist[v] = 0 <=> v \in from
    /\ \A d \in nw.devices : d[1] \in expanded => dist[d[2]] <= dist[d[1]] + 1
    /\ \A v \in Nodes(nw) : dist[v] \in 1 .. Cardinality(Nodes(nw)) =>
           \E d \in nw.devices : d[2] = v /\ d[1] \in expanded /\ dist[d[1]] = dist[v] - 1

LEMMA SearchGrows ==
    ASSUME NEW nw, NEW from, NEW expanded, NEW k \in Nat,
           NEW all, IsSearch(all, nw, from, expanded, k),
           NEW i \in 1 .. k + 1, NEW j \in 1 .. k + 1, i <= j
    PROVE  all[i] \subseteq all[j]
<1> DEFINE Bad == {n \in i .. k + 1 : ~(all[i] \subseteq all[n])}
<1>1. SUFFICES ASSUME Bad # {} PROVE FALSE
  OBVIOUS
<1>2. Bad \in SUBSET Nat /\ \A n \in Bad : n \in i .. k + 1 /\ n # i
  OBVIOUS
<1>3. PICK n \in Bad : \A m \in Bad : n <= m
  <2> HIDE DEF Bad
  <2>1. QED
    BY <1>1, <1>2, LeastNatural
<1>4. n - 1 \in i .. k + 1 /\ n - 1 \in 1 .. k /\ (n - 1) + 1 = n
  BY <1>2, <1>3
<1>5. all[i] \subseteq all[n - 1]
  <2>1. n - 1 \notin Bad
    BY <1>2, <1>3
  <2>2. QED
    BY <1>4, <2>1
<1>6. all[n] = Ball(nw, expanded, all[n - 1])
  BY <1>4 DEF IsSearch
<1>7. QED
  BY <1>5, <1>6 DEF Ball

\* A node is in all the balls but the first ones, which its distance counts.
LEMMA SearchCounts ==
    ASSUME NEW nw, NEW from, NEW expanded, NEW k \in Nat,
           NEW all, IsSearch(all, nw, from, expanded, k), NEW v
    PROVE  LET n == Cardinality({i \in DOMAIN all : v \notin all[i]})
           IN  n \in 0 .. k + 1 /\ \A i \in 1 .. k + 1 : v \in all[i] <=> i > n
<1> DEFINE Out == {i \in DOMAIN all : v \notin all[i]}
           In  == {i \in 1 .. k + 2 : i = k + 2 \/ v \in all[i]}
<1>1. DOMAIN all = 1 .. k + 1
  BY DEF IsSearch
<1>2. PICK m \in In : \A i \in In : m <= i
  <2>1. In \in SUBSET Nat /\ k + 2 \in In
    OBVIOUS
  <2> HIDE DEF In
  <2>2. QED
    BY <2>1, LeastNatural
<1>3. m \in 1 .. k + 2 /\ (m # k + 2 => v \in all[m])
  BY <1>2
<1>4. ASSUME NEW i \in 1 .. k + 1 PROVE v \in all[i] <=> i >= m
  <2>1. CASE i >= m
    <3>1. m \in 1 .. k + 1
      BY <1>3, <2>1
    <3>2. v \in all[m]
      BY <1>3, <3>1
    <3>3. all[m] \subseteq all[i]
      BY <2>1, <3>1, SearchGrows
    <3>4. QED
      BY <2>1, <3>2, <3>3
  <2>2. CASE i < m
    <3>1. i \notin In
      BY <1>2, <1>3, <2>2
    <3>2. v \notin all[i]
      BY <3>1
    <3>3. QED
      BY <1>3, <2>2, <3>2
  <2>3. QED
    BY <1>3, <2>1, <2>2
<1>5. Out = 1 .. m - 1
  BY <1>1, <1>3, <1>4
<1>6. Cardinality(1 .. m - 1) = m - 1
  <2>1. m - 1 \in Int /\ 1 \in Int /\ (m - 1) - 1 + 1 = m - 1 /\ (1 > m - 1 => m - 1 = 0)
    BY <1>3
  <2>2. QED
    BY <2>1, FS_Interval
<1>7. Cardinality(Out) = m - 1
  BY <1>5, <1>6
<1> HIDE DEF Out, In
<1>8. m - 1 \in 0 .. k + 1 /\ \A i \in 1 .. k + 1 : v \in all[i] <=> i > m - 1
  BY <1>3, <1>4
<1>9. QED
  BY <1>7, <1>8 DEF Out

LEMMA DistanceMeasures ==
    ASSUME NEW nw, IsNetwork(nw), NEW from \in SUBSET Nodes(nw), NEW through
    PROVE  Measures(Distance(nw, from, through), nw, from, from \union through)
<1> DEFINE k == Cardinality(Nodes(nw))
           expanded == from \union through
           b == CHOOSE c : IsBalls(c, nw, from, expanded, k)
           all == b[k]
           dist == [v \in Nodes(nw) |-> Cardinality({i \in DOMAIN all : v \notin all[i]})]
<1>1. Distance(nw, from, through) = dist
  BY DEF Distance, IsBalls, Ball
<1>2. k \in Nat
  BY NodesAreFinite
<1>3. IsBalls(b, nw, from, expanded, k)
  <2> HIDE DEF k, expanded
  <2>1. \E c : IsBalls(c, nw, from, expanded, k)
    BY <1>2, BallsExist
  <2>2. QED
    BY <2>1
<1> HIDE DEF b
<1>4. IsSearch(all, nw, from, expanded, k)
  BY <1>2, <1>3, BallsAreSearches
<1> HIDE DEF k, expanded, all
<1>5. \A v \in Nodes(nw) :
          dist[v] \in 0 .. k + 1 /\ \A i \in 1 .. k + 1 : v \in all[i] <=> i > dist[v]
  BY <1>2, <1>4, SearchCounts
<1> HIDE DEF dist
<1>6. dist \in [Nodes(nw) -> 0 .. k + 1]
  BY <1>5 DEF dist
<1>7. /\ \A i \in 1 .. k : all[i + 1] = Ball(nw, expanded, all[i])
      /\ all[1] = from
  BY <1>4 DEF IsSearch
<1>8. \A v \in Nodes(nw) : dist[v] = 0 <=> v \in from
  <2>1. 1 \in 1 .. k + 1
    BY <1>2
  <2>2. QED
    BY <1>2, <1>5, <1>7, <2>1
<1>9. ASSUME NEW d \in nw.devices, d[1] \in expanded
      PROVE  dist[d[2]] <= dist[d[1]] + 1
  <2>1. d[1] \in Nodes(nw) /\ d[2] \in Nodes(nw)
    BY NodesAreFinite
  <2> DEFINE i == dist[d[1]] + 1
  <2>2. dist[d[1]] \in 0 .. k + 1 /\ dist[d[2]] \in 0 .. k + 1 /\ i \in Nat
    BY <1>5, <2>1
  <2>3. CASE i \in 1 .. k
    <3>1. d[1] \in all[i]
      BY <1>2, <1>5, <2>1, <2>2, <2>3
    <3>2. d[2] \in all[i + 1]
      BY <1>7, <1>9, <2>3, <3>1 DEF Ball
    <3>3. i + 1 \in 1 .. k + 1
      BY <1>2, <2>3
    <3>4. i + 1 > dist[d[2]]
      BY <1>5, <2>1, <3>2, <3>3
    <3>5. QED
      BY <2>2, <3>4
  <2>4. CASE i \notin 1 .. k
    BY <1>2, <2>2, <2>4
  <2>5. QED
    BY <2>3, <2>4
<1>10. ASSUME NEW v \in Nodes(nw), dist[v] \in 1 .. k
       PROVE  \E d \in nw.devices : d[2] = v /\ d[1] \in expanded /\ dist[d[1]] = dist[v] - 1
  <2> DEFINE i == dist[v]
  <2>1. v \in all[i + 1] /\ v \notin all[i]
    <3>1. i + 1 \in 1 .. k + 1 /\ i \in 1 .. k + 1 /\ i + 1 > i /\ ~(i > i)
      BY <1>2, <1>10
    <3>2. QED
      BY <1>5, <3>1
  <2>2. all[i + 1] = Ball(nw, expanded, all[i])
    BY <1>7, <1>10
  <2>3. PICK d \in nw.devices : d[2] = v /\ d[1] \in all[i] /\ d[1] \in expanded
    BY <2>1, <2>2 DEF Ball
  <2>4. d[1] \in Nodes(nw) /\ dist[d[1]] \in 0 .. k + 1
    BY <1>5, NodesAreFinite
  <2>5. i > dist[d[1]]
    <3>1. i \in 1 .. k + 1
      BY <1>2, <1>10
    <3>2. QED
      BY <1>5, <2>3, <2>4, <3>1
  <2>6. i <= dist[d[1]] + 1
    BY <1>9, <2>3
  <2>7. dist[d[1]] = dist[v] - 1
    BY <1>2, <1>10, <2>4, <2>5, <2>6
  <2>8. QED
    BY <2>3, <2>7
<1>11. Measures(dist, nw, from, expanded)
  BY <1>6, <1>8, <1>9, <1>10 DEF Measures, k
<1>12. QED
  BY <1>1, <1>11 DEF expanded, dist

\* The layer of each node: its distance to the servers.
Level(nw) == Distance(nw, nw.servers, Nodes(nw))

LEMMA LevelFacts ==
    ASSUME NEW nw, IsNetwork(nw), IsLayered(nw)
    PROVE  /\ nw.servers \subseteq Nodes(nw)
           /\ Level(nw) \in [Nodes(nw) -> 0 .. Cardinality(Nodes(nw)) + 1]
           /\ \A v \in Nodes(nw) : Level(nw)[v] = 0 <=> v \in nw.servers
           /\ \A d \in nw.devices : \/ Level(nw)[d[2]] = Level(nw)[d[1]] + 1
                                    \/ Level(nw)[d[1]] = Level(nw)[d[2]] + 1
           /\ Rebuild(nw) = {d \in nw.devices : /\ d[1] \notin nw.servers
                                                /\ Level(nw)[d[2]] = Level(nw)[d[1]] + 1}
           /\ Downlinks(nw) = {d \in nw.devices : /\ d[1] \notin nw.servers
                                                  /\ Level(nw)[d[1]] = Level(nw)[d[2]] + 1}
<1> DEFINE level == Level(nw)
<1>1. nw.servers \in SUBSET Nodes(nw)
  <2>1. ASSUME NEW s \in nw.servers PROVE \E d \in nw.devices : d[1] = s
    <3>1. Cardinality({d \in nw.devices : d[1] = s}) = 1
      BY DEF IsNetwork
    <3>2. {d \in nw.devices : d[1] = s} # {}
      BY <3>1, FS_EmptySet
    <3>3. QED
      BY <3>2
  <2>2. QED
    BY <2>1 DEF Nodes
<1>2. Measures(level, nw, nw.servers, nw.servers \union Nodes(nw))
  BY <1>1, DistanceMeasures DEF Level
<1>3. /\ level \in [Nodes(nw) -> 0 .. Cardinality(Nodes(nw)) + 1]
      /\ \A v \in Nodes(nw) : level[v] = 0 <=> v \in nw.servers
  BY <1>2 DEF Measures
<1>4. \A d \in nw.devices : level[d[2]] <= level[d[1]] + 1
  BY <1>2, NodesAreFinite DEF Measures
<1>5. \A d \in nw.devices : level[d[1]] # level[d[2]]
  BY DEF IsLayered, Level
<1> HIDE DEF level
<1>6. ASSUME NEW d \in nw.devices
      PROVE  level[d[2]] = level[d[1]] + 1 \/ level[d[1]] = level[d[2]] + 1
  <2>1. level[d[1]] \in Nat /\ level[d[2]] \in Nat
    BY <1>3, NodesAreFinite
  <2>2. Peer(d) \in nw.devices /\ Peer(d)[1] = d[2] /\ Peer(d)[2] = d[1]
    BY NodesAreFinite DEF Peer
  <2>3. level[d[2]] <= level[d[1]] + 1 /\ level[d[1]] <= level[d[2]] + 1
    BY <1>4, <2>2
  <2>4. QED
    BY <1>5, <2>1, <2>3
<1>7. Rebuild(nw) = {d \in nw.devices : d[1] \notin nw.servers /\ level[d[2]] = level[d[1]] + 1}
  BY DEF Rebuild, level, Level
<1>8. Downlinks(nw) = {d \in nw.devices : d[1] \notin nw.servers /\ level[d[1]] = level[d[2]] + 1}
  <2>1. \A d \in nw.devices : level[d[1]] \in Nat /\ level[d[2]] \in Nat
    BY <1>3, NodesAreFinite
  <2>2. \A d \in nw.devices : level[d[1]] = level[d[2]] + 1 <=> ~(level[d[2]] = level[d[1]] + 1)
    BY <1>6, <2>1
  <2>3. QED
    BY <1>7, <2>2 DEF Downlinks
<1>9. QED
  BY <1>1, <1>3, <1>6, <1>7, <1>8 DEF level

-----------------------------------------------------------------------------
(* The devices that a packet can go through.                               *)

\* The least set that has the NIC of the source and, with a device, the devices
\* that send the packet on when it has come through that one.
TreeOf(devs, nic, outs) ==
    {d \in devs : \A S \in SUBSET devs : nic \in S /\ (\A e \in S : outs[e] \subseteq S) => d \in S}

LEMMA TreeFacts ==
    ASSUME NEW devs, NEW nic \in devs, NEW outs \in [devs -> SUBSET devs]
    PROVE  /\ TreeOf(devs, nic, outs) \subseteq devs /\ nic \in TreeOf(devs, nic, outs)
           /\ \A e \in TreeOf(devs, nic, outs) : outs[e] \subseteq TreeOf(devs, nic, outs)
           /\ \A d \in TreeOf(devs, nic, outs) :
                  d = nic \/ \E e \in TreeOf(devs, nic, outs) : d \in outs[e]
<1> DEFINE T == TreeOf(devs, nic, outs)
<1>1. T \subseteq devs /\ nic \in T
  BY DEF TreeOf
<1>2. ASSUME NEW e \in T, NEW d \in outs[e] PROVE d \in T
  BY <1>1 DEF TreeOf
<1>3. ASSUME NEW d \in T, d # nic, \A e \in T : d \notin outs[e] PROVE FALSE
  <2>1. T \ {d} \in SUBSET devs /\ nic \in T \ {d}
    BY <1>1, <1>3
  <2>2. \A e \in T \ {d} : outs[e] \subseteq T \ {d}
    BY <1>2, <1>3
  <2>3. d \in T \ {d}
    BY <2>1, <2>2 DEF TreeOf
  <2>4. QED
    BY <2>3
<1>4. QED
  BY <1>1, <1>2, <1>3

LEMMA TreeIsLeast ==
    ASSUME NEW devs, NEW nic, NEW outs, NEW S \in SUBSET devs,
           nic \in S, \A e \in S : outs[e] \subseteq S
    PROVE  TreeOf(devs, nic, outs) \subseteq S
BY DEF TreeOf

\* How a multicast packet is sent on in a fat tree: never back, and to at most
\* one uplink, if it does not come from one.
Floods(nw, below, nic, outs, elected) ==
    /\ IsNetwork(nw) /\ IsLayered(nw)
    /\ below \in [Nodes(nw) -> SUBSET Nodes(nw)] /\ IsFatTree(nw, below)
    /\ nic \in nw.devices /\ nic[1] \in nw.servers
    /\ outs \in [nw.devices -> SUBSET nw.devices]
    /\ \A e \in nw.devices : \A d \in outs[e] :
           /\ d[1] = e[2] /\ d[1] \notin nw.servers /\ d # Peer(e)
           /\ d \in Rebuild(nw) => Peer(e) \notin Rebuild(nw) /\ d = elected[d[1]]

FloodTree(nw, nic, outs) == TreeOf(nw.devices, nic, outs)
Climb(nw, nic, outs) == {d \in FloodTree(nw, nic, outs) : d = nic \/ d \in Rebuild(nw)}

LEMMA FloodFacts ==
    ASSUME NEW nw, NEW below, NEW nic, NEW outs, NEW elected, Floods(nw, below, nic, outs, elected)
    PROVE  /\ FloodTree(nw, nic, outs) \subseteq nw.devices
           /\ nic \in Climb(nw, nic, outs)
           /\ \A e \in FloodTree(nw, nic, outs) : outs[e] \subseteq FloodTree(nw, nic, outs)
           /\ \A d \in FloodTree(nw, nic, outs) : d # nic =>
                  /\ d[1] \notin nw.servers
                  /\ d \in Rebuild(nw) \/ d \in Downlinks(nw)
                  /\ \E e \in FloodTree(nw, nic, outs) : d \in outs[e] /\ e[2] = d[1] /\ d # Peer(e)
<1> DEFINE T == FloodTree(nw, nic, outs)
<1>1. /\ T \subseteq nw.devices /\ nic \in T
      /\ \A e \in T : outs[e] \subseteq T
      /\ \A d \in T : d = nic \/ \E e \in T : d \in outs[e]
  BY TreeFacts DEF Floods, FloodTree
<1>2. ASSUME NEW d \in T, d # nic
      PROVE  /\ d[1] \notin nw.servers /\ (d \in Rebuild(nw) \/ d \in Downlinks(nw))
             /\ \E e \in T : d \in outs[e] /\ e[2] = d[1] /\ d # Peer(e)
  <2>1. PICK e \in T : d \in outs[e]
    BY <1>1, <1>2
  <2>2. d[1] = e[2] /\ d[1] \notin nw.servers /\ d # Peer(e)
    BY <1>1, <2>1 DEF Floods
  <2>3. d \in Rebuild(nw) \/ d \in Downlinks(nw)
    BY <1>1, <2>2 DEF Downlinks
  <2>4. QED
    BY <2>1, <2>2, <2>3
<1>3. QED
  BY <1>1, <1>2 DEF Climb

LEMMA ClimbFacts ==
    ASSUME NEW nw, NEW below, NEW nic, NEW outs, NEW elected, Floods(nw, below, nic, outs, elected)
    PROVE  /\ \A r \in Climb(nw, nic, outs) : /\ Peer(r) \in Downlinks(nw)
                                              /\ Level(nw)[r[2]] = Level(nw)[r[1]] + 1
           /\ Level(nw)[nic[2]] = 1
           /\ \A r \in Climb(nw, nic, outs) : r # nic =>
                  /\ r = elected[r[1]] /\ Level(nw)[r[1]] > 0
                  /\ \E q \in Climb(nw, nic, outs) : q[2] = r[1]
<1> DEFINE T == FloodTree(nw, nic, outs)
           C == Climb(nw, nic, outs)
           level == Level(nw)
<1>1. IsNetwork(nw) /\ IsLayered(nw) /\ nic \in nw.devices /\ nic[1] \in nw.servers
  BY DEF Floods
<1>2. /\ \A d \in nw.devices : /\ d[1] \in Nodes(nw) /\ d[2] \in Nodes(nw)
                               /\ Peer(d) \in nw.devices
                               /\ Peer(d)[1] = d[2] /\ Peer(d)[2] = d[1]
      /\ \A v \in Nodes(nw) : level[v] \in Nat /\ (level[v] = 0 <=> v \in nw.servers)
      /\ \A d \in nw.devices : level[d[2]] = level[d[1]] + 1 \/ level[d[1]] = level[d[2]] + 1
      /\ Rebuild(nw) = {d \in nw.devices : d[1] \notin nw.servers /\ level[d[2]] = level[d[1]] + 1}
      /\ Downlinks(nw) = {d \in nw.devices : d[1] \notin nw.servers /\ level[d[1]] = level[d[2]] + 1}
  BY <1>1, LevelFacts, NodesAreFinite DEF Peer
<1> HIDE DEF level, T, C
<1>3. C \subseteq T /\ T \subseteq nw.devices /\ C \subseteq nw.devices /\ \A r \in C : r = nic \/ r \in Rebuild(nw)
  BY FloodFacts DEF C, T, Climb
<1>4. level[nic[2]] = 1 /\ level[nic[1]] = 0
  BY <1>1, <1>2
<1>5. ASSUME NEW r \in C PROVE Peer(r) \in Downlinks(nw) /\ level[r[2]] = level[r[1]] + 1
  <2>1. level[r[2]] = level[r[1]] + 1
    BY <1>2, <1>3, <1>4
  <2>2. r \in nw.devices /\ level[r[2]] # 0
    BY <1>2, <1>3, <2>1
  <2>3. r[2] \notin nw.servers
    BY <1>2, <2>2
  <2>4. QED
    BY <1>2, <2>1, <2>2, <2>3
<1>6. ASSUME NEW r \in C, r # nic
      PROVE  r = elected[r[1]] /\ level[r[1]] > 0 /\ \E q \in C : q[2] = r[1]
  <2>1. r \in Rebuild(nw) /\ r \in T
    BY <1>3, <1>6
  <2>2. PICK q \in T : r \in outs[q] /\ q[2] = r[1] /\ r[1] \notin nw.servers
    BY <1>6, <2>1, FloodFacts DEF T
  <2>3. q \in nw.devices
    BY <1>3
  <2>4. Peer(q) \notin Rebuild(nw) /\ r = elected[r[1]]
    BY <2>1, <2>2, <2>3 DEF Floods
  <2>5. level[q[2]] = level[q[1]] + 1
    BY <1>2, <2>2, <2>3, <2>4
  <2>6. q = nic \/ q \in Rebuild(nw)
    <3>1. SUFFICES ASSUME q # nic PROVE q \in Rebuild(nw)
      OBVIOUS
    <3>2. q[1] \notin nw.servers
      BY <3>1, FloodFacts DEF T
    <3>3. QED
      BY <1>2, <2>3, <2>5, <3>2
  <2>7. q \in C
    BY <2>6 DEF C, T, Climb
  <2>8. level[r[1]] > 0
    <3>1. r[1] \in Nodes(nw)
      BY <1>2, <1>3
    <3>2. QED
      BY <1>2, <2>2, <3>1
  <2>9. QED
    BY <2>2, <2>4, <2>7, <2>8
<1>7. QED
  BY <1>4, <1>5, <1>6 DEF level, C

\* What the lemmas about a flood use of the levels.
LEMMA FloodLevels ==
    ASSUME NEW nw, NEW below, NEW nic, NEW outs, NEW elected, Floods(nw, below, nic, outs, elected)
    PROVE  /\ \A v \in Nodes(nw) : Level(nw)[v] \in 0 .. Cardinality(Nodes(nw)) + 1
           /\ \A d \in nw.devices : d[1] \in Nodes(nw) /\ d[2] \in Nodes(nw)
           /\ \A d \in Downlinks(nw) : d \in nw.devices /\ Level(nw)[d[1]] = Level(nw)[d[2]] + 1
           /\ \A d \in Rebuild(nw) : d \in nw.devices /\ Level(nw)[d[2]] = Level(nw)[d[1]] + 1
           /\ Cardinality(Nodes(nw)) \in Nat
BY LevelFacts, NodesAreFinite DEF Floods

\* Going down, one sees less and less, and two ways down see different nodes.
LEMMA GoingDown ==
    ASSUME NEW nw, NEW below, NEW nic, NEW outs, NEW elected, Floods(nw, below, nic, outs, elected)
    PROVE  /\ \A v \in Nodes(nw) : v \in below[v] /\ below[v] \subseteq Nodes(nw)
           /\ \A d \in Downlinks(nw) : below[d[2]] \subseteq below[d[1]]
           /\ \A d, e \in Downlinks(nw) :
                  d[1] = e[1] /\ d # e => below[d[2]] \intersect below[e[2]] = {}
<1>1. IsFatTree(nw, below) /\ below \in [Nodes(nw) -> SUBSET Nodes(nw)]
  BY DEF Floods
<1>2. \A v, w \in Nodes(nw) :
          w \in below[v] <=> w = v \/ \E d \in Downlinks(nw) : d[1] = v /\ w \in below[d[2]]
  BY <1>1 DEF IsFatTree
<1>3. \A d \in Downlinks(nw) : d[1] \in Nodes(nw) /\ d[2] \in Nodes(nw)
  BY FloodLevels
<1>4. QED
  BY <1>1, <1>2, <1>3 DEF IsFatTree

\* A packet climbs one chain of uplinks: it takes one device to each layer.
LEMMA OneChain ==
    ASSUME NEW nw, NEW below, NEW nic, NEW outs, NEW elected, Floods(nw, below, nic, outs, elected),
           NEW p \in Climb(nw, nic, outs), NEW r \in Climb(nw, nic, outs),
           Level(nw)[p[2]] = Level(nw)[r[2]]
    PROVE  p = r
<1> DEFINE C == Climb(nw, nic, outs)
           level == Level(nw)
           Bad == {level[d[2]] : d \in {x \in C : \E e \in C : x # e /\ level[x[2]] = level[e[2]]}}
<1>1. \A d \in C : /\ level[d[1]] \in Nat /\ level[d[2]] = level[d[1]] + 1
  <2>1. C \subseteq nw.devices
    BY FloodFacts DEF Climb
  <2>2. QED
    BY <2>1, FloodLevels, ClimbFacts
<1>2. level[nic[2]] = 1 /\ \A d \in C : d # nic =>
          d = elected[d[1]] /\ level[d[1]] > 0 /\ \E q \in C : q[2] = d[1]
  BY ClimbFacts
<1> HIDE DEF level, C
<1>3. SUFFICES ASSUME p # r PROVE FALSE
  OBVIOUS
<1>4. Bad # {} /\ Bad \in SUBSET Nat
  <2>1. p \in C /\ r \in C /\ level[p[2]] = level[r[2]]
    BY DEF C, level
  <2>2. QED
    BY <1>1, <1>3, <2>1
<1>5. PICK n \in Bad : \A m \in Bad : n <= m
  <2> HIDE DEF Bad
  <2>1. QED
    BY <1>4, LeastNatural
<1>6. PICK d \in C, e \in C : d # e /\ level[d[2]] = n /\ level[e[2]] = n
  BY <1>5
<1>7. d # nic /\ e # nic
  BY <1>1, <1>2, <1>6
<1>8. PICK q1 \in C, q2 \in C : q1[2] = d[1] /\ q2[2] = e[1]
  BY <1>2, <1>7
<1>9. level[q1[2]] = level[q2[2]] /\ level[q1[2]] \in Nat /\ level[q1[2]] < n
  BY <1>1, <1>6, <1>8
<1>10. q1 = q2
  <2>1. SUFFICES ASSUME q1 # q2 PROVE FALSE
    OBVIOUS
  <2>2. level[q1[2]] \in Bad
    BY <1>9, <2>1
  <2> HIDE DEF Bad
  <2>3. n \in Nat /\ n <= level[q1[2]]
    BY <1>4, <1>5, <2>2
  <2>4. QED
    BY <1>9, <2>3
<1>11. d = elected[d[1]] /\ e = elected[e[1]] /\ d[1] = e[1]
  BY <1>2, <1>7, <1>8, <1>10
<1>12. QED
  BY <1>6, <1>11

\* What is below a node of the chain is below those after it.
LEMMA ChainBelow ==
    ASSUME NEW nw, NEW below, NEW nic, NEW outs, NEW elected, Floods(nw, below, nic, outs, elected),
           NEW p \in Climb(nw, nic, outs), NEW r \in Climb(nw, nic, outs),
           Level(nw)[p[2]] < Level(nw)[r[2]]
    PROVE  below[p[2]] \subseteq below[r[1]]
<1> DEFINE C == Climb(nw, nic, outs)
           level == Level(nw)
           Wrong(x) == level[p[2]] < level[x[2]] /\ ~(below[p[2]] \subseteq below[x[1]])
           Bad == {level[x[2]] : x \in {y \in C : Wrong(y)}}
<1>1. \A d \in C : /\ level[d[1]] \in Nat /\ level[d[2]] = level[d[1]] + 1
                   /\ Peer(d) \in Downlinks(nw) /\ Peer(d)[1] = d[2] /\ Peer(d)[2] = d[1]
  <2>1. C \subseteq nw.devices
    BY FloodFacts DEF Climb
  <2>2. \A d \in C : level[d[1]] \in Nat
    BY <2>1, FloodLevels
  <2>3. \A d \in C : level[d[2]] = level[d[1]] + 1 /\ Peer(d) \in Downlinks(nw)
    BY ClimbFacts
  <2>4. \A d \in C : Peer(d)[1] = d[2] /\ Peer(d)[2] = d[1]
    BY DEF Peer
  <2>5. QED
    BY <2>2, <2>3, <2>4
<1>2. level[nic[2]] = 1 /\ \A d \in C : d # nic => \E q \in C : q[2] = d[1]
  BY ClimbFacts
<1>3. \A d \in C : below[d[1]] \subseteq below[d[2]]
  BY <1>1, GoingDown
<1>4. p \in C /\ r \in C /\ level[p[2]] < level[r[2]]
  OBVIOUS
<1> HIDE DEF level, C
<1>5. SUFFICES ASSUME ~(below[p[2]] \subseteq below[r[1]]) PROVE FALSE
  OBVIOUS
<1>6. Bad # {} /\ Bad \in SUBSET Nat
  BY <1>1, <1>4, <1>5
<1>7. PICK n \in Bad : \A m \in Bad : n <= m
  <2> HIDE DEF Bad
  <2>1. QED
    BY <1>6, LeastNatural
<1>8. PICK x \in C : Wrong(x) /\ level[x[2]] = n
  BY <1>7
<1>9. x # nic
  BY <1>1, <1>2, <1>4, <1>8
<1>10. PICK q \in C : q[2] = x[1]
  BY <1>2, <1>9
<1>11. /\ n \in Nat /\ level[q[2]] = n - 1 /\ level[q[2]] \in Nat
       /\ level[p[2]] \in Nat /\ level[p[2]] < n
  BY <1>1, <1>4, <1>8, <1>10
<1>12. CASE level[q[2]] = level[p[2]]
  <2>1. q = p
    BY <1>12, OneChain DEF C, level
  <2>2. QED
    BY <1>8, <1>10, <2>1
<1>13. CASE level[q[2]] # level[p[2]]
  <2>1. level[p[2]] < level[q[2]]
    BY <1>11, <1>13
  <2>2. ~Wrong(q)
    <3>1. SUFFICES ASSUME Wrong(q) PROVE FALSE
      OBVIOUS
    <3>2. level[q[2]] \in Bad
      BY <3>1
    <3> HIDE DEF Bad, Wrong
    <3>3. n <= level[q[2]] /\ n \in Nat
      BY <1>6, <1>7, <3>2
    <3>4. QED
      BY <1>11, <3>3
  <2>3. below[p[2]] \subseteq below[q[1]]
    BY <2>1, <2>2
  <2>4. QED
    BY <1>3, <1>8, <1>10, <2>3
<1>14. QED
  BY <1>12, <1>13

\* A packet that goes down has left the chain at one of its nodes.
LEMMA Branch ==
    ASSUME NEW nw, NEW below, NEW nic, NEW outs, NEW elected, Floods(nw, below, nic, outs, elected),
           NEW e \in FloodTree(nw, nic, outs), e \in Downlinks(nw), e # nic
    PROVE  \E p \in Climb(nw, nic, outs), g \in Downlinks(nw) :
               /\ g[1] = p[2] /\ g # Peer(p)
               /\ below[e[2]] \subseteq below[g[2]]
               /\ Level(nw)[e[2]] < Level(nw)[p[2]]
<1> DEFINE T == FloodTree(nw, nic, outs)
           C == Climb(nw, nic, outs)
           level == Level(nw)
           Branches(x, p, g) == /\ g[1] = p[2] /\ g # Peer(p)
                                /\ below[x[2]] \subseteq below[g[2]]
                                /\ level[x[2]] < level[p[2]]
           S == C \union {x \in T : /\ x # nic /\ x \in Downlinks(nw)
                                    /\ \E p \in C, g \in Downlinks(nw) : Branches(x, p, g)}
<1>1. /\ T \subseteq nw.devices /\ nic \in C /\ C \subseteq T
      /\ \A x \in T : outs[x] \subseteq T
  BY FloodFacts DEF Climb
<1>2. \A d \in T : d # nic => d \in Rebuild(nw) \/ d \in Downlinks(nw)
  BY FloodFacts
<1>3. \A x \in T : \A d \in outs[x] : d[1] = x[2] /\ d[1] \notin nw.servers /\ d # Peer(x)
  BY <1>1 DEF Floods
<1>4. /\ \A d \in Downlinks(nw) : /\ level[d[1]] = level[d[2]] + 1 /\ level[d[2]] \in Nat
                                  /\ below[d[2]] \subseteq below[d[1]]
      /\ \A d \in T : level[d[2]] \in Nat
  BY <1>1, FloodLevels, GoingDown
<1>5. nic[1] \in nw.servers /\ C = {d \in T : d = nic \/ d \in Rebuild(nw)}
  BY DEF Floods, Climb
<1> HIDE DEF T, C, level
<1>6. ASSUME NEW x \in S, NEW d \in outs[x] PROVE d \in S
  <2>1. d \in T /\ d[1] = x[2] /\ d # Peer(x) /\ d # nic
    BY <1>1, <1>3, <1>5, <1>6
  <2>2. CASE d \in Rebuild(nw)
    BY <1>5, <2>1, <2>2
  <2>3. CASE d \in Downlinks(nw) /\ x \in C
    <3>1. Branches(d, x, d)
      BY <1>1, <1>4, <2>1, <2>3
    <3>2. QED
      BY <2>1, <2>3, <3>1
  <2>4. CASE d \in Downlinks(nw) /\ x \notin C
    <3>1. PICK p \in C, g \in Downlinks(nw) : Branches(x, p, g)
      BY <1>6, <2>4
    <3>2. level[d[2]] < level[p[2]]
      BY <1>1, <1>4, <2>1, <2>4, <3>1
    <3>3. below[d[2]] \subseteq below[g[2]]
      BY <1>4, <2>1, <2>4, <3>1
    <3>4. Branches(d, p, g)
      BY <3>1, <3>2, <3>3
    <3>5. QED
      BY <2>1, <2>4, <3>4
  <2>5. QED
    BY <1>2, <2>1, <2>2, <2>3, <2>4
<1>7. S \in SUBSET nw.devices /\ nic \in S
  BY <1>1
<1>8. T \subseteq S
  <2> HIDE DEF S
  <2>1. \A x \in S : outs[x] \subseteq S
    BY <1>6
  <2>2. QED
    BY <1>7, <2>1, TreeIsLeast DEF T, FloodTree
<1>9. e \notin C
  <2>1. e \notin Rebuild(nw)
    BY DEF Downlinks
  <2>2. QED
    BY <1>5, <2>1
<1>10. \E p \in C, g \in Downlinks(nw) : Branches(e, p, g)
  <2>1. e \in T
    BY DEF T
  <2>2. QED
    BY <1>8, <1>9, <2>1
<1>11. QED
  BY <1>10 DEF C, level

\* Two packets on their way down, at the same layer, see different nodes.
LEMMA WaysDownAreApart ==
    ASSUME NEW nw, NEW below, NEW nic, NEW outs, NEW elected, Floods(nw, below, nic, outs, elected),
           NEW d \in FloodTree(nw, nic, outs), d \in Downlinks(nw), d # nic,
           NEW e \in FloodTree(nw, nic, outs), e \in Downlinks(nw), e # nic,
           d # e, Level(nw)[d[2]] = Level(nw)[e[2]]
    PROVE  below[d[2]] \intersect below[e[2]] = {}
<1> DEFINE T == FloodTree(nw, nic, outs)
           C == Climb(nw, nic, outs)
           level == Level(nw)
           D == {x \in T : x # nic /\ x \in Downlinks(nw)}
           top == Cardinality(Nodes(nw)) + 1
           Meet(x, y) == /\ x # y /\ level[x[2]] = level[y[2]]
                         /\ below[x[2]] \intersect below[y[2]] # {}
           Bad == {top - level[z[1][2]] : z \in {w \in D \X D : Meet(w[1], w[2])}}
<1>1. SUFFICES ASSUME Meet(d, e) PROVE FALSE
  OBVIOUS
<1>2. /\ D \subseteq T /\ C \subseteq T
      /\ \A x \in D : /\ x \in Downlinks(nw) /\ below[x[2]] \subseteq below[x[1]]
                      /\ level[x[1]] = level[x[2]] + 1
      /\ \A x \in T : level[x[2]] \in 0 .. top
      /\ top \in Nat
  <2>1. T \subseteq nw.devices
    BY FloodFacts
  <2>2. \A x \in T : level[x[2]] \in 0 .. top
    BY <2>1, FloodLevels
  <2>3. \A x \in D : x \in Downlinks(nw) /\ level[x[1]] = level[x[2]] + 1
    BY FloodLevels
  <2>4. \A x \in D : below[x[2]] \subseteq below[x[1]]
    BY GoingDown
  <2>5. C \subseteq T /\ top \in Nat
    BY FloodLevels DEF Climb
  <2>6. QED
    BY <2>2, <2>3, <2>4, <2>5
<1>3. \A x \in D : \E p \in T : x \in outs[p] /\ p[2] = x[1]
  BY FloodFacts
<1>4. \A p \in T : p \in C \/ p \in D
  BY FloodFacts DEF Climb
<1>5. \A x, y \in D : x[1] = y[1] /\ x # y => below[x[2]] \intersect below[y[2]] = {}
  BY <1>2, GoingDown
<1>6. ASSUME NEW x \in D, NEW y \in D, NEW p \in C, NEW q \in D,
             p[2] = x[1], q[2] = y[1], level[p[2]] = level[q[2]]
      PROVE  below[x[2]] \intersect below[y[2]] = {}
  <2>1. PICK r \in C, g \in Downlinks(nw) :
            /\ g[1] = r[2] /\ g # Peer(r)
            /\ below[q[2]] \subseteq below[g[2]]
            /\ level[q[2]] < level[r[2]]
    BY Branch
  <2>2. below[p[2]] \subseteq below[r[1]]
    BY <1>6, <2>1, ChainBelow
  <2>3. Peer(r) \in Downlinks(nw) /\ Peer(r)[1] = r[2] /\ Peer(r)[2] = r[1]
    BY ClimbFacts DEF Peer
  <2>4. below[r[1]] \intersect below[g[2]] = {}
    BY <2>1, <2>3, GoingDown
  <2>5. below[x[2]] \subseteq below[p[2]] /\ below[y[2]] \subseteq below[q[2]]
    BY <1>2, <1>6
  <2>6. QED
    BY <2>1, <2>2, <2>4, <2>5
<1>7. d \in D /\ e \in D
  OBVIOUS
<1>8. \A p, q \in C : level[p[2]] = level[q[2]] => p = q
  BY OneChain
<1> HIDE DEF D, C, T, level, top
<1>9. Bad # {} /\ Bad \in SUBSET Nat
  <2>1. <<d, e>> \in {w \in D \X D : Meet(w[1], w[2])}
    BY <1>1, <1>7
  <2>2. \A w \in D \X D : top - level[w[1][2]] \in Nat
    BY <1>2
  <2>3. QED
    BY <2>1, <2>2
<1>10. PICK n \in Bad : \A m \in Bad : n <= m
  <2> HIDE DEF Bad
  <2>1. QED
    BY <1>9, LeastNatural
<1>11. PICK w \in D \X D : Meet(w[1], w[2]) /\ n = top - level[w[1][2]]
  BY <1>10
<1>12. PICK x \in D, y \in D : Meet(x, y) /\ n = top - level[x[2]]
  BY <1>11
<1>13. PICK p \in T, q \in T : p[2] = x[1] /\ q[2] = y[1]
  BY <1>3
<1>14. level[p[2]] = level[x[2]] + 1 /\ level[q[2]] = level[p[2]]
  BY <1>2, <1>12, <1>13
<1>15. p # q
  BY <1>5, <1>12, <1>13
<1>16. CASE p \in C /\ q \in C
  BY <1>8, <1>14, <1>15, <1>16
<1>17. CASE p \in C /\ q \in D
  BY <1>6, <1>12, <1>13, <1>14, <1>17
<1>18. CASE p \in D /\ q \in C
  BY <1>6, <1>12, <1>13, <1>14, <1>18
<1>19. CASE p \in D /\ q \in D
  <2>1. below[x[2]] \subseteq below[p[2]] /\ below[y[2]] \subseteq below[q[2]]
    BY <1>2, <1>13
  <2>2. Meet(p, q)
    BY <1>12, <1>14, <1>15, <2>1
  <2>3. top - level[p[2]] \in Bad
    <3>1. <<p, q>> \in {z \in D \X D : Meet(z[1], z[2])} /\ <<p, q>>[1] = p
      BY <1>19, <2>2
    <3>2. QED
      BY <3>1
  <2>4. top - level[p[2]] < n
    BY <1>2, <1>12, <1>14
  <2> HIDE DEF Bad
  <2>5. n <= top - level[p[2]] /\ n \in Nat
    BY <1>9, <1>10, <2>3
  <2>6. top - level[p[2]] \in Nat
    BY <1>2, <1>19
  <2>7. QED
    BY <2>4, <2>5, <2>6
<1>20. QED
  BY <1>4, <1>16, <1>17, <1>18, <1>19

\* A flood goes through at most one device into each node.
LEMMA FloodIsTree ==
    ASSUME NEW nw, NEW below, NEW nic, NEW outs, NEW elected, Floods(nw, below, nic, outs, elected),
           NEW d \in FloodTree(nw, nic, outs), NEW e \in FloodTree(nw, nic, outs), d[2] = e[2]
    PROVE  d = e
<1> DEFINE T == FloodTree(nw, nic, outs)
           C == Climb(nw, nic, outs)
           D == {x \in T : x # nic /\ x \in Downlinks(nw)}
           level == Level(nw)
<1>1. /\ T \subseteq nw.devices /\ \A x \in T : x \in C \/ x \in D
      /\ \A x \in T : level[x[2]] \in Nat /\ x[2] \in below[x[2]]
  BY FloodFacts, FloodLevels, GoingDown DEF Climb
<1>2. ASSUME NEW x \in C, NEW y \in D, x[2] = y[2] PROVE FALSE
  <2>1. PICK r \in C, g \in Downlinks(nw) :
            /\ g[1] = r[2] /\ g # Peer(r)
            /\ below[y[2]] \subseteq below[g[2]]
            /\ level[y[2]] < level[r[2]]
    BY Branch
  <2>2. below[x[2]] \subseteq below[r[1]]
    BY <1>2, <2>1, ChainBelow
  <2>3. Peer(r) \in Downlinks(nw) /\ Peer(r)[1] = r[2] /\ Peer(r)[2] = r[1]
    BY ClimbFacts DEF Peer
  <2>4. below[r[1]] \intersect below[g[2]] = {}
    BY <2>1, <2>3, GoingDown
  <2>5. y[2] \in below[y[2]]
    BY <1>1
  <2>6. QED
    BY <1>2, <2>1, <2>2, <2>4, <2>5
<1>3. CASE d \in C /\ e \in C
  BY <1>3, OneChain
<1>4. CASE d \in D /\ e \in D
  <2>1. SUFFICES ASSUME d # e PROVE FALSE
    OBVIOUS
  <2>2. below[d[2]] \intersect below[e[2]] = {}
    BY <1>4, <2>1, WaysDownAreApart
  <2>3. QED
    BY <1>1, <2>2
<1>5. QED
  BY <1>1, <1>2, <1>3, <1>4

\* How a unicast packet is sent on: to one next hop, nearer to the destination.
Hops(nw, dip, nic, outs) ==
    /\ IsNetwork(nw) /\ dip \in nw.servers \intersect Nodes(nw)
    /\ nic \in nw.devices /\ nic[1] \in nw.servers /\ nic[2] \notin nw.servers
    /\ outs \in [nw.devices -> SUBSET nw.devices]
    /\ \A e \in nw.devices : \A d \in outs[e] :
           /\ e[2] \in Switches(nw) /\ d \in BuildRoute(nw, dip)[e[2]]
           /\ outs[e] = {d}

\* The distance of a switch to the destination.
Away(nw, dip) == Distance(nw, {dip}, Switches(nw))

LEMMA HopFacts ==
    ASSUME NEW nw, NEW dip, NEW nic, NEW outs, Hops(nw, dip, nic, outs)
    PROVE  /\ \A d \in nw.devices : Away(nw, dip)[d[2]] \in 0 .. Cardinality(Nodes(nw)) + 1
           /\ Cardinality(Nodes(nw)) \in Nat
           /\ \A e \in nw.devices : \A d \in outs[e] :
                  /\ d \in nw.devices /\ d[1] = e[2] /\ outs[e] = {d}
                  /\ d[2] \in Switches(nw) \/ d[2] = dip
                  /\ Away(nw, dip)[e[2]] = Away(nw, dip)[d[2]] + 1
<1>1. Measures(Away(nw, dip), nw, {dip}, {dip} \union Switches(nw))
  BY DistanceMeasures DEF Away, Hops
<1>2. \A v \in Nodes(nw) : Away(nw, dip)[v] \in 0 .. Cardinality(Nodes(nw)) + 1
  BY <1>1 DEF Measures
<1>3. ASSUME NEW e \in nw.devices, NEW d \in outs[e]
      PROVE  /\ d \in nw.devices /\ d[1] = e[2] /\ outs[e] = {d}
             /\ d[2] \in Switches(nw) \/ d[2] = dip
             /\ Away(nw, dip)[e[2]] = Away(nw, dip)[d[2]] + 1
  <2>1. e[2] \in Switches(nw) /\ d \in BuildRoute(nw, dip)[e[2]] /\ outs[e] = {d}
    BY <1>3 DEF Hops
  <2>2. BuildRoute(nw, dip)[e[2]] =
            {x \in nw.devices : /\ x[1] = e[2]
                                /\ Away(nw, dip)[e[2]] = Away(nw, dip)[x[2]] + 1
                                /\ x[2] \in Switches(nw) \union {dip}}
    BY <2>1 DEF BuildRoute, Away
  <2>3. QED
    BY <2>1, <2>2
<1>4. QED
  BY <1>2, <1>3, NodesAreFinite DEF Hops

\* The path of a unicast packet goes through at most one device into each node.
LEMMA PathIsTree ==
    ASSUME NEW nw, NEW dip, NEW nic, NEW outs, Hops(nw, dip, nic, outs),
           NEW d \in TreeOf(nw.devices, nic, outs), NEW e \in TreeOf(nw.devices, nic, outs),
           d[2] = e[2]
    PROVE  d = e
<1> DEFINE T == TreeOf(nw.devices, nic, outs)
           away == Away(nw, dip)
           top == Cardinality(Nodes(nw)) + 1
           S == {x \in nw.devices : x = nic \/ away[x[2]] < away[nic[2]]}
           Meet(x, y) == x # y /\ away[x[2]] = away[y[2]]
           Bad == {top - away[z[1][2]] : z \in {w \in T \X T : Meet(w[1], w[2])}}
<1>1. nic \in nw.devices /\ outs \in [nw.devices -> SUBSET nw.devices]
  BY DEF Hops
<1>2. /\ T \subseteq nw.devices
      /\ \A x \in T : x = nic \/ \E p \in T : x \in outs[p]
  BY <1>1, TreeFacts
<1>3. /\ top \in Nat /\ \A x \in nw.devices : away[x[2]] \in 0 .. top
      /\ \A p \in nw.devices : \A x \in outs[p] : /\ x \in nw.devices /\ outs[p] = {x}
                                                  /\ away[p[2]] = away[x[2]] + 1
  BY HopFacts
<1>4. T \subseteq S
  <2>1. S \in SUBSET nw.devices /\ nic \in S
    BY <1>1
  <2>2. \A p \in S : outs[p] \subseteq S
    <3>1. SUFFICES ASSUME NEW p \in S, NEW x \in outs[p] PROVE x \in S
      OBVIOUS
    <3>2. x \in nw.devices /\ away[p[2]] = away[x[2]] + 1
      BY <1>3
    <3>3. away[x[2]] \in Nat /\ away[p[2]] \in Nat /\ away[nic[2]] \in Nat
      BY <1>1, <1>3, <3>2
    <3>4. QED
      BY <3>2, <3>3
  <2> HIDE DEF S
  <2>3. QED
    BY <2>1, <2>2, TreeIsLeast
<1>5. SUFFICES ASSUME d # e PROVE FALSE
  OBVIOUS
<1>6. d \in T /\ e \in T
  OBVIOUS
<1> HIDE DEF T, away, top
<1>7. Bad # {} /\ Bad \in SUBSET Nat
  <2>1. <<d, e>> \in {w \in T \X T : Meet(w[1], w[2])}
    BY <1>5, <1>6
  <2>2. \A w \in T \X T : top - away[w[1][2]] \in Nat
    BY <1>2, <1>3
  <2>3. QED
    BY <2>1, <2>2
<1>8. PICK n \in Bad : \A m \in Bad : n <= m
  <2> HIDE DEF Bad
  <2>1. QED
    BY <1>7, LeastNatural
<1>9. PICK w \in T \X T : Meet(w[1], w[2]) /\ n = top - away[w[1][2]]
  BY <1>8
<1>10. PICK x \in T, y \in T : Meet(x, y) /\ n = top - away[x[2]]
  BY <1>9
<1>11. x # nic /\ y # nic
  BY <1>1, <1>2, <1>3, <1>4, <1>10
<1>12. PICK p \in T, q \in T : x \in outs[p] /\ y \in outs[q]
  BY <1>2, <1>11
<1>13. away[p[2]] = away[x[2]] + 1 /\ away[q[2]] = away[p[2]]
  BY <1>2, <1>3, <1>10, <1>12
<1>14. p # q
  BY <1>2, <1>3, <1>10, <1>12
<1>15. top - away[p[2]] \in Bad
  <2>1. <<p, q>> \in {z \in T \X T : Meet(z[1], z[2])} /\ <<p, q>>[1] = p
    BY <1>13, <1>14
  <2>2. QED
    BY <2>1
<1>16. top - away[p[2]] < n
  BY <1>2, <1>3, <1>10, <1>13
<1> HIDE DEF Bad
<1>17. n <= top - away[p[2]] /\ n \in Nat /\ top - away[p[2]] \in Nat
  BY <1>7, <1>8, <1>15
<1>18. QED
  BY <1>16, <1>17

-----------------------------------------------------------------------------
(* The order of the devices, and the election of one.                      *)

Precedes(e, d) == e[1] < d[1] \/ (e[1] = d[1] /\ e[2] < d[2])
Before(devs, d) == {e \in devs : Precedes(e, d)}

LEMMA RanksDiffer ==
    ASSUME NEW devs, IsFiniteSet(devs), devs \subseteq Nat \X Nat,
           NEW d \in devs, NEW e \in devs, Precedes(e, d)
    PROVE  Cardinality(Before(devs, e)) < Cardinality(Before(devs, d))
<1> DEFINE b(x) == Before(devs, x)
<1>1. \A x \in devs : x[1] \in Nat /\ x[2] \in Nat
  OBVIOUS
<1>2. e \in b(d) /\ e \notin b(e)
  BY <1>1 DEF Before, Precedes
<1>3. b(e) \in SUBSET (b(d) \ {e})
  <2>1. \A x \in devs : Precedes(x, e) => Precedes(x, d)
    BY <1>1 DEF Precedes
  <2>2. QED
    BY <1>2, <2>1 DEF Before
<1>4. IsFiniteSet(b(d)) /\ IsFiniteSet(b(d) \ {e})
  <2>1. b(d) \in SUBSET devs
    BY DEF Before
  <2>2. IsFiniteSet(b(d))
    BY <2>1, FS_Subset
  <2>3. QED
    BY <2>2, FS_RemoveElement
<1> HIDE DEF b
<1>5. Cardinality(b(d) \ {e}) = Cardinality(b(d)) - 1
  BY <1>2, <1>4, FS_RemoveElement
<1>6. Cardinality(b(e)) <= Cardinality(b(d) \ {e}) /\ IsFiniteSet(b(e))
  BY <1>3, <1>4, FS_Subset
<1>7. Cardinality(b(d)) \in Nat /\ Cardinality(b(e)) \in Nat
  BY <1>4, <1>6, FS_CardinalityType
<1>8. Cardinality(b(e)) < Cardinality(b(d))
  BY <1>5, <1>6, <1>7
<1>9. QED
  BY <1>8 DEF b

LEMMA InOrderFacts ==
    ASSUME NEW devs, IsFiniteSet(devs), devs \subseteq Nat \X Nat
    PROVE  /\ InOrder(devs) \in Seq(devs) /\ Len(InOrder(devs)) = Cardinality(devs)
           /\ \A d \in devs : \E i \in 1 .. Cardinality(devs) : InOrder(devs)[i] = d
<1> DEFINE n == Cardinality(devs)
           rank == [d \in devs |-> Cardinality(Before(devs, d))]
<1>1. n \in Nat
  BY FS_CardinalityType
<1>2. ASSUME NEW d \in devs PROVE rank[d] \in 0 .. n - 1
  <2>1. d \notin Before(devs, d)
    BY DEF Before, Precedes
  <2>2. Before(devs, d) \in SUBSET (devs \ {d})
    BY <2>1 DEF Before
  <2>3. IsFiniteSet(devs \ {d}) /\ Cardinality(devs \ {d}) = n - 1
    BY FS_RemoveElement
  <2>4. Cardinality(Before(devs, d)) <= n - 1 /\ IsFiniteSet(Before(devs, d))
    BY <2>2, <2>3, FS_Subset
  <2>5. Cardinality(Before(devs, d)) \in Nat
    BY <2>4, FS_CardinalityType
  <2>6. QED
    BY <1>1, <2>4, <2>5
<1>3. ASSUME NEW d \in devs, NEW e \in devs, rank[d] = rank[e] PROVE d = e
  <2>1. d = <<d[1], d[2]>> /\ e = <<e[1], e[2]>> /\ {d[1], d[2], e[1], e[2]} \subseteq Nat
    OBVIOUS
  <2>2. CASE Precedes(d, e)
    BY <1>2, <1>3, <2>2, RanksDiffer
  <2>3. CASE Precedes(e, d)
    BY <1>2, <1>3, <2>3, RanksDiffer
  <2>4. CASE ~Precedes(d, e) /\ ~Precedes(e, d)
    <3>1. d[1] = e[1] /\ d[2] = e[2]
      BY <2>1, <2>4 DEF Precedes
    <3>2. QED
      BY <2>1, <3>1
  <2>5. QED
    BY <2>2, <2>3, <2>4
<1>4. rank \in Surjection(devs, 0 .. n - 1)
  <2>1. rank \in [devs -> 0 .. n - 1]
    BY <1>2
  <2>2. rank \in Injection(devs, 0 .. n - 1)
    <3> HIDE DEF rank
    <3>1. QED
      BY <1>3, <2>1 DEF Injection, IsInjective
  <2>3. IsFiniteSet(0 .. n - 1) /\ Cardinality(0 .. n - 1) = n
    <3>1. 0 \in Int /\ n - 1 \in Int /\ (n - 1) - 0 + 1 = n /\ (0 > n - 1 => n = 0)
      BY <1>1
    <3>2. QED
      BY <3>1, FS_Interval
  <2> HIDE DEF rank
  <2>4. QED
    BY <2>2, <2>3, FS_Injection
<1>5. ASSUME NEW i \in 1 .. n PROVE \E d \in devs : rank[d] = i - 1
  <2>1. i - 1 \in 0 .. n - 1
    BY <1>1
  <2> HIDE DEF rank
  <2>2. QED
    BY <1>4, <2>1 DEF Surjection
<1>6. InOrder(devs) = [i \in 1 .. n |-> CHOOSE d \in devs : Cardinality(Before(devs, d)) = i - 1]
  BY DEF InOrder, Before, Precedes
<1>7. ASSUME NEW i \in 1 .. n
      PROVE  InOrder(devs)[i] \in devs /\ rank[InOrder(devs)[i]] = i - 1
  <2>1. \E d \in devs : Cardinality(Before(devs, d)) = i - 1
    BY <1>5
  <2>2. InOrder(devs)[i] = CHOOSE d \in devs : Cardinality(Before(devs, d)) = i - 1
    BY <1>6
  <2>3. InOrder(devs)[i] \in devs /\ Cardinality(Before(devs, InOrder(devs)[i])) = i - 1
    BY <2>1, <2>2
  <2>4. QED
    BY <2>3
<1> HIDE DEF rank
<1>8. InOrder(devs) \in [1 .. n -> devs]
  BY <1>6, <1>7
<1>9. ASSUME NEW d \in devs PROVE \E i \in 1 .. n : InOrder(devs)[i] = d
  <2> DEFINE i == rank[d] + 1
  <2>1. i \in 1 .. n /\ i - 1 = rank[d]
    BY <1>1, <1>2
  <2>2. InOrder(devs)[i] = d
    BY <1>3, <1>7, <2>1
  <2>3. QED
    BY <2>1, <2>2
<1>10. QED
  BY <1>1, <1>8, <1>9

LEMMA ElectedIsCandidate ==
    ASSUME NEW candidates, IsFiniteSet(candidates), candidates # {}, candidates \subseteq Nat \X Nat,
           NEW sw, Cardinality(candidates) > 1 => ecmp[sw] \in Nat
    PROVE  ElectedIn(candidates, sw) \in candidates
<1> DEFINE n == Cardinality(candidates)
<1>1. n \in Nat /\ n # 0
  BY FS_CardinalityType, FS_EmptySet
<1>2. CASE n = 1
  BY <1>2 DEF ElectedIn
<1>3. CASE n > 1
  <2>1. 1 + (ecmp[sw] % n) \in 1 .. n
    BY <1>1, <1>3
  <2>2. InOrder(candidates)[1 + (ecmp[sw] % n)] \in candidates
    BY <2>1, InOrderFacts
  <2>3. QED
    BY <1>3, <2>2 DEF ElectedIn
<1>4. QED
  BY <1>1, <1>2, <1>3

-----------------------------------------------------------------------------
(* The flood of joins.                                                     *)

Network == Topology[net]

Packet == [req : Nat, psn : Nat, size : Nat, imm : Nat, notif : {TRUE}]
Work   == [req : Nat, sr : SendRequest, bytes_sent : Nat, sent_fragments : Nat,
           fragment_as_immediate : {TRUE}]

RouteTypes ==
    /\ net \in DOMAIN Topology
    /\ flow \in Flows(Network.servers)
    /\ ecmp \in [{v \in Switches(Network) : HasChoice(v)} -> Hashes]
    /\ calls \in Seq(devices) /\ m_groups \subseteq devices
    /\ m_ogroups \in [Switches(Network) -> SUBSET devices]

\* The devices that have joined, or will.
Joining == m_groups \union Range(calls)

\* A switch knows the devices whose peers have joined.  Members join, other
\* servers do not, and who has joined lets all other devices of the peer join.
GroupInv ==
    /\ \A v \in Switches(Network), d \in devices :
           d \in m_ogroups[v] <=> d[1] = v /\ Peer(d) \in m_groups
    /\ \A d \in Joining : d[1] \in Network.servers => d[1] \in flow.members
    /\ \A d \in devices : d[1] \in flow.members => d \in Joining
    /\ \A d \in m_groups, e \in devices :
           d[2] \in Switches(Network) /\ e[1] = d[2] /\ e # Peer(d) => e \in Joining

LEMMA NetworkIs ==
    ASSUME RouteTypes
    PROVE  /\ IsNetwork(Network) /\ IsLayered(Network) /\ devices = Network.devices
           /\ Network.servers \subseteq Receivers
  BY NetworksAssumption, FlowAssumption DEF RouteTypes, IsNetwork, Network, devices

LEMMA RangeOfInOrder ==
    ASSUME NEW devs, IsFiniteSet(devs), devs \subseteq Nat \X Nat
    PROVE  InOrder(devs) \in Seq(devs) /\ Range(InOrder(devs)) = devs
<1> DEFINE s == InOrder(devs)
<1>1. /\ s \in Seq(devs) /\ Len(s) = Cardinality(devs)
      /\ \A d \in devs : \E i \in 1 .. Cardinality(devs) : s[i] = d
  BY InOrderFacts
<1> HIDE DEF s
<1>2. DOMAIN s = 1 .. Cardinality(devs) /\ \A i \in DOMAIN s : s[i] \in devs
  BY <1>1
<1>3. Range(s) = devs
  BY <1>1, <1>2 DEF Range
<1>4. QED
  BY <1>1, <1>3 DEF s

LEMMA RangeConcat ==
    ASSUME NEW S, NEW s \in Seq(S), NEW t \in Seq(S)
    PROVE  Range(s \o t) = Range(s) \union Range(t)
<1>1. /\ DOMAIN (s \o t) = 1 .. Len(s) + Len(t) /\ DOMAIN s = 1 .. Len(s) /\ DOMAIN t = 1 .. Len(t)
      /\ Len(s) \in Nat /\ Len(t) \in Nat
      /\ \A i \in 1 .. Len(s) + Len(t) :
             (s \o t)[i] = IF i <= Len(s) THEN s[i] ELSE t[i - Len(s)]
  OBVIOUS
<1>2. ASSUME NEW i \in DOMAIN s PROVE i \in DOMAIN (s \o t) /\ (s \o t)[i] = s[i]
  BY <1>1
<1>3. ASSUME NEW i \in DOMAIN t
      PROVE  i + Len(s) \in DOMAIN (s \o t) /\ (s \o t)[i + Len(s)] = t[i]
  BY <1>1
<1>4. ASSUME NEW i \in DOMAIN (s \o t)
      PROVE  \/ i \in DOMAIN s /\ (s \o t)[i] = s[i]
             \/ i - Len(s) \in DOMAIN t /\ (s \o t)[i] = t[i - Len(s)]
  BY <1>1
<1>5. \A x \in Range(s \o t) : x \in Range(s) \/ x \in Range(t)
  BY <1>4 DEF Range
<1>6. \A x \in Range(s) : x \in Range(s \o t)
  BY <1>2, Zenon DEF Range
<1>7. \A x \in Range(t) : x \in Range(s \o t)
  BY <1>3, Zenon DEF Range
<1>8. QED
  BY <1>5, <1>6, <1>7

LEMMA RangeHead ==
    ASSUME NEW S, NEW s \in Seq(S), s # << >>
    PROVE  Range(s) = {Head(s)} \union Range(Tail(s))
<1>1. /\ DOMAIN s = 1 .. Len(s) /\ DOMAIN Tail(s) = 1 .. Len(s) - 1 /\ Len(s) \in Nat \ {0}
      /\ Head(s) = s[1] /\ \A i \in 1 .. Len(s) - 1 : Tail(s)[i] = s[i + 1]
  OBVIOUS
<1>2. \A i \in DOMAIN s : i = 1 \/ (i - 1 \in DOMAIN Tail(s) /\ Tail(s)[i - 1] = s[i])
  BY <1>1
<1>3. \A i \in DOMAIN Tail(s) : i + 1 \in DOMAIN s /\ Tail(s)[i] = s[i + 1]
  BY <1>1
<1>4. 1 \in DOMAIN s
  BY <1>1
<1>5. \A x \in Range(s) : x = Head(s) \/ x \in Range(Tail(s))
  <2>1. SUFFICES ASSUME NEW i \in DOMAIN s, i # 1 PROVE s[i] \in Range(Tail(s))
    BY <1>1 DEF Range
  <2>2. i - 1 \in DOMAIN Tail(s) /\ Tail(s)[i - 1] = s[i]
    BY <1>2, <2>1
  <2>3. QED
    BY <2>2, Zenon DEF Range
<1>6. \A x \in Range(Tail(s)) : x \in Range(s)
  BY <1>3, Zenon DEF Range
<1>7. Head(s) \in Range(s)
  BY <1>1, <1>4, Zenon DEF Range
<1>8. QED
  BY <1>5, <1>6, <1>7

LEMMA GroupInit ==
    ASSUME Init
    PROVE  RouteTypes /\ GroupInv
<1> DEFINE nics == {d \in devices : d[1] \in flow.members}
<1>1. /\ net \in DOMAIN Topology /\ flow \in Flows(Network.servers)
      /\ ecmp \in [{v \in Switches(Network) : HasChoice(v)} -> Hashes]
      /\ calls = InOrder(nics) /\ m_groups = {}
      /\ m_ogroups = [v \in Switches(Network) |-> {}]
  BY DEF Init, RouteInit, BuildGroups, Network
<1>2. devices \subseteq Nat \X Nat /\ IsFiniteSet(devices)
  BY <1>1, NetworksAssumption DEF devices
<1>3. nics \in SUBSET devices /\ IsFiniteSet(nics) /\ nics \subseteq Nat \X Nat
  <2>1. nics \in SUBSET devices
    OBVIOUS
  <2>2. QED
    BY <1>2, <2>1, FS_Subset
<1> HIDE DEF nics
<1>4. calls \in Seq(nics) /\ Range(calls) = nics
  BY <1>1, <1>3, RangeOfInOrder
<1>5. calls \in Seq(devices)
  BY <1>3, <1>4
<1>6. RouteTypes
  BY <1>1, <1>5 DEF RouteTypes
<1>7. Joining = nics
  BY <1>1, <1>4 DEF Joining
<1>8. GroupInv
  BY <1>1, <1>7 DEF GroupInv, nics
<1>9. QED
  BY <1>6, <1>8

\* Once the network is built, the routes stay.
LEMMA RoutesStay ==
    ASSUME UNCHANGED <<net, ecmp, flow>>
    PROVE  /\ devices' = devices /\ Network' = Network
           /\ (net \in DOMAIN Topology)' <=> net \in DOMAIN Topology
           /\ (flow \in Flows(Network.servers))' <=> flow \in Flows(Network.servers)
           /\ (ecmp \in [{v \in Switches(Network) : HasChoice(v)} -> Hashes])'
                  <=> ecmp \in [{v \in Switches(Network) : HasChoice(v)} -> Hashes]
BY DEF devices, Network, HasChoice, Devices, m_uplink, m_rtTable

LEMMA BuildKeepsGroups ==
    ASSUME RouteTypes, GroupInv, Build
    PROVE  RouteTypes' /\ GroupInv'
<1> DEFINE dev == Head(calls)
           peer == Peer(dev)
           learns == dev \notin m_groups /\ IsSwitchNode(peer[1])
           told == IF learns THEN ToNotify(peer[1], peer) ELSE {}
           more == IF learns THEN InOrder(ToNotify(peer[1], peer)) ELSE << >>
           sws == Switches(Network)
<1>1. /\ calls # << >> /\ m_groups' = m_groups \union {dev}
      /\ m_ogroups' = IF learns THEN [m_ogroups EXCEPT ![peer[1]] = @ \union {peer}] ELSE m_ogroups
      /\ calls' = more \o Tail(calls)
      /\ UNCHANGED <<net, ecmp, flow>>
  BY DEF Build, AddGroup, route_vars
<1>2. devices' = devices /\ Network' = Network
  BY <1>1, RoutesStay
<1>3. /\ calls \in Seq(devices) /\ m_groups \subseteq devices
      /\ m_ogroups \in [sws -> SUBSET devices]
      /\ IsNetwork(Network) /\ devices = Network.devices
  BY NetworkIs DEF RouteTypes
<1>4. /\ dev \in devices /\ Tail(calls) \in Seq(devices)
      /\ Range(calls) = {dev} \union Range(Tail(calls))
  <2>1. dev \in devices /\ Tail(calls) \in Seq(devices)
    BY <1>1, <1>3
  <2>2. Range(calls) = {Head(calls)} \union Range(Tail(calls))
    BY <1>1, <1>3, RangeHead
  <2>3. QED
    BY <2>1, <2>2
<1>5. /\ peer \in devices /\ peer[1] = dev[2] /\ peer[2] = dev[1] /\ Peer(peer) = dev
      /\ dev[2] \in Nodes(Network)
      /\ IsSwitchNode(peer[1]) <=> dev[2] \in sws
  <2>1. peer[1] = dev[2] /\ peer[2] = dev[1]
    BY DEF Peer
  <2>2. peer \in devices /\ Peer(peer) = dev /\ dev[2] \in Nodes(Network)
    BY <1>3, <1>4, NodesAreFinite
  <2>3. QED
    BY <2>1, <2>2 DEF IsSwitchNode, Switches, Network
<1>6. more \in Seq(devices) /\ Range(more) = told
  <2>1. CASE learns
    <3> DEFINE devs == ToNotify(peer[1], peer)
    <3>1. devs \in SUBSET devices
      BY DEF ToNotify, Devices
    <3>2. IsFiniteSet(devs) /\ devs \subseteq Nat \X Nat
      BY <1>3, <3>1, FS_Subset DEF IsNetwork
    <3> HIDE DEF devs
    <3>3. InOrder(devs) \in Seq(devs) /\ Range(InOrder(devs)) = devs
      BY <3>2, RangeOfInOrder
    <3>4. InOrder(devs) \in Seq(devices)
      BY <3>1, <3>3
    <3>5. QED
      BY <2>1, <3>3, <3>4 DEF devs
  <2>2. CASE ~learns
    <3>1. << >> \in Seq(devices) /\ Range(<< >>) = {}
      BY DEF Range
    <3>2. QED
      BY <2>2, <3>1
  <2>3. QED
    BY <2>1, <2>2
<1>7. told = {d \in devices : learns /\ d[1] = dev[2] /\ d # peer}
  BY <1>5 DEF ToNotify, Devices
<1> HIDE DEF dev, peer, more, told
<1>8. calls' \in Seq(devices) /\ Range(calls') = told \union Range(Tail(calls))
  <2>1. more \o Tail(calls) \in Seq(devices)
    BY <1>4, <1>6
  <2>2. Range(more \o Tail(calls)) = told \union Range(Tail(calls))
    <3> DEFINE rest == Tail(calls)
    <3>1. more \in Seq(devices) /\ rest \in Seq(devices)
      BY <1>4, <1>6
    <3> HIDE DEF rest
    <3>2. Range(more \o rest) = Range(more) \union Range(rest)
      BY <3>1, RangeConcat
    <3>3. QED
      BY <1>6, <3>2 DEF rest
  <2>3. QED
    BY <1>1, <2>1, <2>2
<1>9. Joining' = Joining \union told
  BY <1>1, <1>4, <1>8 DEF Joining
<1>10. m_ogroups' \in [sws -> SUBSET devices]
  BY <1>1, <1>3, <1>5
<1>11. m_groups' \subseteq devices
  BY <1>1, <1>3, <1>4
<1>12. RouteTypes'
  BY <1>1, <1>2, <1>8, <1>10, <1>11, RoutesStay DEF RouteTypes
<1>13. ASSUME NEW v \in sws, NEW d \in devices
       PROVE  d \in m_ogroups'[v] <=> d[1] = v /\ Peer(d) \in m_groups'
  <2>1. d \in m_ogroups[v] <=> d[1] = v /\ Peer(d) \in m_groups
    BY DEF GroupInv
  <2>2. Peer(d) = dev <=> d = peer
    BY <1>3, <1>4, <1>5, NodesAreFinite
  <2>3. d \in m_ogroups'[v] <=> d \in m_ogroups[v] \/ (learns /\ v = peer[1] /\ d = peer)
    BY <1>1, <1>3, <1>5
  <2>4. QED
    BY <1>1, <1>5, <2>1, <2>2, <2>3
<1>14. ASSUME NEW d \in Joining', d[1] \in Network.servers PROVE d[1] \in flow.members
  <2>1. d \in Joining
    BY <1>5, <1>7, <1>9, <1>14 DEF Switches
  <2>2. QED
    BY <1>14, <2>1 DEF GroupInv
<1>15. ASSUME NEW d \in m_groups', NEW e \in devices,
              d[2] \in sws, e[1] = d[2], e # Peer(d)
       PROVE  e \in Joining'
  <2>1. CASE d \in m_groups
    BY <1>9, <1>15, <2>1 DEF GroupInv
  <2>2. CASE d = dev /\ d \notin m_groups
    BY <1>5, <1>7, <1>9, <1>15, <2>2 DEF peer
  <2>3. QED
    BY <1>1, <1>15, <2>1, <2>2
<1>16. \A d \in devices : d[1] \in flow.members => d \in Joining'
  BY <1>9 DEF GroupInv
<1>17. GroupInv'
  BY <1>1, <1>2, <1>13, <1>14, <1>15, <1>16 DEF GroupInv
<1>18. QED
  BY <1>12, <1>17

-----------------------------------------------------------------------------
(* The tree of a flow.                                                     *)

\* Every network is a fat tree with a route to each server.
FatTrees ==
    \A n \in DOMAIN Topology :
        /\ HasRoutes(Topology[n])
        /\ \E below \in [Nodes(Topology[n]) -> SUBSET Nodes(Topology[n])] :
               IsFatTree(Topology[n], below)

\* The NIC of the source, where a packet that came in on a device goes, and
\* the devices that packets of the flow can go through.
Nic == CHOOSE d \in devices : d[1] = flow.src
Outs ==
    [e \in devices |->
        IF ~IsSwitchNode(e[2]) THEN {}
        ELSE IF flow.multicast THEN OutDevs(Peer(e)) ELSE GetOutDev(e[2], flow.dip)]
Tree == TreeOf(devices, Nic, Outs)

LEMMA FlowFacts ==
    ASSUME RouteTypes
    PROVE  /\ flow.src \in Network.servers /\ flow.multicast \in BOOLEAN
           /\ flow.members \subseteq Network.servers /\ flow.dip \in Network.servers
           /\ ~flow.multicast => flow.dip # flow.src
           /\ Network.servers \subseteq Nodes(Network)
           /\ Destinations \subseteq Network.servers
           /\ flow.src \notin Destinations
<1>1. flow \in Flows(Network.servers)
  BY DEF RouteTypes
<1>2. /\ flow.src \in Network.servers /\ flow.multicast \in BOOLEAN
      /\ flow.members \subseteq Network.servers /\ flow.dip \in Network.servers
      /\ ~flow.multicast => flow.dip # flow.src
  BY <1>1 DEF Flows
<1>3. Network.servers \subseteq Nodes(Network)
  BY NetworkIs, LevelFacts
<1>4. QED
  BY <1>2, <1>3 DEF Destinations

LEMMA Ends ==
    ASSUME RouteTypes
    PROVE  /\ devices = Network.devices /\ IsFiniteSet(devices) /\ devices \subseteq Nat \X Nat
           /\ \A d \in devices : /\ d[1] \in Nodes(Network) /\ d[2] \in Nodes(Network) /\ d[1] # d[2]
                                 /\ Peer(d) \in devices /\ Peer(Peer(d)) = d
                                 /\ Peer(d)[1] = d[2] /\ Peer(d)[2] = d[1]
                                 /\ d = <<d[1], d[2]>>
           /\ \A v \in Nodes(Network) : IsSwitchNode(v) <=> v \in Switches(Network)
           /\ \A v \in Nodes(Network) : v \notin Switches(Network) <=> v \in Network.servers
<1>1. devices = Network.devices /\ IsNetwork(Network) /\ IsLayered(Network)
  BY NetworkIs
<1>2. \A d \in devices : d[1] # d[2]
  BY <1>1 DEF IsLayered
<1>3. QED
  BY <1>1, <1>2, NodesAreFinite DEF IsNetwork, IsSwitchNode, Switches, Network, Peer

LEMMA NicFacts ==
    ASSUME RouteTypes
    PROVE  /\ Nic \in devices /\ Nic[1] = flow.src /\ Nic[2] \notin Network.servers
           /\ \A d \in devices : d[1] = flow.src => d = Nic
<1> DEFINE S == {d \in devices : d[1] = flow.src}
<1>1. IsNetwork(Network) /\ IsLayered(Network) /\ devices = Network.devices
  BY NetworkIs
<1>2. Cardinality(S) = 1 /\ IsFiniteSet(S)
  <2>1. IsFiniteSet(devices)
    BY Ends
  <2>2. QED
    BY <1>1, <2>1, FlowFacts, FS_Subset DEF IsNetwork
<1>3. PICK x : S = {x}
  BY <1>2, FS_Singleton
<1>4. x \in devices /\ x[1] = flow.src
  BY <1>3
<1>5. \A d \in devices : d[1] = flow.src => d = x
  BY <1>3
<1>6. Nic = x
  BY <1>4, <1>5 DEF Nic
<1>7. x[2] \notin Network.servers
  <2>1. Level(Network)[x[1]] # Level(Network)[x[2]]
    BY <1>1, <1>4 DEF IsLayered, Level
  <2>2. \A s \in Network.servers : Level(Network)[s] = 0
    BY <1>1, LevelFacts
  <2>3. QED
    BY <1>4, <2>1, <2>2, FlowFacts
<1>8. QED
  BY <1>4, <1>5, <1>6, <1>7

\* An election between uplinks of a switch, or between next hops, elects one.
LEMMA ElectionElects ==
    ASSUME RouteTypes, NEW sw \in Switches(Network), NEW C \in SUBSET devices, C # {},
           \/ C \subseteq Devices(sw) \intersect m_uplink
           \/ \E host \in Network.servers : C = m_rtTable[host][sw]
    PROVE  ElectedIn(C, sw) \in C
<1>1. IsFiniteSet(C) /\ C \subseteq Nat \X Nat /\ IsFiniteSet(devices)
  BY Ends, FS_Subset
<1>2. Cardinality(C) > 1 => HasChoice(sw)
  <2>1. CASE C \subseteq Devices(sw) \intersect m_uplink
    <3> DEFINE U == Devices(sw) \intersect m_uplink
    <3>1. IsFiniteSet(U)
      BY <1>1, FS_Subset DEF Devices
    <3>2. /\ Cardinality(C) <= Cardinality(U)
          /\ Cardinality(C) \in Nat /\ Cardinality(U) \in Nat
      BY <1>1, <2>1, <3>1, FS_Subset, FS_CardinalityType
    <3>3. QED
      BY <3>2 DEF HasChoice
  <2>2. CASE \E host \in Network.servers : C = m_rtTable[host][sw]
    BY <2>2 DEF HasChoice, Network
  <2>3. QED
    BY <2>1, <2>2
<1>3. Cardinality(C) > 1 => ecmp[sw] \in Nat
  BY <1>2, NetworksAssumption DEF RouteTypes
<1>4. QED
  BY <1>1, <1>3, ElectedIsCandidate

LEMMA NextHops ==
    ASSUME RouteTypes, NEW host \in Network.servers, NEW sw \in Switches(Network)
    PROVE  /\ m_rtTable[host][sw] = BuildRoute(Network, host)[sw]
           /\ m_rtTable[host][sw] \subseteq devices
           /\ \A d \in m_rtTable[host][sw] : d[1] = sw
<1>1. m_rtTable[host] = BuildRoute(Network, host)
  BY DEF m_rtTable, RoutingTables, Network, RouteTypes
<1>2. QED
  BY <1>1 DEF BuildRoute, devices, Network

LEMMA OutsFacts ==
    ASSUME RouteTypes, GroupInv
    PROVE  /\ Outs \in [devices -> SUBSET devices]
           /\ \A e \in devices : \A d \in Outs[e] : d[1] = e[2] /\ d[1] \in Switches(Network)
<1>1. ASSUME NEW e \in devices, NEW d \in Outs[e]
      PROVE  d \in devices /\ d[1] = e[2] /\ e[2] \in Switches(Network)
  <2>1. e[2] \in Switches(Network)
    BY <1>1, Ends DEF Outs
  <2>2. CASE flow.multicast
    <3>1. d \in m_ogroups[e[2]]
      BY <1>1, <2>1, <2>2, Ends DEF Outs, OutDevs
    <3>2. d \in devices
      BY <2>1, <3>1 DEF RouteTypes
    <3>3. QED
      BY <2>1, <3>1, <3>2 DEF GroupInv
  <2>3. CASE ~flow.multicast
    <3> DEFINE nexthops == m_rtTable[flow.dip][e[2]]
    <3>1. nexthops # {} /\ d = ElectedIn(nexthops, e[2])
      BY <1>1, <2>1, <2>3, Ends DEF Outs, GetOutDev
    <3>2. nexthops \subseteq devices /\ \A x \in nexthops : x[1] = e[2]
      BY <2>1, FlowFacts, NextHops
    <3>3. d \in nexthops
      BY <2>1, <3>1, <3>2, FlowFacts, ElectionElects
    <3>4. QED
      BY <2>1, <3>2, <3>3
  <2>4. QED
    BY <2>2, <2>3
<1>2. QED
  BY <1>1 DEF Outs

\* A multicast flow floods: its packets take the uplinks that are elected.
ElectedUp == [v \in Switches(Network) |-> ElectedIn(m_ogroups[v] \intersect m_uplink, v)]

LEMMA MulticastFloods ==
    ASSUME RouteTypes, GroupInv, flow.multicast,
           NEW below \in [Nodes(Network) -> SUBSET Nodes(Network)], IsFatTree(Network, below)
    PROVE  Floods(Network, below, Nic, Outs, ElectedUp)
<1>1. /\ IsNetwork(Network) /\ IsLayered(Network) /\ devices = Network.devices
      /\ m_uplink = Rebuild(Network)
  BY NetworkIs DEF m_uplink, Uplinks, Network, RouteTypes
<1>2. ASSUME NEW e \in devices, NEW d \in Outs[e]
      PROVE  /\ d[1] = e[2] /\ d[1] \notin Network.servers /\ d # Peer(e)
             /\ d \in Rebuild(Network) => Peer(e) \notin Rebuild(Network) /\ d = ElectedUp[d[1]]
  <2>1. d[1] = e[2] /\ d[1] \in Switches(Network)
    BY <1>2, OutsFacts
  <2>2. d \in OutDevs(Peer(e))
    BY <1>2, <2>1, Ends DEF Outs
  <2>3. Peer(e)[1] = e[2]
    BY Ends
  <2>4. d # Peer(e)
    BY <2>2 DEF OutDevs
  <2>5. d \in m_uplink =>
            Peer(e) \notin m_uplink /\ d = ElectedIn(m_ogroups[e[2]] \intersect m_uplink, e[2])
    BY <2>2, <2>3 DEF OutDevs
  <2>6. QED
    BY <1>1, <2>1, <2>4, <2>5 DEF ElectedUp, Switches
<1>3. QED
  BY <1>1, <1>2, NicFacts, OutsFacts, FlowFacts DEF Floods

LEMMA UnicastHops ==
    ASSUME RouteTypes, GroupInv, ~flow.multicast
    PROVE  Hops(Network, flow.dip, Nic, Outs)
<1>1. IsNetwork(Network) /\ devices = Network.devices
  BY NetworkIs
<1>2. ASSUME NEW e \in devices, NEW d \in Outs[e]
      PROVE  /\ e[2] \in Switches(Network)
             /\ d \in BuildRoute(Network, flow.dip)[e[2]]
             /\ Outs[e] = {d}
  <2> DEFINE nexthops == m_rtTable[flow.dip][e[2]]
  <2>1. e[2] \in Switches(Network)
    BY <1>2, OutsFacts
  <2>2. d \in GetOutDev(e[2], flow.dip) /\ Outs[e] = GetOutDev(e[2], flow.dip)
    BY <1>2, <2>1, Ends DEF Outs
  <2>3. nexthops # {} /\ d = ElectedIn(nexthops, e[2]) /\ Outs[e] = {d}
    BY <2>2 DEF GetOutDev
  <2>4. nexthops \subseteq devices /\ nexthops = BuildRoute(Network, flow.dip)[e[2]]
    BY <2>1, FlowFacts, NextHops
  <2>5. d \in nexthops
    BY <2>1, <2>3, <2>4, FlowFacts, ElectionElects
  <2>6. QED
    BY <2>1, <2>3, <2>4, <2>5
<1>3. QED
  BY <1>1, <1>2, NicFacts, OutsFacts, FlowFacts DEF Hops

\* The packets of a flow take a tree: one device leads into each node, and the
\* servers at its ends are the destinations.
LEMMA FlowIsTree ==
    ASSUME FatTrees, RouteTypes, GroupInv
    PROVE  /\ Tree \subseteq devices /\ Nic \in Tree
           /\ \A e \in Tree : Outs[e] \subseteq Tree
           /\ \A d \in Tree : d # Nic => \E e \in Tree : d \in Outs[e] /\ e[2] = d[1]
           /\ \A d, e \in Tree : d[2] = e[2] => d = e
           /\ \A d \in Tree : d[2] \in Network.servers => d[2] \in Destinations
<1>1. devices = Network.devices
  BY Ends
<1>2. /\ Tree \subseteq devices /\ Nic \in Tree
      /\ \A e \in Tree : Outs[e] \subseteq Tree
      /\ \A d \in Tree : d = Nic \/ \E e \in Tree : d \in Outs[e]
  BY NicFacts, OutsFacts, TreeFacts DEF Tree
<1>3. \A d \in Tree : d # Nic => \E e \in Tree : d \in Outs[e] /\ e[2] = d[1]
  BY <1>2, OutsFacts
<1>4. \A d, e \in Tree : d[2] = e[2] => d = e
  <2>1. CASE flow.multicast
    <3>1. PICK below \in [Nodes(Network) -> SUBSET Nodes(Network)] : IsFatTree(Network, below)
      BY DEF FatTrees, RouteTypes, Network
    <3>2. Floods(Network, below, Nic, Outs, ElectedUp)
      BY <2>1, <3>1, MulticastFloods
    <3>3. Tree = FloodTree(Network, Nic, Outs)
      BY <1>1 DEF Tree, FloodTree
    <3>4. QED
      BY <3>2, <3>3, FloodIsTree
  <2>2. CASE ~flow.multicast
    <3>1. Hops(Network, flow.dip, Nic, Outs)
      BY <2>2, UnicastHops
    <3>2. Tree = TreeOf(Network.devices, Nic, Outs)
      BY <1>1 DEF Tree
    <3>3. QED
      BY <3>1, <3>2, PathIsTree
  <2>3. QED
    BY <2>1, <2>2
<1>5. ASSUME NEW d \in Tree, d[2] \in Network.servers PROVE d[2] \in Destinations
  <2>1. d # Nic /\ d \in devices
    BY <1>2, <1>5, NicFacts
  <2>2. PICK e \in Tree : d \in Outs[e] /\ e[2] = d[1]
    BY <1>3, <2>1
  <2>3. e \in devices /\ d[1] \in Switches(Network)
    BY <1>2, <2>2, OutsFacts
  <2>4. CASE flow.multicast
    <3>1. d \in m_ogroups[d[1]] /\ d # Peer(e)
      BY <2>2, <2>3, <2>4, Ends DEF Outs, OutDevs
    <3>2. Peer(d) \in m_groups /\ Peer(d)[1] = d[2]
      BY <2>1, <2>3, <3>1, Ends DEF GroupInv
    <3>3. d[2] \in flow.members
      BY <1>5, <3>2 DEF GroupInv, Joining
    <3>4. d[2] # flow.src
      <4>1. SUFFICES ASSUME d[2] = flow.src PROVE FALSE
        OBVIOUS
      <4>2. Peer(d) = Nic
        BY <2>1, <3>2, <4>1, Ends, NicFacts
      <4>3. d = Peer(Nic) /\ Nic[2] = d[1]
        BY <2>1, <4>2, Ends
      <4>4. e = Nic
        BY <1>2, <1>4, <2>2, <4>3
      <4>5. QED
        BY <3>1, <4>3, <4>4
    <3>5. QED
      BY <2>4, <3>3, <3>4 DEF Destinations
  <2>5. CASE ~flow.multicast
    <3>1. d[2] \in Switches(Network) \/ d[2] = flow.dip
      BY <1>1, <2>2, <2>3, <2>5, UnicastHops, HopFacts
    <3>2. QED
      BY <1>5, <2>5, <3>1 DEF Destinations, Switches
  <2>6. QED
    BY <2>4, <2>5
<1>6. QED
  BY <1>2, <1>3, <1>4, <1>5

-----------------------------------------------------------------------------
(* Every destination is at an end of the tree.                             *)

\* The network is built and the flow is multicast.
Settled(below) ==
    /\ RouteTypes /\ GroupInv /\ calls = << >> /\ flow.multicast
    /\ below \in [Nodes(Network) -> SUBSET Nodes(Network)] /\ IsFatTree(Network, below)

LEMMA SettledFacts ==
    ASSUME NEW below, Settled(below), NEW m \in flow.members
    PROVE  /\ m \in Network.servers /\ m \in Nodes(Network)
           /\ \A v \in Nodes(Network) :
                  /\ Level(Network)[v] \in 0 .. Cardinality(Nodes(Network)) + 1
                  /\ Level(Network)[v] = 0 <=> v \in Network.servers
                  /\ v \in Network.servers => below[v] = {v}
                  /\ m \in below[v] /\ v # m =>
                         \E g \in Downlinks(Network) : g[1] = v /\ m \in below[g[2]]
                  /\ v \in Switches(Network) /\ m \notin below[v] =>
                         \E u \in Rebuild(Network) : u[1] = v
           /\ Cardinality(Nodes(Network)) \in Nat
           /\ \A d \in Downlinks(Network) :
                  /\ d \in devices /\ d[1] \in Switches(Network)
                  /\ Level(Network)[d[1]] = Level(Network)[d[2]] + 1
                  /\ m \in below[d[2]] => m \in below[d[1]]
           /\ \A d \in Rebuild(Network) :
                  /\ d \in devices /\ d[1] \in Switches(Network) /\ d[2] \in Switches(Network)
                  /\ Level(Network)[d[2]] = Level(Network)[d[1]] + 1
                  /\ Peer(d) \in Downlinks(Network)
           /\ \A d \in devices : d[1] = m => d \in m_groups
           /\ \A d \in m_groups : d \in devices
           /\ \A d \in m_groups, e \in devices :
                  d[2] \in Switches(Network) /\ e[1] = d[2] /\ e # Peer(d) => e \in m_groups
<1> DEFINE level == Level(Network)
           down == Downlinks(Network)
           up == Rebuild(Network)
<1>1. /\ RouteTypes /\ GroupInv /\ calls = << >> /\ flow.multicast
      /\ below \in [Nodes(Network) -> SUBSET Nodes(Network)] /\ IsFatTree(Network, below)
      /\ IsNetwork(Network) /\ IsLayered(Network) /\ devices = Network.devices
  BY NetworkIs DEF Settled
<1>2. m \in Network.servers /\ m \in Nodes(Network)
  BY <1>1, FlowFacts
<1>3. /\ Cardinality(Nodes(Network)) \in Nat
      /\ \A v \in Nodes(Network) : /\ level[v] \in 0 .. Cardinality(Nodes(Network)) + 1
                                   /\ level[v] = 0 <=> v \in Network.servers
      /\ up = {d \in devices : d[1] \notin Network.servers /\ level[d[2]] = level[d[1]] + 1}
      /\ down = {d \in devices : d[1] \notin Network.servers /\ level[d[1]] = level[d[2]] + 1}
  BY <1>1, LevelFacts, NodesAreFinite
<1> HIDE DEF level, down, up
<1>4. \A d \in devices : /\ d[1] \in Nodes(Network) /\ d[2] \in Nodes(Network)
                         /\ Peer(d) \in devices /\ Peer(d)[1] = d[2] /\ Peer(d)[2] = d[1]
  BY <1>1, Ends
<1>5. \A d \in down : /\ d \in devices /\ d[1] \in Switches(Network)
                      /\ level[d[1]] = level[d[2]] + 1
  BY <1>3, <1>4 DEF Switches
<1>6. ASSUME NEW d \in up
      PROVE  /\ d \in devices /\ d[1] \in Switches(Network) /\ d[2] \in Switches(Network)
             /\ level[d[2]] = level[d[1]] + 1
             /\ Peer(d) \in down
  <2>1. d \in devices /\ d[1] \in Switches(Network) /\ level[d[2]] = level[d[1]] + 1
    BY <1>3, <1>4 DEF Switches
  <2>2. d[2] \notin Network.servers
    BY <1>3, <1>4, <2>1
  <2>3. Peer(d) \in down
    BY <1>3, <1>4, <2>1, <2>2
  <2>4. QED
    BY <1>4, <2>1, <2>2, <2>3 DEF Switches
<1>7. /\ \A v, w \in Nodes(Network) :
             w \in below[v] <=> w = v \/ \E d \in down : d[1] = v /\ w \in below[d[2]]
      /\ \A v \in Switches(Network) : (\A d \in up : d[1] # v) => Network.servers \subseteq below[v]
  BY <1>1 DEF IsFatTree, down, up
<1>8. ASSUME NEW v \in Nodes(Network)
      PROVE  /\ v \in Network.servers => below[v] = {v}
             /\ m \in below[v] /\ v # m => \E g \in down : g[1] = v /\ m \in below[g[2]]
             /\ v \in Switches(Network) /\ m \notin below[v] => \E u \in up : u[1] = v
  <2>1. v \in Network.servers => below[v] = {v}
    <3>1. below[v] \subseteq Nodes(Network)
      BY <1>1
    <3>2. v \in Network.servers => \A d \in down : d[1] # v
      BY <1>5 DEF Switches
    <3>3. QED
      BY <1>7, <3>1, <3>2
  <2>2. QED
    BY <1>2, <1>7, <2>1
<1>9. \A d \in down : m \in below[d[2]] => m \in below[d[1]]
  BY <1>2, <1>4, <1>5, <1>7
<1>10. Joining = m_groups
  <2>1. Range(<< >>) = {}
    BY DEF Range
  <2>2. QED
    BY <1>1, <2>1 DEF Joining
<1>11. /\ \A d \in devices : d[1] = m => d \in m_groups
       /\ \A d \in m_groups, e \in devices :
              d[2] \in Switches(Network) /\ e[1] = d[2] /\ e # Peer(d) => e \in m_groups
  BY <1>1, <1>10 DEF GroupInv
<1>12. \A d \in m_groups : d \in devices
  BY <1>1 DEF RouteTypes
<1>13. QED
  BY <1>2, <1>3, <1>5, <1>6, <1>8, <1>9, <1>11, <1>12 DEF level, down, up

\* The devices above a member have joined.
LEMMA JoinedAbove ==
    ASSUME NEW below, Settled(below), NEW m \in flow.members,
           NEW d \in Downlinks(Network), m \in below[d[2]]
    PROVE  Peer(d) \in m_groups
<1> DEFINE level == Level(Network)
           down == Downlinks(Network)
           Bad == {level[x[2]] : x \in {y \in down : m \in below[y[2]] /\ Peer(y) \notin m_groups}}
<1>1. \A x \in down : /\ x \in devices /\ level[x[2]] \in Nat /\ level[x[1]] = level[x[2]] + 1
                      /\ x[2] \in Nodes(Network) /\ level[Peer(x)[1]] = level[x[2]]
                      /\ Peer(x) \in devices /\ Peer(x)[1] = x[2] /\ Peer(x)[2] = x[1]
                      /\ x[1] \in Switches(Network) /\ Peer(Peer(x)) = x
  BY SettledFacts, Ends DEF Settled
<1>2. SUFFICES ASSUME Peer(d) \notin m_groups PROVE FALSE
  OBVIOUS
<1>3. Bad # {} /\ Bad \in SUBSET Nat
  BY <1>1, <1>2
<1>4. PICK n \in Bad : \A k \in Bad : n <= k
  <2> HIDE DEF Bad
  <2>1. QED
    BY <1>3, LeastNatural
<1>5. PICK x \in down : m \in below[x[2]] /\ Peer(x) \notin m_groups /\ n = level[x[2]]
  BY <1>4
<1>6. x[2] # m
  BY <1>1, <1>5, SettledFacts
<1>7. PICK g \in down : g[1] = x[2] /\ m \in below[g[2]]
  BY <1>1, <1>5, <1>6, SettledFacts
<1>8. Peer(g) \in m_groups
  <2>1. SUFFICES ASSUME Peer(g) \notin m_groups PROVE FALSE
    OBVIOUS
  <2>2. level[g[2]] \in Bad /\ level[g[2]] \in Nat /\ n \in Nat /\ n = level[g[2]] + 1
    BY <1>1, <1>5, <1>7, <2>1
  <2> HIDE DEF Bad
  <2>3. n <= level[g[2]]
    BY <1>4, <2>2
  <2>4. QED
    BY <2>2, <2>3
<1>9. Peer(x) # g
  <2>1. level[g[1]] = level[g[2]] + 1 /\ level[g[2]] \in Nat
    BY <1>1
  <2>2. level[Peer(x)[2]] = level[Peer(x)[1]] + 1 /\ level[Peer(x)[1]] \in Nat
    BY <1>1
  <2>3. QED
    BY <2>1, <2>2
<1>10. Peer(x) \in m_groups
  <2>1. Peer(g)[2] = g[1] /\ g[1] \in Switches(Network) /\ Peer(Peer(g)) = g
    BY <1>1
  <2>2. Peer(x) \in devices /\ Peer(x)[1] = Peer(g)[2]
    BY <1>1, <1>7, <2>1
  <2>3. QED
    BY <1>8, <1>9, <2>1, <2>2, SettledFacts
<1>11. QED
  BY <1>5, <1>10

\* A switch with a member elsewhere has heard of it from each of its uplinks.
LEMMA JoinedElsewhere ==
    ASSUME NEW below, Settled(below), NEW m \in flow.members,
           NEW u \in Rebuild(Network), m \notin below[u[1]]
    PROVE  Peer(u) \in m_groups
<1> DEFINE level == Level(Network)
           down == Downlinks(Network)
           up == Rebuild(Network)
           top == Cardinality(Nodes(Network)) + 1
           Bad == {top - level[x[2]] : x \in {y \in up : m \notin below[y[1]] /\ Peer(y) \notin m_groups}}
<1>1. \A x \in up : /\ x \in devices /\ x[2] \in Nodes(Network) /\ Peer(x) \in down
                    /\ level[x[2]] = level[x[1]] + 1 /\ level[x[1]] \in Nat
                    /\ level[x[2]] \in Nat /\ top - level[x[2]] \in Nat
                    /\ Peer(x) \in devices /\ Peer(x)[1] = x[2] /\ Peer(x)[2] = x[1]
                    /\ x[2] \in Switches(Network) /\ Peer(Peer(x)) = x
  <2>1. /\ \A x \in up : /\ x \in devices /\ Peer(x) \in down /\ level[x[2]] = level[x[1]] + 1
                         /\ x[2] \in Switches(Network)
        /\ \A v \in Nodes(Network) : level[v] \in 0 .. top
        /\ top \in Nat
    BY SettledFacts
  <2>2. RouteTypes
    BY DEF Settled
  <2> HIDE DEF level, top
  <2>3. QED
    BY <2>1, <2>2, Ends
<1>2. SUFFICES ASSUME Peer(u) \notin m_groups PROVE FALSE
  OBVIOUS
<1>3. Bad # {} /\ Bad \in SUBSET Nat
  BY <1>1, <1>2
<1>4. PICK n \in Bad : \A k \in Bad : n <= k
  <2> HIDE DEF Bad
  <2>1. QED
    BY <1>3, LeastNatural
<1>5. PICK x \in up : m \notin below[x[1]] /\ Peer(x) \notin m_groups /\ n = top - level[x[2]]
  BY <1>4
<1>6. ASSUME NEW y \in m_groups, y[2] = x[2], y # x PROVE FALSE
  <2>1. Peer(x) # Peer(y)
    <3>1. RouteTypes /\ y \in devices
      BY SettledFacts DEF Settled
    <3>2. Peer(Peer(y)) = y /\ Peer(Peer(x)) = x
      BY <1>1, <3>1, Ends
    <3>3. QED
      BY <1>6, <3>2
  <2>2. Peer(x) \in devices /\ Peer(x)[1] = y[2] /\ y[2] \in Switches(Network)
    BY <1>1, <1>6
  <2>3. Peer(x) \in m_groups
    BY <1>6, <2>1, <2>2, SettledFacts
  <2>4. QED
    BY <1>5, <2>3
<1>7. CASE m \in below[x[2]]
  <2>1. x[2] # m
    BY <1>1, <1>7, SettledFacts DEF Switches
  <2>2. PICK g \in down : g[1] = x[2] /\ m \in below[g[2]]
    BY <1>1, <1>7, <2>1, SettledFacts
  <2>3. Peer(g) \in m_groups /\ Peer(g)[2] = x[2]
    BY <2>2, JoinedAbove DEF Peer
  <2>4. Peer(g)[1] = g[2]
    BY DEF Peer
  <2>5. QED
    BY <1>5, <1>6, <2>2, <2>3, <2>4
<1>8. CASE m \notin below[x[2]]
  <2>1. PICK w \in up : w[1] = x[2]
    BY <1>1, <1>8, SettledFacts
  <2>2. Peer(w) \in m_groups
    <3>1. SUFFICES ASSUME Peer(w) \notin m_groups PROVE FALSE
      OBVIOUS
    <3>2. /\ top - level[w[2]] \in Bad /\ top - level[w[2]] \in Nat
          /\ n \in Nat /\ level[w[2]] = level[x[2]] + 1 /\ level[x[2]] \in Nat /\ top \in Nat
      BY <1>1, <1>5, <1>8, <2>1, <3>1, SettledFacts
    <3> HIDE DEF Bad, top, level
    <3>3. n <= top - level[w[2]]
      BY <1>4, <3>2
    <3>4. QED
      BY <1>5, <3>2, <3>3
  <2>3. Peer(w)[2] = x[2]
    BY <1>1, <2>1
  <2>4. Peer(w) # x
    <3>1. level[Peer(w)[1]] = level[w[2]] /\ level[w[2]] = level[w[1]] + 1
      BY <1>1
    <3>2. level[x[2]] = level[x[1]] + 1 /\ level[x[1]] \in Nat /\ level[w[1]] = level[x[2]]
      BY <1>1, <2>1
    <3>3. QED
      BY <3>1, <3>2
  <2>5. QED
    BY <1>6, <2>2, <2>3, <2>4
<1>9. QED
  BY <1>7, <1>8

\* What a switch sends on: packets that climb, and packets that go down.
LEMMA SentOn ==
    ASSUME NEW below, Settled(below), NEW e \in devices, e[2] \in Switches(Network)
    PROVE  /\ \A u \in Rebuild(Network) :
                  /\ u[1] = e[2] /\ Peer(u) \in m_groups /\ Peer(e) \in Downlinks(Network)
                  /\ u = ElectedUp[e[2]]
                  => u \in Outs[e]
           /\ \A g \in Downlinks(Network) :
                  g[1] = e[2] /\ Peer(g) \in m_groups /\ g # Peer(e) => g \in Outs[e]
<1>1. /\ RouteTypes /\ GroupInv /\ flow.multicast
      /\ m_uplink = Rebuild(Network) /\ devices = Network.devices
  BY NetworkIs DEF Settled, m_uplink, Uplinks, Network, RouteTypes
<1>2. Outs[e] = OutDevs(Peer(e)) /\ Peer(e)[1] = e[2]
  BY <1>1, Ends DEF Outs
<1>3. Outs[e] = {d \in m_ogroups[e[2]] \ {Peer(e)} :
                    d \in m_uplink => Peer(e) \notin m_uplink /\ d = ElectedUp[e[2]]}
  BY <1>2 DEF OutDevs, ElectedUp
<1>4. \A d \in devices : d[1] = e[2] /\ Peer(d) \in m_groups => d \in m_ogroups[e[2]]
  BY <1>1 DEF GroupInv
<1>5. /\ \A g \in Downlinks(Network) : g \in devices /\ g \notin m_uplink
      /\ \A u \in Rebuild(Network) : u \in devices
  BY <1>1 DEF Downlinks, Rebuild
<1>6. QED
  BY <1>1, <1>3, <1>4, <1>5

\* The packets climb to a switch that has the member below it.
LEMMA ClimbReaches ==
    ASSUME NEW below, Settled(below), NEW m \in flow.members
    PROVE  \E r \in Climb(Network, Nic, Outs) : m \in below[r[2]]
<1> DEFINE C == Climb(Network, Nic, Outs)
           level == Level(Network)
           top == Cardinality(Nodes(Network)) + 1
           Bad == {top - level[x[2]] : x \in C}
<1>1. /\ RouteTypes /\ GroupInv /\ flow.multicast /\ devices = Network.devices
      /\ Floods(Network, below, Nic, Outs, ElectedUp) /\ m_uplink = Rebuild(Network)
  BY MulticastFloods, NetworkIs DEF Settled, m_uplink, Uplinks, Network, RouteTypes
<1>2. /\ C \subseteq FloodTree(Network, Nic, Outs) /\ FloodTree(Network, Nic, Outs) \subseteq devices
      /\ \A x \in FloodTree(Network, Nic, Outs) : Outs[x] \subseteq FloodTree(Network, Nic, Outs)
      /\ \A x \in FloodTree(Network, Nic, Outs) : x \in Rebuild(Network) => x \in C
      /\ Nic \in C
  BY <1>1, FloodFacts DEF Climb
<1>3. \A x \in C : /\ Peer(x) \in Downlinks(Network) /\ Peer(x)[1] = x[2] /\ x[2] \in Nodes(Network)
                   /\ x[2] \in Switches(Network) /\ x \in devices
  <2>1. \A x \in C : Peer(x) \in Downlinks(Network) /\ x \in devices
    BY <1>1, <1>2, ClimbFacts
  <2>2. QED
    BY <1>1, <2>1, Ends, SettledFacts
<1>4. /\ \A v \in Nodes(Network) : level[v] \in Nat /\ top - level[v] \in Nat
      /\ top \in Nat
  <2>1. \A v \in Nodes(Network) : level[v] \in 0 .. top
    BY SettledFacts
  <2>2. top \in Nat
    BY SettledFacts
  <2> HIDE DEF level, top
  <2>3. QED
    BY <2>1, <2>2
<1> HIDE DEF C
<1>5. Bad # {} /\ Bad \in SUBSET Nat
  BY <1>2, <1>3, <1>4
<1>6. PICK n \in Bad : \A k \in Bad : n <= k
  <2> HIDE DEF Bad
  <2>1. QED
    BY <1>5, LeastNatural
<1>7. PICK r \in C : n = top - level[r[2]]
  BY <1>6
<1>8. SUFFICES ASSUME m \notin below[r[2]] PROVE FALSE
  BY DEF C
<1> DEFINE cands == m_ogroups[r[2]] \intersect m_uplink
           u == ElectedUp[r[2]]
<1>9. cands # {} /\ cands \in SUBSET devices /\ cands \subseteq Devices(r[2]) \intersect m_uplink
      /\ \A d \in cands : d[1] = r[2] /\ Peer(d) \in m_groups /\ d \in Rebuild(Network)
  <2>1. PICK w \in Rebuild(Network) : w[1] = r[2]
    BY <1>3, <1>8, SettledFacts
  <2>2. Peer(w) \in m_groups /\ w \in devices
    BY <1>8, <2>1, JoinedElsewhere, SettledFacts
  <2>3. w \in cands
    BY <1>1, <1>3, <2>1, <2>2 DEF GroupInv
  <2>4. cands \subseteq devices
    BY <1>1, <1>3 DEF RouteTypes
  <2>5. \A d \in cands : d[1] = r[2] /\ Peer(d) \in m_groups /\ d \in Rebuild(Network)
    BY <1>1, <1>3, <2>4 DEF GroupInv
  <2>6. QED
    BY <2>3, <2>4, <2>5 DEF Devices
<1>10. u \in cands
  <2>1. ElectedIn(cands, r[2]) \in cands
    BY <1>1, <1>3, <1>9, ElectionElects
  <2>2. QED
    BY <1>3, <2>1 DEF ElectedUp
<1>11. u \in Outs[r]
  BY <1>3, <1>9, <1>10, SentOn
<1>12. u \in C
  BY <1>2, <1>9, <1>10, <1>11
<1>13. level[u[2]] = level[r[2]] + 1 /\ u[2] \in Nodes(Network)
  BY <1>3, <1>9, <1>10, <1>12, SettledFacts
<1>14. top - level[u[2]] \in Bad
  BY <1>12
<1> HIDE DEF Bad, top, level
<1>15. n <= top - level[u[2]]
  BY <1>6, <1>14
<1>16. QED
  BY <1>3, <1>4, <1>7, <1>13, <1>15

\* From the first switch of the climb that has the member below it, a packet
\* goes down towards the member.
LEMMA DescentStarts ==
    ASSUME NEW below, Settled(below), NEW m \in flow.members, m # flow.src
    PROVE  \E g \in Tree : g \in Downlinks(Network) /\ m \in below[g[2]]
<1> DEFINE C == Climb(Network, Nic, Outs)
           level == Level(Network)
           Bad == {level[x[2]] : x \in {y \in C : m \in below[y[2]]}}
<1>1. /\ RouteTypes /\ GroupInv /\ flow.multicast /\ devices = Network.devices
      /\ Floods(Network, below, Nic, Outs, ElectedUp)
  BY MulticastFloods, NetworkIs DEF Settled
<1>2. /\ C \subseteq Tree /\ Tree \subseteq devices
      /\ \A x \in Tree : Outs[x] \subseteq Tree
  <2>1. Tree = FloodTree(Network, Nic, Outs)
    BY <1>1 DEF Tree, FloodTree
  <2>2. QED
    BY <1>1, <2>1, FloodFacts DEF Climb
<1>3. \A x \in C : /\ x \in devices /\ x[2] \in Switches(Network) /\ x[2] \in Nodes(Network)
                   /\ x[1] \in Nodes(Network)
                   /\ Peer(x)[2] = x[1] /\ level[x[2]] \in Nat
                   /\ level[x[2]] = level[x[1]] + 1 /\ level[x[1]] \in Nat
                   /\ x # Nic => \E q \in C : q[2] = x[1]
  <2>1. \A x \in C : /\ Peer(x) \in Downlinks(Network) /\ x \in devices
                     /\ level[x[2]] = level[x[1]] + 1
                     /\ x # Nic => \E q \in C : q[2] = x[1]
    BY <1>1, <1>2, ClimbFacts
  <2>2. \A v \in Nodes(Network) : level[v] \in Nat
    <3>1. /\ \A v \in Nodes(Network) : level[v] \in 0 .. Cardinality(Nodes(Network)) + 1
          /\ Cardinality(Nodes(Network)) \in Nat
      BY SettledFacts
    <3>2. QED
      BY <3>1
  <2> HIDE DEF C, level
  <2>3. QED
    BY <1>1, <2>1, <2>2, Ends, SettledFacts
<1>4. \E r \in C : m \in below[r[2]]
  BY ClimbReaches
<1>5. Nic[1] = flow.src /\ flow.src \in Network.servers /\ flow.src \in Nodes(Network)
  BY <1>1, NicFacts, FlowFacts
<1>6. m \notin below[flow.src]
  BY <1>5, SettledFacts
<1> HIDE DEF C, level
<1>7. Bad # {} /\ Bad \in SUBSET Nat
  BY <1>3, <1>4
<1>8. PICK n \in Bad : \A k \in Bad : n <= k
  <2> HIDE DEF Bad
  <2>1. QED
    BY <1>7, LeastNatural
<1>9. PICK r \in C : m \in below[r[2]] /\ n = level[r[2]]
  BY <1>8
<1>10. r[2] # m
  BY <1>3, <1>9, SettledFacts DEF Switches
<1>11. PICK g \in Downlinks(Network) : g[1] = r[2] /\ m \in below[g[2]]
  BY <1>3, <1>9, <1>10, SettledFacts
<1>12. g # Peer(r)
  <2>1. SUFFICES ASSUME g = Peer(r) PROVE FALSE
    OBVIOUS
  <2>2. m \in below[r[1]]
    BY <1>3, <1>11, <2>1
  <2>3. r # Nic
    BY <1>5, <1>6, <2>2
  <2>4. PICK q \in C : q[2] = r[1]
    BY <1>3, <2>3
  <2>5. level[q[2]] \in Bad /\ level[q[2]] \in Nat /\ n = level[q[2]] + 1
    BY <1>3, <1>9, <2>2, <2>4
  <2> HIDE DEF Bad
  <2>6. n <= level[q[2]]
    BY <1>8, <2>5
  <2>7. QED
    BY <2>5, <2>6
<1>13. g \in Outs[r]
  BY <1>3, <1>11, <1>12, JoinedAbove, SentOn
<1>14. g \in Tree
  BY <1>2, <1>13
<1>15. QED
  BY <1>11, <1>14

LEMMA MulticastReaches ==
    ASSUME NEW below, Settled(below), NEW m \in flow.members, m # flow.src
    PROVE  \E d \in Tree : d[2] = m
<1> DEFINE level == Level(Network)
           S == {x \in Tree : x \in Downlinks(Network) /\ m \in below[x[2]]}
           Bad == {level[x[2]] : x \in S}
<1>1. /\ RouteTypes /\ GroupInv /\ flow.multicast /\ devices = Network.devices
  BY NetworkIs DEF Settled
<1>2. Tree \subseteq devices /\ \A x \in Tree : Outs[x] \subseteq Tree
  BY <1>1, NicFacts, OutsFacts, TreeFacts DEF Tree
<1>3. \A x \in Downlinks(Network) :
          /\ x \in devices /\ x[2] \in Nodes(Network) /\ level[x[2]] \in Nat
          /\ level[x[1]] = level[x[2]] + 1
          /\ Peer(x) \in devices /\ Peer(x)[1] = x[2] /\ Peer(x)[2] = x[1]
  <2>1. /\ \A v \in Nodes(Network) : level[v] \in 0 .. Cardinality(Nodes(Network)) + 1
        /\ Cardinality(Nodes(Network)) \in Nat
        /\ \A x \in Downlinks(Network) : x \in devices /\ level[x[1]] = level[x[2]] + 1
    BY SettledFacts
  <2>2. \A v \in Nodes(Network) : level[v] \in Nat
    BY <2>1
  <2> HIDE DEF level
  <2>3. QED
    BY <1>1, <2>1, <2>2, Ends
<1>4. S # {}
  BY DescentStarts
<1>5. Bad # {} /\ Bad \in SUBSET Nat
  BY <1>3, <1>4
<1>6. PICK n \in Bad : \A k \in Bad : n <= k
  <2> HIDE DEF Bad
  <2>1. QED
    BY <1>5, LeastNatural
<1>7. PICK d \in S : n = level[d[2]]
  BY <1>6
<1>8. SUFFICES ASSUME d[2] # m PROVE FALSE
  BY <1>7
<1>9. PICK g \in Downlinks(Network) : g[1] = d[2] /\ m \in below[g[2]]
  BY <1>3, <1>7, <1>8, SettledFacts
<1>10. d[2] \in Switches(Network) /\ d \in devices
  BY <1>3, <1>9, SettledFacts
<1>11. g # Peer(d)
  <2>1. level[g[1]] = level[g[2]] + 1 /\ level[g[2]] \in Nat
    BY <1>3
  <2>2. level[Peer(d)[2]] = level[Peer(d)[1]] + 1 /\ level[Peer(d)[1]] \in Nat
    BY <1>3, <1>7
  <2>3. QED
    BY <2>1, <2>2
<1>12. g \in Outs[d]
  BY <1>9, <1>10, <1>11, JoinedAbove, SentOn
<1>13. g \in S
  BY <1>2, <1>7, <1>9, <1>12
<1>14. level[g[2]] \in Bad /\ level[g[2]] \in Nat /\ n = level[g[2]] + 1
  BY <1>3, <1>7, <1>9, <1>13
<1> HIDE DEF Bad
<1>15. n <= level[g[2]]
  BY <1>6, <1>14
<1>16. QED
  BY <1>14, <1>15

LEMMA UnicastReaches ==
    ASSUME RouteTypes, GroupInv, ~flow.multicast, HasRoutes(Network)
    PROVE  \E d \in Tree : d[2] = flow.dip
<1> DEFINE away == Away(Network, flow.dip)
           Bad == {away[x[2]] : x \in Tree}
<1>1. Hops(Network, flow.dip, Nic, Outs) /\ devices = Network.devices
  BY UnicastHops, NetworkIs
<1>2. /\ Tree \subseteq devices /\ Nic \in Tree
      /\ \A x \in Tree : Outs[x] \subseteq Tree
      /\ \A x \in Tree : x = Nic \/ \E p \in Tree : x \in Outs[p]
  BY NicFacts, OutsFacts, TreeFacts DEF Tree
<1>3. /\ \A x \in devices : away[x[2]] \in Nat
      /\ \A p \in devices : \A x \in Outs[p] : /\ x[2] \in Switches(Network) \/ x[2] = flow.dip
                                               /\ away[p[2]] = away[x[2]] + 1
  <2>1. /\ \A x \in devices : away[x[2]] \in 0 .. Cardinality(Nodes(Network)) + 1
        /\ Cardinality(Nodes(Network)) \in Nat
    BY <1>1, HopFacts
  <2>2. QED
    BY <1>1, <2>1, HopFacts
<1>4. Bad # {} /\ Bad \in SUBSET Nat
  BY <1>2, <1>3
<1>5. PICK n \in Bad : \A k \in Bad : n <= k
  <2> HIDE DEF Bad
  <2>1. QED
    BY <1>4, LeastNatural
<1>6. PICK d \in Tree : n = away[d[2]]
  BY <1>5
<1>7. SUFFICES ASSUME d[2] # flow.dip PROVE FALSE
  BY <1>6
<1>8. d[2] \in Switches(Network)
  <2>1. Nic[2] \in Switches(Network)
    BY NicFacts, Ends
  <2>2. QED
    BY <1>2, <1>3, <1>7, <2>1
<1> DEFINE nexthops == m_rtTable[flow.dip][d[2]]
           e == ElectedIn(nexthops, d[2])
<1>9. nexthops # {} /\ nexthops \subseteq devices
  BY <1>8, FlowFacts, NextHops DEF HasRoutes
<1>10. e \in Outs[d]
  <2>1. Outs[d] = GetOutDev(d[2], flow.dip)
    BY <1>2, <1>8, Ends DEF Outs
  <2>2. QED
    BY <1>9, <2>1 DEF GetOutDev
<1>11. away[e[2]] \in Bad /\ away[e[2]] \in Nat /\ n = away[e[2]] + 1
  BY <1>2, <1>3, <1>6, <1>10
<1> HIDE DEF Bad, e
<1>12. n <= away[e[2]]
  BY <1>5, <1>11
<1>13. QED
  BY <1>11, <1>12

LEMMA TreeReaches ==
    ASSUME FatTrees, RouteTypes, GroupInv, calls = << >>, NEW m \in Destinations
    PROVE  \E d \in Tree : d[2] = m
<1>1. /\ HasRoutes(Network)
      /\ \E below \in [Nodes(Network) -> SUBSET Nodes(Network)] : IsFatTree(Network, below)
  BY DEF FatTrees, RouteTypes, Network
<1>2. PICK below \in [Nodes(Network) -> SUBSET Nodes(Network)] : IsFatTree(Network, below)
  BY <1>1
<1>3. CASE flow.multicast
  BY <1>2, <1>3, MulticastReaches DEF Destinations, Settled
<1>4. CASE ~flow.multicast
  BY <1>1, <1>4, UnicastReaches DEF Destinations
<1>5. QED
  BY <1>3, <1>4

-----------------------------------------------------------------------------
(* Sequences of psns.                                                      *)

LEMMA PsnsFacts ==
    ASSUME NEW S, \A x \in S : x.psn \in Nat, NEW s \in Seq(S)
    PROVE  /\ Psns(s) \in Seq(Nat) /\ Len(Psns(s)) = Len(s) /\ DOMAIN Psns(s) = DOMAIN s
           /\ \A i \in DOMAIN s : Psns(s)[i] = s[i].psn
           /\ \A i \in 1 .. Len(s) : Psns(s)[i] = s[i].psn
           /\ Psns(s) = << >> <=> s = << >>
           /\ Range(Psns(s)) = {x.psn : x \in Range(s)}
<1>1. /\ DOMAIN s = 1 .. Len(s) /\ Len(s) \in Nat /\ \A i \in 1 .. Len(s) : s[i] \in S
      /\ Psns(s) = [i \in 1 .. Len(s) |-> s[i].psn]
  BY DEF Psns
<1>2. Psns(s) \in Seq(Nat) /\ Len(Psns(s)) = Len(s)
  BY <1>1
<1>3. Range(Psns(s)) = {x.psn : x \in Range(s)}
  BY <1>1 DEF Range
<1>4. QED
  BY <1>1, <1>2, <1>3

LEMMA PsnsAppend ==
    ASSUME NEW S, \A x \in S : x.psn \in Nat, NEW s \in Seq(S), NEW x \in S
    PROVE  Psns(Append(s, x)) = Append(Psns(s), x.psn)
<1> DEFINE w == Append(s, x)
           a == Psns(w)
           c == Psns(s)
           b == Append(c, x.psn)
<1>1. /\ w \in Seq(S) /\ Len(w) = Len(s) + 1 /\ Len(s) \in Nat
      /\ \A i \in 1 .. Len(s) : w[i] = s[i]
      /\ w[Len(s) + 1] = x
  OBVIOUS
<1> HIDE DEF w
<1>2. /\ a \in Seq(Nat) /\ Len(a) = Len(s) + 1 /\ \A i \in 1 .. Len(s) + 1 : a[i] = w[i].psn
      /\ c \in Seq(Nat) /\ Len(c) = Len(s) /\ \A i \in 1 .. Len(s) : c[i] = s[i].psn
      /\ x.psn \in Nat
  BY <1>1, PsnsFacts
<1> HIDE DEF a, c
<1>3. /\ b \in Seq(Nat) /\ Len(b) = Len(s) + 1
      /\ \A i \in 1 .. Len(s) : b[i] = s[i].psn
      /\ b[Len(s) + 1] = x.psn
  BY <1>1, <1>2
<1> HIDE DEF b
<1>4. ASSUME NEW i \in 1 .. Len(s) + 1 PROVE a[i] = b[i]
  <2>1. CASE i \in 1 .. Len(s)
    BY <1>1, <1>2, <1>3, <2>1
  <2>2. CASE i = Len(s) + 1
    BY <1>1, <1>2, <1>3, <2>2
  <2>3. QED
    BY <1>1, <2>1, <2>2
<1>5. a = b
  <2>1. a \in Seq(Nat) /\ b \in Seq(Nat) /\ Len(a) = Len(b) /\ \A i \in 1 .. Len(a) : a[i] = b[i]
    BY <1>1, <1>2, <1>3, <1>4
  <2>2. QED
    BY <2>1, SeqEqual
<1>6. QED
  BY <1>5 DEF a, b, c, w

LEMMA MoveOne ==
    ASSUME NEW S, NEW a \in Seq(S), NEW x \in S, NEW b \in Seq(S), NEW c \in Seq(S),
           Len(c) = Len(b) + 1, c[1] = x, \A i \in 1 .. Len(b) : c[i + 1] = b[i]
    PROVE  Append(a, x) \o b = a \o c
<1>1. /\ Len(Append(a, x) \o b) = Len(a) + 1 + Len(b) /\ Len(a \o c) = Len(a) + Len(c)
      /\ Append(a, x) \o b \in Seq(S) /\ a \o c \in Seq(S)
      /\ Len(a) \in Nat /\ Len(b) \in Nat
  OBVIOUS
<1>2. ASSUME NEW i \in 1 .. Len(a) + Len(c) PROVE (Append(a, x) \o b)[i] = (a \o c)[i]
  <2>1. CASE i <= Len(a)
    BY <1>1, <2>1
  <2>2. CASE i = Len(a) + 1
    BY <1>1, <2>2
  <2>3. CASE i > Len(a) + 1
    <3>1. i - Len(a) - 1 \in 1 .. Len(b) /\ (i - Len(a) - 1) + 1 = i - Len(a)
      BY <1>1, <2>3
    <3>2. (Append(a, x) \o b)[i] = b[i - Len(a) - 1] /\ (a \o c)[i] = c[i - Len(a)]
      BY <1>1, <2>3
    <3>3. QED
      BY <3>1, <3>2
  <2>4. QED
    BY <1>1, <2>1, <2>2, <2>3
<1> DEFINE l == Append(a, x) \o b
           r == a \o c
<1>3. l \in Seq(S) /\ r \in Seq(S) /\ Len(l) = Len(r) /\ Len(l) = Len(a) + Len(c) /\ Len(l) \in Nat
  BY <1>1
<1>4. \A i \in 1 .. Len(l) : l[i] = r[i]
  BY <1>2, <1>3
<1> HIDE DEF l, r
<1>5. l = r
  BY <1>3, <1>4, SeqEqual
<1>6. QED
  BY <1>5 DEF l, r

\* The head of a queue comes out: the log of its device stays.
LEMMA LogMoves ==
    ASSUME NEW S, \A x \in S : x.psn \in Nat, NEW a \in Seq(Nat), NEW q \in Seq(S), q # << >>
    PROVE  Append(a, Head(q).psn) \o Psns(Tail(q)) = a \o Psns(q)
<1> DEFINE t == Tail(q)
           x == Head(q)
           pt == Psns(t)
           pq == Psns(q)
<1>1. /\ t \in Seq(S) /\ x \in S /\ Len(t) = Len(q) - 1 /\ Len(q) \in Nat \ {0} /\ x = q[1]
      /\ \A i \in 1 .. Len(q) - 1 : t[i] = q[i + 1]
  OBVIOUS
<1> HIDE DEF t, x
<1>2. /\ pt \in Seq(Nat) /\ Len(pt) = Len(t) /\ \A i \in 1 .. Len(t) : pt[i] = t[i].psn
      /\ pq \in Seq(Nat) /\ Len(pq) = Len(q) /\ \A i \in 1 .. Len(q) : pq[i] = q[i].psn
      /\ x.psn \in Nat
  BY <1>1, PsnsFacts
<1> HIDE DEF pt, pq
<1>3. Len(pq) = Len(pt) + 1 /\ pq[1] = x.psn /\ \A i \in 1 .. Len(pt) : pq[i + 1] = pt[i]
  <2>1. Len(pq) = Len(pt) + 1 /\ Len(pt) = Len(q) - 1 /\ pq[1] = x.psn /\ 1 \in 1 .. Len(q)
    BY <1>1, <1>2
  <2>2. ASSUME NEW i \in 1 .. Len(pt) PROVE pq[i + 1] = pt[i]
    <3>1. i \in 1 .. Len(q) - 1 /\ i + 1 \in 1 .. Len(q) /\ i \in 1 .. Len(t)
      BY <1>1, <2>1
    <3>2. pq[i + 1] = q[i + 1].psn /\ t[i] = q[i + 1] /\ pt[i] = t[i].psn
      BY <1>1, <1>2, <3>1
    <3>3. QED
      BY <3>2
  <2>3. QED
    BY <2>1, <2>2
<1>4. Append(a, x.psn) \o pt = a \o pq
  BY <1>2, <1>3, MoveOne
<1>5. QED
  BY <1>4 DEF pt, pq, t, x

\* A packet enters a queue: the log of its device gets its psn.
LEMMA LogGrows ==
    ASSUME NEW S, \A x \in S : x.psn \in Nat, NEW a \in Seq(Nat), NEW q \in Seq(S), NEW x \in S
    PROVE  a \o Psns(Append(q, x)) = Append(a \o Psns(q), x.psn)
<1>1. Psns(Append(q, x)) = Append(Psns(q), x.psn)
  BY PsnsAppend
<1>2. Psns(q) \in Seq(Nat) /\ x.psn \in Nat
  BY PsnsFacts
<1> DEFINE b == Psns(q)
<1> HIDE DEF b
<1>3. \A y \in Nat : b \in Seq(Nat) => a \o Append(b, y) = Append(a \o b, y)
  OBVIOUS
<1>4. QED
  BY <1>1, <1>2, <1>3 DEF b

LEMMA RangeAppend ==
    ASSUME NEW S, NEW s \in Seq(S), NEW x \in S
    PROVE  Range(Append(s, x)) = Range(s) \union {x}
<1>1. /\ DOMAIN Append(s, x) = 1 .. Len(s) + 1 /\ DOMAIN s = 1 .. Len(s) /\ Len(s) \in Nat
      /\ \A i \in 1 .. Len(s) : Append(s, x)[i] = s[i]
      /\ Append(s, x)[Len(s) + 1] = x
  OBVIOUS
<1>2. \A i \in DOMAIN s : i \in DOMAIN Append(s, x) /\ Append(s, x)[i] = s[i]
  BY <1>1
<1>3. \A i \in DOMAIN Append(s, x) : i \in DOMAIN s \/ Append(s, x)[i] = x
  BY <1>1
<1>4. Len(s) + 1 \in DOMAIN Append(s, x)
  BY <1>1
<1>5. \A y \in Range(s) : y \in Range(Append(s, x))
  BY <1>2, Zenon DEF Range
<1>6. x \in Range(Append(s, x))
  BY <1>1, <1>4, Zenon DEF Range
<1>7. \A y \in Range(Append(s, x)) : y \in Range(s) \/ y = x
  BY <1>2, <1>3, Zenon DEF Range
<1>8. QED
  BY <1>5, <1>6, <1>7

LEMMA IncreasingAppend ==
    ASSUME NEW s \in Seq(Nat), IsIncreasing(s), NEW x \in Nat, \A y \in Range(s) : y < x
    PROVE  IsIncreasing(Append(s, x))
<1>1. /\ DOMAIN Append(s, x) = 1 .. Len(s) + 1 /\ DOMAIN s = 1 .. Len(s) /\ Len(s) \in Nat
      /\ \A i \in 1 .. Len(s) : Append(s, x)[i] = s[i]
      /\ Append(s, x)[Len(s) + 1] = x
  OBVIOUS
<1>2. \A i \in 1 .. Len(s) : s[i] < x
  BY <1>1 DEF Range
<1>3. \A i, j \in 1 .. Len(s) : i < j => s[i] < s[j]
  BY <1>1 DEF IsIncreasing
<1>4. \A i, j \in 1 .. Len(s) + 1 : i < j => Append(s, x)[i] < Append(s, x)[j]
  BY <1>1, <1>2, <1>3
<1>5. QED
  BY <1>1, <1>4 DEF IsIncreasing

LEMMA IncreasingPrefix ==
    ASSUME NEW a \in Seq(Nat), NEW b \in Seq(Nat), IsIncreasing(a \o b)
    PROVE  IsIncreasing(a)
<1>1. /\ DOMAIN a = 1 .. Len(a) /\ DOMAIN (a \o b) = 1 .. Len(a) + Len(b)
      /\ Len(a) \in Nat /\ Len(b) \in Nat
      /\ \A i \in 1 .. Len(a) : (a \o b)[i] = a[i]
  OBVIOUS
<1>2. \A i \in DOMAIN a : i \in DOMAIN (a \o b)
  BY <1>1
<1>3. QED
  BY <1>1, <1>2 DEF IsIncreasing

LEMMA IncreasingLast ==
    ASSUME NEW s \in Seq(Nat), NEW x \in Nat, IsIncreasing(Append(s, x))
    PROVE  \A y \in Range(s) : y < x
<1>1. /\ DOMAIN Append(s, x) = 1 .. Len(s) + 1 /\ DOMAIN s = 1 .. Len(s) /\ Len(s) \in Nat
      /\ \A i \in 1 .. Len(s) : Append(s, x)[i] = s[i]
      /\ Append(s, x)[Len(s) + 1] = x
  OBVIOUS
<1>2. \A i \in 1 .. Len(s) : s[i] < x
  BY <1>1 DEF IsIncreasing
<1>3. QED
  BY <1>1, <1>2 DEF Range

-----------------------------------------------------------------------------
(* The inductive invariant of a flow.                                      *)

Notification == [psn : Nat, imm : Nat]

FlowTypes ==
    /\ posted \in Seq(SendRequest) /\ m_to_send \in Seq(Work) /\ m_snd_nxt \in Nat
    /\ queue \in [devices -> Seq(Packet)] /\ transmitted \in Seq(Packet)
    /\ passed \in [Switches(Network) -> Seq(Nat)]
    /\ notified \in [Receivers -> Seq(Notification)]
    /\ dropped \in Nat

\* What has come to a device, what has gone through it, and what has entered it.
InPsns(d)  == IF IsSwitchNode(d[1]) THEN passed[d[1]] ELSE Psns(transmitted)
OutPsns(d) == IF IsSwitchNode(d[2]) THEN passed[d[2]] ELSE Psns(notified[d[2]])
Log(d)     == OutPsns(d) \o Psns(queue[d])

\* Nothing is sent while the network is built.
BuildFirst ==
    calls # << >> =>
        /\ m_to_send = << >> /\ transmitted = << >>
        /\ \A d \in devices : queue[d] = << >>
        /\ \A v \in Switches(Network) : passed[v] = << >>
        /\ \A s \in Receivers : notified[s] = << >>

\* Packets are on the tree only.
OnTree ==
    /\ \A d \in devices : queue[d] # << >> => d \in Tree
    /\ \A v \in Switches(Network) : passed[v] # << >> => \E d \in Tree : d[2] = v
    /\ \A s \in Receivers :
           notified[s] # << >> => \E d \in Tree : d[2] = s /\ s \in Network.servers

PsnsGrow ==
    /\ IsIncreasing(Psns(transmitted))
    /\ \A x \in Range(Psns(transmitted)) : x < m_snd_nxt

\* On the tree, no device changes the order, and each has only what has come to it.
LogsInOrder ==
    \A d \in Tree : IsIncreasing(Log(d)) /\ Range(Log(d)) \subseteq Range(InPsns(d))

DataSent ==
    /\ \A d \in devices : Range(queue[d]) \subseteq Range(transmitted)
    /\ \A s \in Receivers : \A n \in Range(notified[s]) :
           \E x \in Range(transmitted) : n.psn = x.psn /\ n.imm = x.imm

NothingLost == dropped = 0 => \A d \in Tree : Log(d) = InPsns(d)

FlowInv == BuildFirst /\ OnTree /\ PsnsGrow /\ LogsInOrder /\ DataSent /\ NothingLost

UdInv == RouteTypes /\ GroupInv /\ FlowTypes /\ FlowInv

\* What does not change once the network is built.
LEMMA TreeStays ==
    ASSUME UNCHANGED <<net, ecmp, flow, calls, m_groups, m_ogroups>>
    PROVE  /\ devices' = devices /\ Network' = Network /\ Nic' = Nic /\ Tree' = Tree
           /\ \A e : Outs[e]' = Outs[e]
           /\ \A v : IsSwitchNode(v)' <=> IsSwitchNode(v)
           /\ RouteTypes' <=> RouteTypes
           /\ GroupInv' <=> GroupInv
<1>1. devices' = devices /\ Network' = Network /\ \A v : IsSwitchNode(v)' <=> IsSwitchNode(v)
  BY DEF devices, Network, IsSwitchNode
<1>2. Nic' = Nic
  BY <1>1 DEF Nic
<1>3. Outs' = Outs
  BY <1>1 DEF Outs, OutDevs, GetOutDev, ElectedIn, InOrder, m_uplink, m_rtTable, devices, IsSwitchNode
<1>4. Tree' = Tree
  BY <1>1, <1>2, <1>3 DEF Tree
<1>5. RouteTypes' <=> RouteTypes
  BY <1>1, RoutesStay DEF RouteTypes
<1>6. GroupInv' <=> GroupInv
  BY <1>1 DEF GroupInv, Joining
<1>7. QED
  BY <1>1, <1>2, <1>3, <1>4, <1>5, <1>6

LEMMA PacketPsn ==
    /\ \A x \in Packet : x.psn \in Nat /\ x.imm \in Nat /\ x.notif = TRUE
    /\ \A x \in Notification : x.psn \in Nat
BY DEF Packet, Notification

\* A packet has the next psn, and is not empty.
LEMMA NextPacketType ==
    ASSUME m_to_send \in Seq(Work), m_to_send # << >>, m_snd_nxt \in Nat, 0 \notin PayloadSizes
    PROVE  /\ NextPacket \in Packet /\ NextPacket.psn = m_snd_nxt
           /\ NextPacket.size \in Nat \ {0}
<1>1. Head(m_to_send) \in Work
  OBVIOUS
<1> DEFINE work == Head(m_to_send)
<1>2. /\ work.req \in Nat /\ work.sr.payload_size \in PayloadSizes /\ work.sent_fragments \in Nat
      /\ work.fragment_as_immediate = TRUE
  BY <1>1 DEF Work, SendRequest
<1>3. work.sr.payload_size \in Nat \ {0} /\ MTU \in Nat \ {0}
  BY <1>2, QpAssumption
<1> HIDE DEF work
<1>4. NextPacket = [req |-> work.req, psn |-> m_snd_nxt,
                    size |-> IF IsCut(work) THEN MTU ELSE work.sr.payload_size,
                    imm |-> work.sent_fragments, notif |-> TRUE]
  BY <1>2 DEF NextPacket, work
<1>5. QED
  BY <1>2, <1>3, <1>4 DEF Packet

LEMMA PostTypes ==
    ASSUME FlowTypes, Post
    PROVE  posted' \in Seq(SendRequest) /\ m_to_send' \in Seq(Work)
<1>1. PICK sr \in SendRequest, flags \in SendFlags : PostSend(sr, flags)
  BY DEF Post
<1>2. posted' = Append(posted, sr) /\ posted \in Seq(SendRequest) /\ m_to_send \in Seq(Work)
  BY <1>1 DEF PostSend, FlowTypes
<1>3. IsFragmentAsImmediate(flags) = TRUE
  BY DEF IsFragmentAsImmediate
<1> DEFINE work == [req |-> Len(posted) + 1, sr |-> sr, bytes_sent |-> 0, sent_fragments |-> 0,
                    fragment_as_immediate |-> TRUE]
<1>4. work \in Work
  BY <1>2 DEF Work
<1>5. m_to_send' = Append(m_to_send, work)
  BY <1>1, <1>3 DEF PostSend
<1>6. QED
  BY <1>2, <1>4, <1>5

LEMMA TransmitTypes ==
    ASSUME FlowTypes, GetNextPacket, 0 \notin PayloadSizes
    PROVE  m_to_send' \in Seq(Work) /\ m_snd_nxt' \in Nat /\ m_snd_nxt < m_snd_nxt'
<1>1. m_to_send \in Seq(Work) /\ m_to_send # << >> /\ m_snd_nxt \in Nat
  BY DEF FlowTypes, GetNextPacket
<1>2. m_snd_nxt' \in Nat /\ m_snd_nxt < m_snd_nxt'
  BY <1>1, NextPacketType DEF GetNextPacket
<1>3. \/ m_to_send' = [m_to_send EXCEPT ![1].bytes_sent = @ + MTU, ![1].sent_fragments = @ + 1]
      \/ m_to_send' = Tail(m_to_send)
  BY DEF GetNextPacket
<1>4. CASE m_to_send' = [m_to_send EXCEPT ![1].bytes_sent = @ + MTU, ![1].sent_fragments = @ + 1]
  <2> DEFINE work == [m_to_send[1] EXCEPT !.bytes_sent = @ + MTU, !.sent_fragments = @ + 1]
  <2>1. m_to_send[1] \in Work /\ 1 \in 1 .. Len(m_to_send)
    BY <1>1
  <2>2. work \in Work
    <3> DEFINE w == m_to_send[1]
    <3>1. /\ w \in [req : Nat, sr : SendRequest, bytes_sent : Nat, sent_fragments : Nat,
                    fragment_as_immediate : {TRUE}]
          /\ MTU \in Nat
      BY <2>1, QpAssumption DEF Work
    <3>2. work = [w EXCEPT !.bytes_sent = @ + MTU, !.sent_fragments = @ + 1]
      OBVIOUS
    <3> HIDE DEF w, work
    <3>3. work = [req |-> w.req, sr |-> w.sr, bytes_sent |-> w.bytes_sent + MTU,
                  sent_fragments |-> w.sent_fragments + 1,
                  fragment_as_immediate |-> w.fragment_as_immediate]
      BY <3>1, <3>2
    <3>4. /\ w.req \in Nat /\ w.sr \in SendRequest /\ w.bytes_sent \in Nat
          /\ w.sent_fragments \in Nat /\ w.fragment_as_immediate \in {TRUE} /\ MTU \in Nat
      BY <3>1
    <3>5. w.bytes_sent + MTU \in Nat /\ w.sent_fragments + 1 \in Nat
      BY <3>4
    <3>6. QED
      BY <3>3, <3>4, <3>5 DEF Work
  <2>3. m_to_send' = [m_to_send EXCEPT ![1] = work]
    BY <1>1, <1>4, <2>1
  <2> HIDE DEF work
  <2>4. m_to_send' \in Seq(Work)
    BY <1>1, <2>1, <2>2, <2>3
  <2>5. QED
    BY <1>2, <2>4
<1>5. CASE m_to_send' = Tail(m_to_send)
  BY <1>1, <1>2, <1>5
<1>6. QED
  BY <1>2, <1>3, <1>4, <1>5

LEMMA EmptyFacts ==
    /\ Psns(<< >>) = << >> /\ << >> \o Psns(<< >>) = << >>
    /\ IsIncreasing(<< >>) /\ Range(<< >>) = {}
<1>1. Psns(<< >>) = << >>
  <2>1. << >> \in Seq(Packet)
    OBVIOUS
  <2>2. QED
    BY <2>1, PacketPsn, PsnsFacts
<1>2. << >> \o << >> = << >>
  OBVIOUS
<1>3. IsIncreasing(<< >>) /\ Range(<< >>) = {}
  BY DEF IsIncreasing, Range
<1>4. QED
  BY <1>1, <1>2, <1>3

LEMMA InitInv ==
    ASSUME Init
    PROVE  UdInv
<1>1. RouteTypes /\ GroupInv
  BY GroupInit
<1>2. /\ posted = << >> /\ m_to_send = << >> /\ m_snd_nxt = 0 /\ transmitted = << >> /\ dropped = 0
      /\ queue = [d \in devices |-> << >>]
      /\ passed = [v \in Switches(Network) |-> << >>]
      /\ notified = [s \in Receivers |-> << >>]
  BY DEF Init, RouteInit, QpInit, Network
<1>3. FlowTypes
  BY <1>2 DEF FlowTypes
<1>4. ASSUME NEW d \in Tree PROVE Log(d) = << >> /\ InPsns(d) = << >>
  <2>1. d \in devices
    BY DEF Tree, TreeOf
  <2>2. OutPsns(d) = << >>
    <3>1. IsSwitchNode(d[2]) => passed[d[2]] = << >>
      BY <1>1, <1>2, <2>1, Ends
    <3>2. ~IsSwitchNode(d[2]) => Psns(notified[d[2]]) = << >>
      BY <1>1, <1>2, <2>1, Ends, NetworkIs, EmptyFacts
    <3>3. QED
      BY <3>1, <3>2 DEF OutPsns
  <2>3. InPsns(d) = << >>
    BY <1>1, <1>2, <2>1, Ends, EmptyFacts DEF InPsns
  <2>4. queue[d] = << >>
    BY <1>2, <2>1
  <2>5. QED
    BY <2>2, <2>3, <2>4, EmptyFacts DEF Log
<1>5. BuildFirst
  BY <1>1, <1>2 DEF BuildFirst
<1>6. OnTree
  BY <1>1, <1>2 DEF OnTree
<1>7. PsnsGrow
  BY <1>2, EmptyFacts DEF PsnsGrow
<1>8. LogsInOrder /\ NothingLost
  BY <1>4, EmptyFacts DEF LogsInOrder, NothingLost
<1>9. DataSent
  BY <1>2, EmptyFacts DEF DataSent
<1>10. QED
  BY <1>1, <1>3, <1>5, <1>6, <1>7, <1>8, <1>9 DEF UdInv, FlowInv

LEMMA BuildStep ==
    ASSUME UdInv, Build
    PROVE  UdInv'
<1>1. /\ RouteTypes /\ GroupInv /\ FlowTypes /\ BuildFirst /\ calls # << >>
      /\ RouteTypes' /\ GroupInv'
  BY BuildKeepsGroups DEF UdInv, FlowInv, Build, AddGroup
<1>2. /\ UNCHANGED <<net, ecmp, flow, posted, m_to_send, m_snd_nxt, notified, queue, dropped>>
      /\ UNCHANGED <<transmitted, passed>>
  BY DEF Build, AddGroup, route_vars, sq_vars
<1>3. /\ devices' = devices /\ Network' = Network
      /\ \A v : IsSwitchNode(v)' <=> IsSwitchNode(v)
  BY <1>2, RoutesStay DEF IsSwitchNode
<1>4. FlowTypes'
  BY <1>1, <1>2, <1>3 DEF FlowTypes
<1>5. /\ m_to_send = << >> /\ transmitted = << >>
      /\ \A d \in devices : queue[d] = << >>
      /\ \A v \in Switches(Network) : passed[v] = << >>
      /\ \A s \in Receivers : notified[s] = << >>
  BY <1>1 DEF BuildFirst
<1>6. ASSUME NEW d \in devices PROVE Log(d)' = << >>
  <2>1. OutPsns(d)' = << >>
    <3>1. IsSwitchNode(d[2]) => passed'[d[2]] = << >>
      BY <1>1, <1>2, <1>5, Ends
    <3>2. ~IsSwitchNode(d[2]) => Psns(notified'[d[2]]) = << >>
      BY <1>1, <1>2, <1>5, Ends, NetworkIs, EmptyFacts
    <3>3. QED
      BY <1>3, <3>1, <3>2 DEF OutPsns
  <2>2. queue'[d] = << >>
    BY <1>2, <1>5
  <2>3. QED
    BY <2>1, <2>2, EmptyFacts DEF Log
<1>7. ASSUME NEW d \in Tree' PROVE d \in devices /\ InPsns(d)' = << >>
  <2>1. d \in devices
    BY <1>3 DEF Tree, TreeOf
  <2>2. IsSwitchNode(d[1]) => passed'[d[1]] = << >>
    BY <1>1, <1>2, <1>5, <2>1, Ends
  <2>3. QED
    BY <1>2, <1>3, <1>5, <2>1, <2>2, EmptyFacts DEF InPsns
<1>8. BuildFirst'
  BY <1>2, <1>3, <1>5 DEF BuildFirst
<1>9. OnTree'
  BY <1>2, <1>3, <1>5 DEF OnTree
<1>10. PsnsGrow'
  BY <1>2, <1>5, EmptyFacts DEF PsnsGrow
<1>11. LogsInOrder' /\ NothingLost'
  BY <1>6, <1>7, EmptyFacts DEF LogsInOrder, NothingLost
<1>12. DataSent'
  BY <1>2, <1>3, <1>5, EmptyFacts DEF DataSent
<1>13. QED
  BY <1>1, <1>4, <1>8, <1>9, <1>10, <1>11, <1>12 DEF UdInv, FlowInv

LEMMA LogTypes ==
    ASSUME RouteTypes, FlowTypes, NEW d \in devices
    PROVE  /\ queue[d] \in Seq(Packet) /\ Psns(queue[d]) \in Seq(Nat)
           /\ Psns(transmitted) \in Seq(Nat)
           /\ OutPsns(d) \in Seq(Nat) /\ InPsns(d) \in Seq(Nat) /\ Log(d) \in Seq(Nat)
           /\ IsSwitchNode(d[1]) => InPsns(d) = passed[d[1]]
           /\ ~IsSwitchNode(d[1]) => InPsns(d) = Psns(transmitted)
           /\ IsSwitchNode(d[2]) => OutPsns(d) = passed[d[2]]
           /\ ~IsSwitchNode(d[2]) => OutPsns(d) = Psns(notified[d[2]])
<1>1. queue[d] \in Seq(Packet) /\ transmitted \in Seq(Packet)
  BY DEF FlowTypes
<1>2. Psns(queue[d]) \in Seq(Nat) /\ Psns(transmitted) \in Seq(Nat)
  BY <1>1, PacketPsn, PsnsFacts
<1>3. \A v \in Nodes(Network) : IsSwitchNode(v) => passed[v] \in Seq(Nat)
  BY Ends DEF FlowTypes
<1>4. \A v \in Nodes(Network) : ~IsSwitchNode(v) => Psns(notified[v]) \in Seq(Nat)
  <2>1. \A v \in Nodes(Network) : ~IsSwitchNode(v) => notified[v] \in Seq(Notification)
    BY Ends, NetworkIs DEF FlowTypes
  <2>2. QED
    BY <2>1, PacketPsn, PsnsFacts
<1>5. d[1] \in Nodes(Network) /\ d[2] \in Nodes(Network)
  BY Ends
<1>6. OutPsns(d) \in Seq(Nat) /\ InPsns(d) \in Seq(Nat)
  BY <1>2, <1>3, <1>4, <1>5 DEF OutPsns, InPsns
<1>7. Log(d) \in Seq(Nat)
  BY <1>2, <1>6 DEF Log
<1>8. QED
  BY <1>1, <1>2, <1>6, <1>7 DEF OutPsns, InPsns

LEMMA SameLogs ==
    ASSUME UNCHANGED <<net, ecmp, flow, calls, m_groups, m_ogroups>>,
           UNCHANGED <<queue, transmitted, passed, notified>>
    PROVE  \A d : Log(d)' = Log(d) /\ InPsns(d)' = InPsns(d)
BY TreeStays DEF Log, OutPsns, InPsns

LEMMA PostStep ==
    ASSUME UdInv, Post
    PROVE  UdInv'
<1>1. /\ RouteTypes /\ GroupInv /\ FlowTypes /\ BuildFirst /\ OnTree /\ PsnsGrow
      /\ LogsInOrder /\ DataSent /\ NothingLost
  BY DEF UdInv, FlowInv
<1>2. /\ UNCHANGED <<net, ecmp, flow, calls, m_groups, m_ogroups>>
      /\ UNCHANGED <<queue, transmitted, passed, notified>>
      /\ UNCHANGED <<m_snd_nxt, dropped>>
      /\ calls = << >>
  BY DEF Post, PostSend, route_vars, group_vars, NetworkIsBuilt
<1>3. /\ devices' = devices /\ Network' = Network /\ Tree' = Tree
      /\ RouteTypes' /\ GroupInv'
  BY <1>1, <1>2, TreeStays
<1>4. FlowTypes'
  BY <1>1, <1>2, <1>3, PostTypes DEF FlowTypes
<1>5. \A d : Log(d)' = Log(d) /\ InPsns(d)' = InPsns(d)
  BY <1>2, SameLogs
<1>6. BuildFirst'
  BY <1>2 DEF BuildFirst
<1>7. OnTree'
  BY <1>1, <1>2, <1>3 DEF OnTree
<1>8. PsnsGrow'
  BY <1>1, <1>2 DEF PsnsGrow
<1>9. LogsInOrder' /\ NothingLost'
  BY <1>1, <1>2, <1>3, <1>5 DEF LogsInOrder, NothingLost
<1>10. DataSent'
  BY <1>1, <1>2, <1>3 DEF DataSent
<1>11. QED
  BY <1>3, <1>4, <1>6, <1>7, <1>8, <1>9, <1>10 DEF UdInv, FlowInv

LEMMA TransmitStep ==
    ASSUME FatTrees, 0 \notin PayloadSizes, UdInv, Transmit
    PROVE  UdInv'
<1> DEFINE p == NextPacket
           n == m_snd_nxt
<1>1. /\ RouteTypes /\ GroupInv /\ FlowTypes /\ BuildFirst /\ OnTree /\ PsnsGrow
      /\ LogsInOrder /\ DataSent /\ NothingLost
  BY DEF UdInv, FlowInv
<1>2. /\ UNCHANGED <<net, ecmp, flow, calls, m_groups, m_ogroups>>
      /\ UNCHANGED <<passed, notified, posted, dropped>>
      /\ queue' = [d \in devices |-> IF d[1] = flow.src THEN Append(queue[d], p) ELSE queue[d]]
      /\ transmitted' = Append(transmitted, p)
      /\ m_to_send # << >>
  BY DEF Transmit, GetNextPacket, SwitchSend, route_vars, group_vars
<1>3. /\ devices' = devices /\ Network' = Network /\ Tree' = Tree
      /\ Nic' = Nic /\ RouteTypes' /\ GroupInv' /\ \A v : IsSwitchNode(v)' <=> IsSwitchNode(v)
  BY <1>1, <1>2, TreeStays
<1>4. p \in Packet /\ p.psn = n /\ n \in Nat
  BY <1>1, <1>2, NextPacketType DEF FlowTypes
<1>5. /\ m_to_send' \in Seq(Work) /\ m_snd_nxt' \in Nat /\ n < m_snd_nxt'
  BY <1>1, TransmitTypes DEF Transmit
<1> HIDE DEF p, n
<1>6. /\ queue \in [devices -> Seq(Packet)] /\ transmitted \in Seq(Packet)
      /\ Nic \in devices /\ Nic \in Tree /\ Tree \subseteq devices /\ Nic[1] \in Network.servers
      /\ queue'[Nic] = Append(queue[Nic], p)
      /\ \A d \in devices : d # Nic => queue'[d] = queue[d]
  <2>1. Nic \in devices /\ Nic[1] = flow.src /\ \A d \in devices : d[1] = flow.src => d = Nic
    BY <1>1, NicFacts
  <2>2. QED
    BY <1>1, <1>2, <2>1, FlowIsTree, FlowFacts DEF FlowTypes
<1>7. queue' \in [devices -> Seq(Packet)] /\ transmitted' \in Seq(Packet)
  <2>1. ASSUME NEW d \in devices PROVE queue'[d] \in Seq(Packet)
    <3> DEFINE q == queue[d]
    <3>1. q \in Seq(Packet) /\ queue'[d] \in {q, Append(q, p)}
      BY <1>6
    <3> HIDE DEF q
    <3>2. QED
      BY <1>4, <3>1
  <2>2. QED
    BY <1>2, <1>4, <1>6, <2>1
<1>8. FlowTypes'
  BY <1>1, <1>2, <1>3, <1>5, <1>7 DEF FlowTypes
<1>9. /\ Psns(transmitted') = Append(Psns(transmitted), n)
      /\ Range(Psns(transmitted')) = Range(Psns(transmitted)) \union {n}
      /\ Psns(transmitted) \in Seq(Nat)
  <2>1. Psns(transmitted') = Append(Psns(transmitted), n)
    BY <1>2, <1>4, <1>6, PacketPsn, PsnsAppend
  <2>2. Psns(transmitted) \in Seq(Nat)
    BY <1>6, PacketPsn, PsnsFacts
  <2>3. QED
    BY <1>4, <2>1, <2>2, RangeAppend
<1>10. BuildFirst'
  BY <1>1, <1>2 DEF BuildFirst
<1>11. OnTree'
  BY <1>1, <1>2, <1>3, <1>6 DEF OnTree
<1>12. PsnsGrow'
  <2>1. IsIncreasing(Psns(transmitted)) /\ \A x \in Range(Psns(transmitted)) : x < n
    BY <1>1 DEF PsnsGrow, n
  <2>2. IsIncreasing(Psns(transmitted'))
    BY <1>4, <1>9, <2>1, IncreasingAppend
  <2>3. \A x \in Range(Psns(transmitted)) : x \in Nat
    BY <1>9 DEF Range
  <2>4. \A x \in Range(Psns(transmitted')) : x < m_snd_nxt'
    BY <1>4, <1>5, <1>9, <2>1, <2>3
  <2>5. QED
    BY <2>2, <2>4 DEF PsnsGrow
<1>13. /\ Log(Nic)' = Append(Log(Nic), n) /\ Log(Nic) \in Seq(Nat)
       /\ InPsns(Nic) = Psns(transmitted) /\ InPsns(Nic)' = Psns(transmitted')
  <2>1. OutPsns(Nic)' = OutPsns(Nic)
    BY <1>2, <1>3, TreeStays DEF OutPsns
  <2>2. Log(Nic)' = OutPsns(Nic) \o Psns(queue'[Nic])
    BY <1>2, <2>1, TreeStays DEF Log
  <2>3. OutPsns(Nic) \in Seq(Nat) /\ Log(Nic) \in Seq(Nat) /\ queue[Nic] \in Seq(Packet)
    BY <1>1, <1>6, LogTypes
  <2>4. OutPsns(Nic) \o Psns(Append(queue[Nic], p)) = Append(OutPsns(Nic) \o Psns(queue[Nic]), p.psn)
    <3> DEFINE a == OutPsns(Nic)
               q == queue[Nic]
    <3>1. a \in Seq(Nat) /\ q \in Seq(Packet) /\ p \in Packet /\ \A x \in Packet : x.psn \in Nat
      BY <1>4, <2>3, PacketPsn
    <3> HIDE DEF a, q
    <3>2. a \o Psns(Append(q, p)) = Append(a \o Psns(q), p.psn)
      BY <3>1, LogGrows
    <3>3. QED
      BY <3>2 DEF a, q
  <2>5. ~IsSwitchNode(Nic[1]) /\ Nic' = Nic
    BY <1>2, <1>6, TreeStays DEF IsSwitchNode, Network
  <2>6. QED
    BY <1>3, <1>4, <1>6, <2>2, <2>3, <2>4, <2>5 DEF Log, InPsns
<1>14. ASSUME NEW d \in Tree, d # Nic PROVE Log(d)' = Log(d) /\ InPsns(d)' = InPsns(d)
  <2>1. OutPsns(d)' = OutPsns(d) /\ queue'[d] = queue[d]
    BY <1>2, <1>3, <1>6, <1>14 DEF OutPsns
  <2>2. IsSwitchNode(d[1])
    <3>1. \E e \in Tree : d \in Outs[e]
      BY <1>1, <1>14, FlowIsTree
    <3>2. d[1] \in Switches(Network)
      BY <1>1, <1>6, <3>1, OutsFacts
    <3>3. QED
      BY <3>2 DEF IsSwitchNode, Switches, Network
  <2>3. QED
    BY <1>2, <1>3, <2>1, <2>2 DEF Log, InPsns
<1>15. LogsInOrder'
  <2>1. /\ IsIncreasing(Log(Nic)) /\ Range(Log(Nic)) \subseteq Range(Psns(transmitted))
        /\ \A x \in Range(Psns(transmitted)) : x < n
    BY <1>1, <1>6, <1>13 DEF LogsInOrder, PsnsGrow, n
  <2>2. IsIncreasing(Log(Nic)')
    BY <1>4, <1>13, <2>1, IncreasingAppend
  <2>3. Range(Log(Nic)') \subseteq Range(InPsns(Nic)')
    BY <1>4, <1>9, <1>13, <2>1, RangeAppend
  <2>4. ASSUME NEW d \in Tree
        PROVE  IsIncreasing(Log(d)') /\ Range(Log(d)') \subseteq Range(InPsns(d)')
    <3>1. CASE d = Nic
      BY <1>3, <2>2, <2>3, <3>1
    <3>2. CASE d # Nic
      BY <1>1, <1>14, <3>2 DEF LogsInOrder
    <3>3. QED
      BY <3>1, <3>2
  <2>5. QED
    BY <1>3, <2>4 DEF LogsInOrder
<1>16. NothingLost'
  <2>1. SUFFICES ASSUME dropped' = 0, NEW d \in Tree PROVE Log(d)' = InPsns(d)'
    BY <1>3 DEF NothingLost
  <2>2. Log(d) = InPsns(d)
    BY <1>1, <1>2, <2>1 DEF NothingLost
  <2>3. CASE d = Nic
    BY <1>3, <1>9, <1>13, <2>2, <2>3
  <2>4. CASE d # Nic
    BY <1>14, <2>2, <2>4
  <2>5. QED
    BY <2>3, <2>4
<1>17. DataSent'
  <2>1. Range(transmitted') = Range(transmitted) \union {p}
    BY <1>2, <1>4, <1>6, RangeAppend
  <2>2. Range(queue'[Nic]) = Range(queue[Nic]) \union {p}
    BY <1>4, <1>6, RangeAppend
  <2>3. ASSUME NEW d \in devices PROVE Range(queue'[d]) \subseteq Range(transmitted')
    BY <1>1, <1>6, <2>1, <2>2 DEF DataSent
  <2>4. QED
    BY <1>1, <1>2, <1>3, <2>1, <2>3 DEF DataSent
<1>18. QED
  BY <1>3, <1>8, <1>10, <1>11, <1>12, <1>15, <1>16, <1>17 DEF UdInv, FlowInv

\* What taking the head of a queue does to its device, in plain sequences.
LEMMA HeadFacts ==
    ASSUME NEW q \in Seq(Packet), q # << >>, NEW a \in Seq(Nat), IsIncreasing(a \o Psns(q))
    PROVE  /\ Head(q) \in Packet /\ Head(q).psn \in Nat /\ Tail(q) \in Seq(Packet)
           /\ Append(a, Head(q).psn) \o Psns(Tail(q)) = a \o Psns(q)
           /\ \A y \in Range(a) : y < Head(q).psn
           /\ Range(q) = {Head(q)} \union Range(Tail(q))
<1> DEFINE x == Head(q)
           t == Tail(q)
<1>1. x \in Packet /\ t \in Seq(Packet) /\ x.psn \in Nat
  <2>1. x \in Packet /\ t \in Seq(Packet)
    OBVIOUS
  <2>2. QED
    BY <2>1, PacketPsn
<1>2. Append(a, x.psn) \o Psns(t) = a \o Psns(q)
  BY PacketPsn, LogMoves
<1>3. Range(q) = {x} \union Range(t)
  BY RangeHead
<1> HIDE DEF x, t
<1>4. Append(a, x.psn) \in Seq(Nat) /\ Psns(t) \in Seq(Nat)
  BY <1>1, PacketPsn, PsnsFacts
<1>5. IsIncreasing(Append(a, x.psn))
  BY <1>2, <1>4, IncreasingPrefix
<1>6. \A y \in Range(a) : y < x.psn
  BY <1>1, <1>5, IncreasingLast
<1>7. QED
  BY <1>1, <1>2, <1>3, <1>6 DEF x, t

\* What a switch does with a packet: it sends copies on devices of Outs, and
\* drops the others.
LEMMA HopIs ==
    ASSUME RouteTypes, FlowTypes, NEW dev \in devices, Hop(dev)
    PROVE  /\ queue[dev] # << >> /\ dev[2] \in Switches(Network) /\ IsSwitchNode(dev[2])
           /\ \E kept \in SUBSET Outs[dev] :
                  /\ dropped' = dropped + Cardinality(Outs[dev] \ kept)
                  /\ queue' = [d \in devices |->
                                  IF d = dev THEN Tail(queue[d])
                                  ELSE IF d \in kept THEN Append(queue[d], Head(queue[dev]))
                                  ELSE queue[d]]
           /\ passed' = [passed EXCEPT ![dev[2]] = Append(@, Head(queue[dev]).psn)]
           /\ UNCHANGED <<net, ecmp, flow, calls, m_groups, m_ogroups>>
           /\ UNCHANGED <<posted, m_to_send, m_snd_nxt, notified, transmitted>>
<1>1. SwitchReceiveFromDevice(dev, flow.multicast, flow.dip)
  BY DEF Hop
<1>2. queue[dev] # << >> /\ IsSwitchNode(dev[2]) /\ dev[2] \in Switches(Network)
  BY <1>1, Ends DEF SwitchReceiveFromDevice
<1>3. SendToDevs(dev, Outs[dev])
  <2>1. flow.multicast \in BOOLEAN
    BY FlowFacts
  <2>2. CASE flow.multicast
    BY <1>1, <1>2, <2>2 DEF SwitchReceiveFromDevice, Outs
  <2>3. CASE ~flow.multicast
    BY <1>1, <1>2, <2>3 DEF SwitchReceiveFromDevice, Outs
  <2>4. QED
    BY <2>2, <2>3
<1>4. QED
  BY <1>2, <1>3 DEF SendToDevs, Hop, route_vars, group_vars, sq_vars

LEMMA HopStep ==
    ASSUME FatTrees, UdInv, NEW dev \in devices, Hop(dev)
    PROVE  UdInv'
<1> DEFINE p == Head(queue[dev])
           n == p.psn
           sw == dev[2]
           outs == Outs[dev]
<1>1. /\ RouteTypes /\ GroupInv /\ FlowTypes /\ BuildFirst /\ OnTree /\ PsnsGrow
      /\ LogsInOrder /\ DataSent /\ NothingLost
  BY DEF UdInv, FlowInv
<1>2. /\ queue[dev] # << >> /\ sw \in Switches(Network) /\ IsSwitchNode(sw)
      /\ passed' = [passed EXCEPT ![sw] = Append(@, n)]
      /\ UNCHANGED <<net, ecmp, flow, calls, m_groups, m_ogroups>>
      /\ UNCHANGED <<posted, m_to_send, m_snd_nxt, notified, transmitted>>
  BY <1>1, HopIs
<1>3. PICK kept \in SUBSET outs :
          /\ dropped' = dropped + Cardinality(outs \ kept)
          /\ queue' = [d \in devices |-> IF d = dev THEN Tail(queue[d])
                                         ELSE IF d \in kept THEN Append(queue[d], p)
                                         ELSE queue[d]]
  BY <1>1, HopIs
<1>4. /\ devices' = devices /\ Network' = Network /\ Tree' = Tree
      /\ RouteTypes' /\ GroupInv' /\ \A v : IsSwitchNode(v)' <=> IsSwitchNode(v)
  BY <1>1, <1>2, TreeStays
<1>5. /\ dev \in Tree /\ Tree \subseteq devices
      /\ outs \subseteq Tree /\ kept \subseteq outs /\ outs \subseteq devices /\ dev \notin outs
      /\ \A d \in outs : d[1] = sw
      /\ \A d \in Tree : d[2] = sw => d = dev
      /\ \A d \in Tree : d[1] = sw => d \in outs
  <2>1. dev \in Tree
    BY <1>1, <1>2 DEF OnTree
  <2>2. /\ Tree \subseteq devices /\ outs \subseteq Tree /\ \A d \in Tree : d[2] = sw => d = dev
        /\ \A d \in Tree : d # Nic => \E e \in Tree : d \in Outs[e] /\ e[2] = d[1]
    BY <1>1, <2>1, FlowIsTree
  <2>3. \A d \in outs : d[1] = sw
    BY <1>1, OutsFacts
  <2>4. dev[1] # sw
    BY <1>1, Ends
  <2>5. Nic[1] # sw
    BY <1>1, <1>2, NicFacts, FlowFacts DEF Switches
  <2>6. QED
    BY <2>1, <2>2, <2>3, <2>4, <2>5
<1>6. /\ queue \in [devices -> Seq(Packet)] /\ passed \in [Switches(Network) -> Seq(Nat)]
      /\ dropped \in Nat /\ passed[sw] \in Seq(Nat) /\ queue[dev] \in Seq(Packet)
  BY <1>1, <1>2 DEF FlowTypes
<1>7. OutPsns(dev) = passed[sw] /\ IsIncreasing(Log(dev)) /\ Log(dev) = passed[sw] \o Psns(queue[dev])
  BY <1>1, <1>2, <1>5 DEF OutPsns, LogsInOrder, Log
<1>8. /\ p \in Packet /\ n \in Nat /\ Tail(queue[dev]) \in Seq(Packet)
      /\ Append(passed[sw], n) \o Psns(Tail(queue[dev])) = Log(dev)
      /\ \A y \in Range(passed[sw]) : y < n
      /\ Range(queue[dev]) = {p} \union Range(Tail(queue[dev]))
  BY <1>2, <1>6, <1>7, HeadFacts
<1>9. /\ queue'[dev] = Tail(queue[dev])
      /\ \A d \in kept : queue'[d] = Append(queue[d], p)
      /\ \A d \in devices : d # dev /\ d \notin kept => queue'[d] = queue[d]
      /\ passed'[sw] = Append(passed[sw], n)
      /\ \A v \in Switches(Network) : v # sw => passed'[v] = passed[v]
  BY <1>2, <1>3, <1>5, <1>6
<1> HIDE DEF p, n, sw, outs
<1>10. ASSUME NEW d \in devices PROVE queue'[d] \in Seq(Packet)
  <2> DEFINE q == queue[d]
  <2>1. q \in Seq(Packet) /\ (d # dev => queue'[d] \in {q, Append(q, p)})
    BY <1>6, <1>9
  <2> HIDE DEF q
  <2>2. CASE d = dev
    BY <1>8, <1>9, <2>2
  <2>3. CASE d # dev
    BY <1>8, <2>1, <2>3
  <2>4. QED
    BY <2>2, <2>3
<1>11. outs \ kept \subseteq devices /\ IsFiniteSet(outs \ kept) /\ Cardinality(outs \ kept) \in Nat
  <2>1. outs \ kept \subseteq devices
    BY <1>5
  <2>2. QED
    BY <1>1, <2>1, Ends, FS_Subset, FS_CardinalityType
<1>12. FlowTypes'
  <2>1. queue' \in [devices -> Seq(Packet)]
    BY <1>3, <1>10
  <2>2. dropped' \in Nat
    BY <1>3, <1>6, <1>11
  <2>3. passed' \in [Switches(Network) -> Seq(Nat)]
    <3>1. Append(passed[sw], n) \in Seq(Nat)
      BY <1>6, <1>8
    <3>2. QED
      BY <1>2, <1>6, <3>1
  <2>4. QED
    BY <1>1, <1>2, <1>4, <2>1, <2>2, <2>3 DEF FlowTypes
<1>13. BuildFirst'
  BY <1>1, <1>2, <1>5 DEF BuildFirst
<1>14. OnTree'
  <2>1. ASSUME NEW d \in devices, queue'[d] # << >> PROVE d \in Tree
    <3>1. CASE d = dev \/ d \in kept
      BY <1>5, <3>1
    <3>2. CASE d # dev /\ d \notin kept
      BY <1>1, <1>9, <2>1, <3>2 DEF OnTree
    <3>3. QED
      BY <3>1, <3>2
  <2>2. ASSUME NEW v \in Switches(Network), passed'[v] # << >> PROVE \E d \in Tree : d[2] = v
    BY <1>1, <1>5, <1>9, <2>2 DEF OnTree, sw
  <2>3. QED
    BY <1>1, <1>2, <1>4, <2>1, <2>2 DEF OnTree
<1>15. PsnsGrow'
  BY <1>1, <1>2 DEF PsnsGrow
<1>16. Log(dev)' = Log(dev)
  BY <1>2, <1>4, <1>8, <1>9 DEF Log, OutPsns, sw
<1>17. ASSUME NEW d \in Tree, d # dev
       PROVE  /\ d \in kept => Log(d)' = Append(Log(d), n)
              /\ d \notin kept => Log(d)' = Log(d)
              /\ Log(d) \in Seq(Nat)
  <2>1. d[2] # sw /\ d[2] \in Nodes(Network)
    BY <1>1, <1>5, <1>17, Ends
  <2>2. OutPsns(d)' = OutPsns(d)
    BY <1>1, <1>2, <1>4, <1>9, <2>1, Ends DEF OutPsns
  <2>3. Log(d)' = OutPsns(d) \o Psns(queue'[d])
    BY <2>2 DEF Log
  <2>4. OutPsns(d) \in Seq(Nat) /\ Log(d) \in Seq(Nat) /\ queue[d] \in Seq(Packet)
    BY <1>1, <1>5, LogTypes
  <2>5. OutPsns(d) \o Psns(Append(queue[d], p)) = Append(Log(d), n)
    <3> DEFINE a == OutPsns(d)
               q == queue[d]
    <3>1. a \in Seq(Nat) /\ q \in Seq(Packet) /\ p \in Packet /\ \A x \in Packet : x.psn \in Nat
      BY <1>8, <2>4, PacketPsn
    <3> HIDE DEF a, q
    <3>2. a \o Psns(Append(q, p)) = Append(a \o Psns(q), p.psn)
      BY <3>1, LogGrows
    <3>3. QED
      BY <3>2 DEF a, q, n, Log
  <2>6. QED
    BY <1>5, <1>9, <1>17, <2>3, <2>4, <2>5 DEF Log
<1>18. ASSUME NEW d \in Tree
       PROVE  /\ d[1] = sw => /\ InPsns(d) = passed[sw] /\ InPsns(d)' = Append(passed[sw], n)
                              /\ Range(InPsns(d)') = Range(passed[sw]) \union {n}
              /\ d[1] # sw => InPsns(d)' = InPsns(d)
  <2>1. d[1] = sw => InPsns(d) = passed[sw] /\ InPsns(d)' = Append(passed[sw], n)
    BY <1>2, <1>4, <1>9 DEF InPsns
  <2>2. d[1] # sw => InPsns(d)' = InPsns(d)
    BY <1>1, <1>2, <1>4, <1>5, <1>9, Ends DEF InPsns
  <2>3. Range(Append(passed[sw], n)) = Range(passed[sw]) \union {n}
    <3> DEFINE a == passed[sw]
    <3>1. a \in Seq(Nat) /\ n \in Nat
      BY <1>6, <1>8
    <3> HIDE DEF a
    <3>2. Range(Append(a, n)) = Range(a) \union {n}
      BY <3>1, RangeAppend
    <3>3. QED
      BY <3>2 DEF a
  <2>4. QED
    BY <2>1, <2>2, <2>3
<1>19. LogsInOrder'
  <2>1. SUFFICES ASSUME NEW d \in Tree
                 PROVE  IsIncreasing(Log(d)') /\ Range(Log(d)') \subseteq Range(InPsns(d)')
    BY <1>4 DEF LogsInOrder
  <2>2. IsIncreasing(Log(d)) /\ Range(Log(d)) \subseteq Range(InPsns(d))
    BY <1>1 DEF LogsInOrder
  <2>3. Range(InPsns(d)) \subseteq Range(InPsns(d)')
    BY <1>18
  <2>4. CASE d = dev \/ d \notin kept
    <3>1. Log(d)' = Log(d)
      <4>1. CASE d = dev
        BY <1>16, <4>1
      <4>2. CASE d # dev
        BY <1>17, <2>4, <4>2
      <4>3. QED
        BY <4>1, <4>2
    <3>2. QED
      BY <2>2, <2>3, <3>1
  <2>5. CASE d # dev /\ d \in kept
    <3>1. Log(d)' = Append(Log(d), n) /\ Log(d) \in Seq(Nat) /\ d[1] = sw
      BY <1>5, <1>17, <2>5
    <3>2. \A y \in Range(Log(d)) : y < n
      BY <1>8, <1>18, <2>2, <3>1
    <3>3. IsIncreasing(Append(Log(d), n)) /\ Range(Append(Log(d), n)) = Range(Log(d)) \union {n}
      BY <1>8, <2>2, <3>1, <3>2, IncreasingAppend, RangeAppend
    <3>4. QED
      BY <1>18, <2>2, <3>1, <3>3
  <2>6. QED
    BY <2>4, <2>5
<1>20. NothingLost'
  <2>1. SUFFICES ASSUME dropped' = 0, NEW d \in Tree PROVE Log(d)' = InPsns(d)'
    BY <1>4 DEF NothingLost
  <2>2. dropped = 0 /\ Cardinality(outs \ kept) = 0
    BY <1>3, <1>6, <1>11, <2>1 DEF outs
  <2>3. kept = outs
    BY <1>5, <1>11, <2>2, FS_EmptySet
  <2>4. Log(d) = InPsns(d)
    BY <1>1, <2>2 DEF NothingLost
  <2>5. CASE d[1] = sw
    <3>1. d \in kept /\ d # dev
      BY <1>5, <2>3, <2>5
    <3>2. QED
      BY <1>17, <1>18, <2>4, <2>5, <3>1
  <2>6. CASE d[1] # sw
    <3>1. d \notin kept
      BY <1>5, <2>6
    <3>2. Log(d)' = Log(d)
      <4>1. CASE d = dev
        BY <1>16, <4>1
      <4>2. CASE d # dev
        BY <1>17, <3>1, <4>2
      <4>3. QED
        BY <4>1, <4>2
    <3>3. QED
      BY <1>18, <2>4, <2>6, <3>2
  <2>7. QED
    BY <2>5, <2>6
<1>21. DataSent'
  <2>1. \A d \in devices : Range(queue[d]) \subseteq Range(transmitted)
    BY <1>1 DEF DataSent
  <2>2. p \in Range(transmitted)
    BY <1>8, <2>1
  <2>3. ASSUME NEW d \in devices PROVE Range(queue'[d]) \subseteq Range(transmitted)
    <3>1. CASE d = dev
      BY <1>8, <1>9, <2>1, <3>1
    <3>2. CASE d \in kept
      <4>1. queue[d] \in Seq(Packet)
        BY <1>6
      <4>2. Range(Append(queue[d], p)) = Range(queue[d]) \union {p}
        BY <1>8, <4>1, RangeAppend
      <4>3. QED
        BY <1>9, <2>1, <2>2, <3>2, <4>2
    <3>3. CASE d # dev /\ d \notin kept
      BY <1>9, <2>1, <3>3
    <3>4. QED
      BY <3>1, <3>2, <3>3
  <2>4. QED
    BY <1>1, <1>2, <1>4, <2>3 DEF DataSent
<1>22. QED
  BY <1>4, <1>12, <1>13, <1>14, <1>15, <1>19, <1>20, <1>21 DEF UdInv, FlowInv

LEMMA DeliverStep ==
    ASSUME FatTrees, UdInv, NEW dev \in devices, Deliver(dev)
    PROVE  UdInv'
<1> DEFINE p == Head(queue[dev])
           n == p.psn
           s == dev[2]
           note == [psn |-> p.psn, imm |-> p.imm]
<1>1. /\ RouteTypes /\ GroupInv /\ FlowTypes /\ BuildFirst /\ OnTree /\ PsnsGrow
      /\ LogsInOrder /\ DataSent /\ NothingLost
  BY DEF UdInv, FlowInv
<1>2. /\ queue[dev] # << >> /\ ~IsSwitchNode(s)
      /\ notified' = [notified EXCEPT ![s] = IF p.notif THEN Append(@, note) ELSE @]
      /\ queue' = [queue EXCEPT ![dev] = Tail(@)]
      /\ UNCHANGED <<net, ecmp, flow, calls, m_groups, m_ogroups>>
      /\ UNCHANGED <<posted, m_to_send, m_snd_nxt, passed, transmitted, dropped>>
  BY DEF Deliver, ReceiveUdp, route_vars, group_vars, sq_vars
<1>3. /\ devices' = devices /\ Network' = Network /\ Tree' = Tree
      /\ RouteTypes' /\ GroupInv' /\ \A v : IsSwitchNode(v)' <=> IsSwitchNode(v)
  BY <1>1, <1>2, TreeStays
<1>4. /\ dev \in Tree /\ Tree \subseteq devices
      /\ \A d \in Tree : d[2] = s => d = dev
      /\ s \in Network.servers /\ s \in Receivers
  BY <1>1, <1>2, FlowIsTree, NetworkIs, Ends DEF OnTree
<1>5. /\ queue \in [devices -> Seq(Packet)] /\ notified \in [Receivers -> Seq(Notification)]
      /\ queue[dev] \in Seq(Packet) /\ notified[s] \in Seq(Notification)
      /\ Psns(notified[s]) \in Seq(Nat)
  <2>1. /\ queue \in [devices -> Seq(Packet)] /\ notified \in [Receivers -> Seq(Notification)]
        /\ queue[dev] \in Seq(Packet) /\ notified[s] \in Seq(Notification)
    BY <1>1, <1>4 DEF FlowTypes
  <2>2. QED
    BY <2>1, PacketPsn, PsnsFacts
<1>6. OutPsns(dev) = Psns(notified[s]) /\ Log(dev) = Psns(notified[s]) \o Psns(queue[dev])
      /\ IsIncreasing(Log(dev))
  BY <1>1, <1>2, <1>4 DEF OutPsns, Log, LogsInOrder
<1>7. /\ p \in Packet /\ n \in Nat /\ Tail(queue[dev]) \in Seq(Packet)
      /\ Append(Psns(notified[s]), n) \o Psns(Tail(queue[dev])) = Log(dev)
      /\ Range(queue[dev]) = {p} \union Range(Tail(queue[dev]))
  BY <1>2, <1>5, <1>6, HeadFacts
<1>8. p.notif = TRUE /\ note \in Notification /\ note.psn = n /\ note.imm = p.imm
  BY <1>7, PacketPsn DEF Notification
<1>9. /\ queue'[dev] = Tail(queue[dev])
      /\ \A d \in devices : d # dev => queue'[d] = queue[d]
      /\ notified'[s] = Append(notified[s], note)
      /\ \A r \in Receivers : r # s => notified'[r] = notified[r]
  BY <1>2, <1>4, <1>5, <1>8
<1> HIDE DEF p, n, s, note
<1>10. Psns(notified'[s]) = Append(Psns(notified[s]), n)
  <2> DEFINE q == notified[s]
  <2>1. q \in Seq(Notification) /\ note \in Notification /\ \A x \in Notification : x.psn \in Nat
    BY <1>5, <1>8, PacketPsn
  <2> HIDE DEF q
  <2>2. Psns(Append(q, note)) = Append(Psns(q), note.psn)
    BY <2>1, PsnsAppend
  <2>3. QED
    BY <1>8, <1>9, <2>2 DEF q
<1>11. FlowTypes'
  <2>1. queue' \in [devices -> Seq(Packet)]
    BY <1>2, <1>5, <1>7
  <2>2. Append(notified[s], note) \in Seq(Notification)
    BY <1>5, <1>8
  <2>3. notified' \in [Receivers -> Seq(Notification)]
    BY <1>2, <1>5, <1>9, <2>2 DEF s
  <2>4. QED
    BY <1>1, <1>2, <1>3, <2>1, <2>3 DEF FlowTypes
<1>12. BuildFirst'
  BY <1>1, <1>2, <1>4 DEF BuildFirst
<1>13. OnTree'
  <2>1. \A d \in devices : queue'[d] # << >> => d \in Tree
    BY <1>1, <1>4, <1>9 DEF OnTree
  <2>2. ASSUME NEW r \in Receivers, notified'[r] # << >>
        PROVE  \E d \in Tree : d[2] = r /\ r \in Network.servers
    BY <1>1, <1>4, <1>9, <2>2 DEF OnTree, s
  <2>3. QED
    BY <1>1, <1>2, <1>3, <2>1, <2>2 DEF OnTree
<1>14. PsnsGrow'
  BY <1>1, <1>2 DEF PsnsGrow
<1>15. ASSUME NEW d \in Tree PROVE Log(d)' = Log(d) /\ InPsns(d)' = InPsns(d)
  <2>1. InPsns(d)' = InPsns(d)
    BY <1>2, <1>3 DEF InPsns
  <2>2. CASE d = dev
    <3>1. OutPsns(dev)' = Append(Psns(notified[s]), n)
      BY <1>2, <1>3, <1>10 DEF OutPsns, s
    <3>2. Log(dev)' = Log(dev)
      BY <1>7, <1>9, <3>1 DEF Log
    <3>3. QED
      BY <2>1, <2>2, <3>2
  <2>3. CASE d # dev
    <3>1. d[2] # s /\ (~IsSwitchNode(d[2]) => d[2] \in Receivers) /\ d \in devices
      BY <1>1, <1>4, <2>3, Ends, NetworkIs
    <3>2. OutPsns(d)' = OutPsns(d) /\ queue'[d] = queue[d]
      BY <1>2, <1>3, <1>9, <2>3, <3>1 DEF OutPsns
    <3>3. QED
      BY <2>1, <3>2 DEF Log
  <2>4. QED
    BY <2>2, <2>3
<1>16. LogsInOrder' /\ NothingLost'
  BY <1>1, <1>2, <1>3, <1>15 DEF LogsInOrder, NothingLost
<1>17. DataSent'
  <2>1. \A d \in devices : Range(queue[d]) \subseteq Range(transmitted)
    BY <1>1 DEF DataSent
  <2>2. p \in Range(transmitted)
    BY <1>7, <2>1
  <2>3. \A d \in devices : Range(queue'[d]) \subseteq Range(transmitted)
    BY <1>7, <1>9, <2>1
  <2>4. Range(notified'[s]) = Range(notified[s]) \union {note}
    <3> DEFINE q == notified[s]
    <3>1. q \in Seq(Notification) /\ note \in Notification
      BY <1>5, <1>8
    <3> HIDE DEF q
    <3>2. Range(Append(q, note)) = Range(q) \union {note}
      BY <3>1, RangeAppend
    <3>3. QED
      BY <1>9, <3>2 DEF q
  <2>5. ASSUME NEW r \in Receivers, NEW x \in Range(notified'[r])
        PROVE  \E y \in Range(transmitted) : x.psn = y.psn /\ x.imm = y.imm
    <3>1. CASE x \in Range(notified[r])
      BY <1>1, <3>1 DEF DataSent
    <3>2. CASE x \notin Range(notified[r])
      <4>1. x = note
        BY <1>9, <2>4, <2>5, <3>2
      <4>2. QED
        BY <1>8, <2>2, <4>1 DEF n
    <3>3. QED
      BY <3>1, <3>2
  <2>6. QED
    BY <1>2, <1>3, <2>3, <2>5 DEF DataSent
<1>18. QED
  BY <1>3, <1>11, <1>12, <1>13, <1>14, <1>16, <1>17 DEF UdInv, FlowInv

-----------------------------------------------------------------------------
(* The invariant, and what it says of a flow.                              *)

LEMMA UdInvariant ==
    ASSUME FatTrees, 0 \notin PayloadSizes
    PROVE  Spec => []UdInv
<1>1. Init => UdInv
  BY InitInv
<1>2. UdInv /\ [Next]_vars => UdInv'
  <2>1. SUFFICES ASSUME UdInv, [Next]_vars PROVE UdInv'
    OBVIOUS
  <2>2. CASE Build
    BY <2>1, <2>2, BuildStep
  <2>3. CASE Post
    BY <2>1, <2>3, PostStep
  <2>4. CASE Transmit
    BY <2>1, <2>4, TransmitStep
  <2>5. CASE \E dev \in devices : Hop(dev) \/ Deliver(dev)
    BY <2>1, <2>5, HopStep, DeliverStep
  <2>6. CASE UNCHANGED vars
    <3>1. /\ UNCHANGED <<net, ecmp, flow, calls, m_groups, m_ogroups>>
          /\ UNCHANGED <<queue, transmitted, passed, notified>>
          /\ UNCHANGED <<posted, m_to_send, m_snd_nxt, dropped>>
      BY <2>6 DEF vars, sq_vars, route_vars, group_vars
    <3>2. /\ devices' = devices /\ Network' = Network /\ Tree' = Tree
          /\ RouteTypes' /\ GroupInv'
      BY <2>1, <3>1, TreeStays DEF UdInv
    <3>3. \A d : Log(d)' = Log(d) /\ InPsns(d)' = InPsns(d)
      BY <3>1, SameLogs
    <3>4. FlowTypes'
      BY <2>1, <3>1, <3>2 DEF UdInv, FlowTypes
    <3>5. BuildFirst' /\ OnTree' /\ PsnsGrow' /\ DataSent'
      BY <2>1, <3>1, <3>2 DEF UdInv, FlowInv, BuildFirst, OnTree, PsnsGrow, DataSent
    <3>6. LogsInOrder' /\ NothingLost'
      BY <2>1, <3>1, <3>2, <3>3 DEF UdInv, FlowInv, LogsInOrder, NothingLost
    <3>7. QED
      BY <3>2, <3>4, <3>5, <3>6 DEF UdInv, FlowInv
  <2>7. QED
    BY <2>1, <2>2, <2>3, <2>4, <2>5, <2>6 DEF Next
<1>3. QED
  BY <1>1, <1>2, PTL DEF Spec

\* In a fat tree with routes, and if no request is empty, what comes to a
\* switch comes in order, and once: OutDevs never lets two copies meet.
THEOREM OnceAtSwitches ==
    ASSUME FatTrees, 0 \notin PayloadSizes
    PROVE  Spec => []NoSwitchSeesTwice
<1>1. UdInv => NoSwitchSeesTwice
  <2>1. SUFFICES ASSUME UdInv, NEW v \in Switches(Network) PROVE IsIncreasing(passed[v])
    BY DEF UdInv, FlowTypes, NoSwitchSeesTwice
  <2>2. RouteTypes /\ GroupInv /\ FlowTypes /\ OnTree /\ LogsInOrder
    BY <2>1 DEF UdInv, FlowInv
  <2>3. CASE passed[v] = << >>
    BY <2>3, EmptyFacts
  <2>4. CASE passed[v] # << >>
    <3>1. PICK d \in Tree : d[2] = v /\ d \in devices
      BY <2>2, <2>4, FlowIsTree DEF OnTree
    <3>2. IsSwitchNode(v)
      BY <2>2, <3>1, Ends
    <3>3. OutPsns(d) = passed[v] /\ OutPsns(d) \in Seq(Nat) /\ Psns(queue[d]) \in Seq(Nat)
      BY <2>2, <3>1, <3>2, LogTypes
    <3>4. IsIncreasing(OutPsns(d) \o Psns(queue[d]))
      BY <2>2, <3>1 DEF LogsInOrder, Log
    <3>5. QED
      BY <3>3, <3>4, IncreasingPrefix
  <2>5. QED
    BY <2>3, <2>4
<1>2. QED
  BY <1>1, UdInvariant, PTL

\* Under the same hypotheses: a receive queue tells its user of packets that
\* were sent, in order, and once; and only those of the destinations do.
THEOREM OnceAtReceivers ==
    ASSUME FatTrees, 0 \notin PayloadSizes
    PROVE  Spec => []DeliveredInOrderOnce
<1>1. UdInv => DeliveredInOrderOnce
  <2>1. SUFFICES ASSUME UdInv, NEW s \in Receivers
                 PROVE  /\ IsIncreasing(Psns(notified[s]))
                        /\ \A i \in DOMAIN notified[s] : \E j \in DOMAIN transmitted :
                               /\ notified[s][i].psn = transmitted[j].psn
                               /\ notified[s][i].imm = transmitted[j].imm
                        /\ s \notin Destinations => notified[s] = << >>
    BY DEF DeliveredInOrderOnce
  <2>2. RouteTypes /\ GroupInv /\ FlowTypes /\ OnTree /\ LogsInOrder /\ DataSent
    BY <2>1 DEF UdInv, FlowInv
  <2>3. \A n \in Range(notified[s]) :
            \E x \in Range(transmitted) : n.psn = x.psn /\ n.imm = x.imm
    BY <2>2 DEF DataSent
  <2>4. \A i \in DOMAIN notified[s] : \E j \in DOMAIN transmitted :
            /\ notified[s][i].psn = transmitted[j].psn
            /\ notified[s][i].imm = transmitted[j].imm
    BY <2>3 DEF Range
  <2>5. CASE notified[s] = << >>
    BY <2>4, <2>5, EmptyFacts
  <2>6. CASE notified[s] # << >>
    <3>1. PICK d \in Tree : d[2] = s /\ s \in Network.servers /\ d \in devices
      BY <2>2, <2>6, FlowIsTree DEF OnTree
    <3>2. s \in Destinations
      BY <2>2, <3>1, FlowIsTree
    <3>3. ~IsSwitchNode(s)
      BY <3>1 DEF IsSwitchNode, Network
    <3>4. /\ OutPsns(d) = Psns(notified[s])
          /\ OutPsns(d) \in Seq(Nat) /\ Psns(queue[d]) \in Seq(Nat)
      BY <2>2, <3>1, <3>3, LogTypes
    <3>5. IsIncreasing(OutPsns(d) \o Psns(queue[d]))
      BY <2>2, <3>1 DEF LogsInOrder, Log
    <3>6. IsIncreasing(Psns(notified[s]))
      BY <3>4, <3>5, IncreasingPrefix
    <3>7. QED
      BY <2>4, <3>2, <3>6
  <2>7. QED
    BY <2>5, <2>6
<1>2. QED
  BY <1>1, UdInvariant, PTL

\* Under the same hypotheses: once the queues are empty, and if no copy was
\* dropped, every destination has been told of every packet.
THEOREM EveryMemberIsReached ==
    ASSUME FatTrees, 0 \notin PayloadSizes
    PROVE  Spec => []ReachesEveryMember
<1>1. UdInv => ReachesEveryMember
  <2>1. SUFFICES ASSUME UdInv, \A d \in DOMAIN queue : queue[d] = << >>, dropped = 0,
                        NEW s \in Destinations
                 PROVE  Psns(notified[s]) = Psns(transmitted)
    BY DEF ReachesEveryMember
  <2>2. RouteTypes /\ GroupInv /\ FlowTypes /\ BuildFirst /\ NothingLost
    BY <2>1 DEF UdInv, FlowInv
  <2>3. s \in Network.servers /\ s \in Receivers
    BY <2>2, FlowFacts, NetworkIs
  <2>4. CASE calls # << >>
    BY <2>2, <2>3, <2>4, EmptyFacts DEF BuildFirst
  <2>5. CASE calls = << >>
    <3> DEFINE S == {d \in Tree : InPsns(d) = Psns(transmitted)}
    <3>1. /\ Tree \subseteq devices /\ Nic \in Tree
          /\ \A e \in Tree : Outs[e] \subseteq Tree
      BY <2>2, FlowIsTree
    <3>2. \A d \in Tree : OutPsns(d) = InPsns(d)
      <4>1. SUFFICES ASSUME NEW d \in Tree PROVE OutPsns(d) = InPsns(d)
        OBVIOUS
      <4>2. queue[d] = << >> /\ OutPsns(d) \in Seq(Nat) /\ Log(d) = InPsns(d)
        BY <2>1, <2>2, <3>1, LogTypes DEF FlowTypes, NothingLost
      <4>3. OutPsns(d) \o << >> = OutPsns(d)
        BY <4>2
      <4>4. QED
        BY <4>2, <4>3, EmptyFacts DEF Log
    <3>3. Nic \in S
      <4>1. ~IsSwitchNode(Nic[1])
        BY <2>2, NicFacts, FlowFacts DEF IsSwitchNode, Network
      <4>2. QED
        BY <2>2, <3>1, <4>1, LogTypes
    <3>4. ASSUME NEW e \in S, NEW d \in Outs[e] PROVE d \in S
      <4>1. d \in Tree /\ d \in devices /\ e \in devices
        BY <3>1, <3>4
      <4>2. d[1] = e[2] /\ IsSwitchNode(e[2]) /\ IsSwitchNode(d[1])
        BY <2>2, <3>4, <4>1, OutsFacts, Ends
      <4>3. InPsns(d) = passed[d[1]] /\ OutPsns(e) = passed[e[2]]
        BY <2>2, <4>1, <4>2, LogTypes
      <4>4. QED
        BY <3>2, <3>4, <4>1, <4>2, <4>3
    <3>5. Tree \subseteq S
      <4>1. S \in SUBSET devices /\ \A e \in S : Outs[e] \subseteq S
        BY <3>1, <3>4
      <4> HIDE DEF S
      <4>2. QED
        BY <3>3, <4>1, TreeIsLeast DEF Tree
    <3>6. PICK d \in Tree : d[2] = s
      BY <2>2, <2>5, TreeReaches
    <3>7. OutPsns(d) = Psns(transmitted)
      BY <3>2, <3>5, <3>6
    <3>8. ~IsSwitchNode(d[2]) /\ d \in devices
      BY <2>3, <3>1, <3>6 DEF IsSwitchNode, Network
    <3>9. QED
      BY <2>2, <3>6, <3>7, <3>8, LogTypes
  <2>6. QED
    BY <2>4, <2>5
<1>2. QED
  BY <1>1, UdInvariant, PTL

-----------------------------------------------------------------------------
(* The networks that spineleaf.py generates.                               *)

Spines == 0 .. n_spines - 1
Leafs  == first_leaf .. first_server - 1

LEMMA SpineLeafNodes ==
    /\ Spines \subseteq Nat /\ Leafs \subseteq Nat /\ servers \subseteq Nat
    /\ Spines \intersect Leafs = {} /\ Spines \intersect servers = {} /\ Leafs \intersect servers = {}
    /\ Spines # {} /\ Leafs # {}
    /\ \A s \in servers : leaf_of_server(s) \in Leafs
    /\ \A l \in Leafs : \E s \in servers : leaf_of_server(s) = l
<1> DEFINE k == n_servers_per_leaf
<1>1. n_spines \in Nat \ {0} /\ n_leafs \in Nat \ {0} /\ k \in Nat \ {0}
  BY TopologyAssumption
<1>2. first_leaf = n_spines /\ first_server = n_leafs + n_spines /\ n_servers = k * n_leafs
  BY DEF first_leaf, first_server, n_servers
<1>3. n_servers \in Nat
  BY <1>1, <1>2
<1>4. /\ Spines \subseteq Nat /\ Leafs \subseteq Nat /\ servers \subseteq Nat
      /\ Spines \intersect Leafs = {} /\ Spines \intersect servers = {} /\ Leafs \intersect servers = {}
      /\ 0 \in Spines /\ first_leaf \in Leafs
  BY <1>1, <1>2, <1>3 DEF Spines, Leafs, servers
<1> HIDE DEF k
<1>5. ASSUME NEW s \in servers PROVE leaf_of_server(s) \in Leafs
  <2> DEFINE x == s - first_server
  <2>1. x \in Nat /\ x < k * n_leafs
    BY <1>1, <1>2, <1>3, <1>5 DEF servers
  <2> HIDE DEF x
  <2>2. x \div k \in Nat /\ x \div k < n_leafs
    <3>1. x \div k \in Nat
      BY <1>1, <2>1
    <3>2. x \div k < n_leafs
      BY <1>1, <2>1
    <3>3. QED
      BY <3>1, <3>2
  <2>3. leaf_of_server(s) = first_leaf + (x \div k)
    BY DEF leaf_of_server, x, k
  <2>4. QED
    BY <1>1, <1>2, <2>2, <2>3 DEF Leafs
<1>6. ASSUME NEW l \in Leafs PROVE \E s \in servers : leaf_of_server(s) = l
  <2> DEFINE m == l - first_leaf
             s == first_server + m * k
  <2>1. m \in Nat /\ m < n_leafs /\ l = first_leaf + m /\ l \in Nat
    BY <1>1, <1>2, <1>6 DEF Leafs
  <2> HIDE DEF m
  <2>2. m * k \in Nat /\ m * k < k * n_leafs
    <3>1. m * k \in Nat
      BY <1>1, <2>1
    <3>2. m * k < k * n_leafs
      BY <1>1, <2>1
    <3>3. QED
      BY <3>1, <3>2
  <2> DEFINE y == m * k
  <2>3. y \div k = m
    BY <1>1, <2>1
  <2>4. y \in Nat /\ y < n_servers
    BY <1>2, <2>2
  <2> HIDE DEF y
  <2>5. first_server + y \in servers /\ (first_server + y) - first_server = y
    BY <1>1, <1>2, <1>3, <2>4 DEF servers
  <2>6. leaf_of_server(first_server + y) = first_leaf + (y \div k)
    BY <2>5 DEF leaf_of_server, k
  <2>7. QED
    BY <2>1, <2>3, <2>5, <2>6
<1>7. QED
  BY <1>4, <1>5, <1>6

\* The devices: between leafs and spines, and between servers and their leafs.
UpPort(d)     == d[1] \in Leafs /\ d[2] \in Spines
SpinePort(d)  == d[1] \in Spines /\ d[2] \in Leafs
ServerPort(d) == d[2] \in servers /\ d[1] = leaf_of_server(d[2])
NicPort(d)    == d[1] \in servers /\ d[2] = leaf_of_server(d[1])

LEMMA TwoLevelsDevices ==
    /\ TwoLevels.servers = servers
    /\ \A d \in TwoLevels.devices :
           /\ d = <<d[1], d[2]>>
           /\ UpPort(d) \/ SpinePort(d) \/ ServerPort(d) \/ NicPort(d)
    /\ \A l \in Leafs, p \in Spines : <<l, p>> \in TwoLevels.devices /\ <<p, l>> \in TwoLevels.devices
    /\ \A s \in servers : /\ <<leaf_of_server(s), s>> \in TwoLevels.devices
                          /\ <<s, leaf_of_server(s)>> \in TwoLevels.devices
<1> DEFINE devs == TwoLevels.devices
<1>1. TwoLevels.servers = servers /\ devs = links \union {<<l[2], l[1]>> : l \in links}
  BY DEF TwoLevels, BothWays
<1>2. links = {<<l, p>> : l \in Leafs, p \in Spines} \union {<<leaf_of_server(s), s>> : s \in servers}
  BY DEF links, Leafs, Spines
<1> HIDE DEF devs
<1>3. ASSUME NEW d \in links PROVE d = <<d[1], d[2]>> /\ (UpPort(d) \/ ServerPort(d))
  BY <1>2, <1>3 DEF UpPort, ServerPort
<1>4. ASSUME NEW d \in devs
      PROVE  /\ d = <<d[1], d[2]>>
             /\ UpPort(d) \/ SpinePort(d) \/ ServerPort(d) \/ NicPort(d)
  <2>1. CASE d \in links
    BY <1>3, <2>1
  <2>2. CASE d \notin links
    <3>1. PICK l \in links : d = <<l[2], l[1]>>
      BY <1>1, <1>4, <2>2
    <3>2. d[1] = l[2] /\ d[2] = l[1]
      BY <3>1
    <3>3. UpPort(l) \/ ServerPort(l)
      BY <1>3
    <3>4. QED
      BY <3>1, <3>2, <3>3 DEF UpPort, ServerPort, SpinePort, NicPort
  <2>3. QED
    BY <2>1, <2>2
<1>5. ASSUME NEW l \in links PROVE l \in devs /\ <<l[2], l[1]>> \in devs
  BY <1>1
<1>6. ASSUME NEW l \in Leafs, NEW p \in Spines PROVE <<l, p>> \in devs /\ <<p, l>> \in devs
  <2>1. <<l, p>> \in links
    BY <1>2
  <2>2. <<l, p>>[1] = l /\ <<l, p>>[2] = p
    OBVIOUS
  <2>3. QED
    BY <1>5, <2>1, <2>2
<1>7. ASSUME NEW s \in servers
      PROVE  <<leaf_of_server(s), s>> \in devs /\ <<s, leaf_of_server(s)>> \in devs
  <2> DEFINE l == leaf_of_server(s)
  <2>1. <<l, s>> \in links
    BY <1>2
  <2> HIDE DEF l
  <2>2. <<l, s>>[1] = l /\ <<l, s>>[2] = s
    OBVIOUS
  <2>3. <<l, s>> \in devs /\ <<s, l>> \in devs
    BY <1>5, <2>1, <2>2
  <2>4. QED
    BY <2>3 DEF l
<1>8. QED
  BY <1>1, <1>4, <1>6, <1>7 DEF devs

LEMMA TwoLevelsIsNetwork ==
    /\ IsNetwork(TwoLevels)
    /\ Nodes(TwoLevels) = Spines \union Leafs \union servers
    /\ Switches(TwoLevels) = Spines \union Leafs
<1> DEFINE devs == TwoLevels.devices
           all == Spines \union Leafs \union servers
<1>1. \A d \in devs : d[1] \in all /\ d[2] \in all /\ d = <<d[1], d[2]>>
  BY TwoLevelsDevices, SpineLeafNodes DEF UpPort, SpinePort, ServerPort, NicPort
<1>2. all \subseteq Nat /\ IsFiniteSet(all)
  <2>1. IsFiniteSet(Spines) /\ IsFiniteSet(Leafs) /\ IsFiniteSet(servers)
    <3>1. /\ n_spines \in Int /\ first_leaf \in Int /\ first_server \in Int
          /\ n_servers \in Int
      BY TopologyAssumption DEF first_leaf, first_server, n_servers
    <3>2. QED
      BY <3>1, FS_Interval DEF Spines, Leafs, servers
  <2>2. QED
    BY <2>1, SpineLeafNodes, FS_Union
<1> HIDE DEF all
<1>3. devs \subseteq all \X all
  BY <1>1
<1>4. devs \subseteq Nat \X Nat /\ IsFiniteSet(devs)
  BY <1>2, <1>3, FS_Product, FS_Subset
<1>5. ASSUME NEW d \in devs PROVE Peer(d) \in devs
  <2>1. Peer(d) = <<d[2], d[1]>>
    BY DEF Peer
  <2>2. UpPort(d) \/ SpinePort(d) \/ ServerPort(d) \/ NicPort(d)
    BY TwoLevelsDevices
  <2>3. QED
    BY <2>1, <2>2, TwoLevelsDevices DEF UpPort, SpinePort, ServerPort, NicPort
<1>6. ASSUME NEW s \in TwoLevels.servers PROVE Cardinality({d \in devs : d[1] = s}) = 1
  <2> DEFINE nic == <<s, leaf_of_server(s)>>
  <2>1. s \in servers /\ nic \in devs
    BY <1>6, TwoLevelsDevices
  <2>2. ASSUME NEW d \in devs, d[1] = s PROVE d = nic
    <3>1. d = <<d[1], d[2]>> /\ (UpPort(d) \/ SpinePort(d) \/ ServerPort(d) \/ NicPort(d))
      BY TwoLevelsDevices
    <3>2. NicPort(d)
      BY <2>1, <2>2, <3>1, SpineLeafNodes DEF UpPort, SpinePort, ServerPort
    <3>3. QED
      BY <2>2, <3>1, <3>2 DEF NicPort
  <2>3. {d \in devs : d[1] = s} = {nic}
    <3>1. nic[1] = s
      OBVIOUS
    <3>2. QED
      BY <2>1, <2>2, <3>1
  <2>4. QED
    BY <2>3, FS_Singleton
<1>7. IsNetwork(TwoLevels)
  BY <1>4, <1>5, <1>6 DEF IsNetwork
<1>8. ASSUME NEW v \in all PROVE \E d \in devs : d[1] = v
  <2>1. CASE v \in servers
    <3>1. <<v, leaf_of_server(v)>> \in devs /\ <<v, leaf_of_server(v)>>[1] = v
      BY <2>1, TwoLevelsDevices
    <3>2. QED
      BY <3>1
  <2>2. CASE v \in Leafs
    <3>1. PICK p \in Spines : TRUE
      BY SpineLeafNodes
    <3>2. <<v, p>> \in devs /\ <<v, p>>[1] = v
      BY <2>2, TwoLevelsDevices
    <3>3. QED
      BY <3>2
  <2>3. CASE v \in Spines
    <3>1. PICK l \in Leafs : TRUE
      BY SpineLeafNodes
    <3>2. <<v, l>> \in devs /\ <<v, l>>[1] = v
      BY <2>3, TwoLevelsDevices
    <3>3. QED
      BY <3>2
  <2>4. QED
    BY <2>1, <2>2, <2>3 DEF all
<1>9. Nodes(TwoLevels) = all
  BY <1>1, <1>8 DEF Nodes
<1>10. Switches(TwoLevels) = Spines \union Leafs
  BY <1>9, TwoLevelsDevices, SpineLeafNodes DEF Switches, all
<1>11. QED
  BY <1>7, <1>9, <1>10 DEF all

LEMMA ThreeNodes ==
    Cardinality(Nodes(TwoLevels)) \in Nat /\ Cardinality(Nodes(TwoLevels)) >= 3
<1>1. PICK p \in Spines, l \in Leafs : TRUE
  BY SpineLeafNodes
<1>2. PICK s \in servers : leaf_of_server(s) = l
  BY SpineLeafNodes
<1>3. IsFiniteSet(Nodes(TwoLevels)) /\ {p, l, s} \subseteq Nodes(TwoLevels)
  BY <1>1, <1>2, TwoLevelsIsNetwork, NodesAreFinite
<1>4. l # p /\ s # p /\ s # l
  BY <1>1, <1>2, SpineLeafNodes
<1>5. IsFiniteSet({p}) /\ Cardinality({p}) = 1
  BY FS_Singleton
<1>6. IsFiniteSet({p} \union {l}) /\ Cardinality({p} \union {l}) = 2
  BY <1>4, <1>5, FS_AddElement
<1>7. IsFiniteSet(({p} \union {l}) \union {s}) /\ Cardinality(({p} \union {l}) \union {s}) = 3
  BY <1>4, <1>6, FS_AddElement
<1>8. ({p} \union {l}) \union {s} = {p, l, s}
  OBVIOUS
<1>9. Cardinality({p, l, s}) = 3
  BY <1>7, <1>8
<1>10. Cardinality({p, l, s}) <= Cardinality(Nodes(TwoLevels)) /\ Cardinality(Nodes(TwoLevels)) \in Nat
  BY <1>3, FS_Subset, FS_CardinalityType
<1>11. QED
  BY <1>9, <1>10

LEMMA TwoLevelsLayers ==
    /\ \A s \in servers : Level(TwoLevels)[s] = 0
    /\ \A l \in Leafs : Level(TwoLevels)[l] = 1
    /\ \A p \in Spines : Level(TwoLevels)[p] = 2
<1> DEFINE level == Level(TwoLevels)
           devs == TwoLevels.devices
           count == Cardinality(Nodes(TwoLevels))
<1>1. TwoLevels.servers = servers /\ servers \in SUBSET Nodes(TwoLevels)
  BY TwoLevelsDevices, TwoLevelsIsNetwork
<1>2. Measures(level, TwoLevels, servers, servers \union Nodes(TwoLevels))
  BY <1>1, TwoLevelsIsNetwork, DistanceMeasures DEF Level
<1>3. count \in Nat /\ count >= 3
  BY ThreeNodes
<1> HIDE DEF level, count
<1>4. /\ \A v \in Nodes(TwoLevels) : level[v] \in 0 .. count + 1 /\ (level[v] = 0 <=> v \in servers)
      /\ \A d \in devs : level[d[2]] <= level[d[1]] + 1
      /\ \A v \in Nodes(TwoLevels) :
             level[v] \in 1 .. count => \E d \in devs : d[2] = v /\ level[d[1]] = level[v] - 1
  BY <1>2, TwoLevelsIsNetwork, NodesAreFinite DEF Measures, count
<1>5. ASSUME NEW l \in Leafs PROVE level[l] = 1
  <2>1. PICK s \in servers : leaf_of_server(s) = l
    BY SpineLeafNodes
  <2>2. <<s, l>> \in devs /\ <<s, l>>[1] = s /\ <<s, l>>[2] = l
    BY <2>1, TwoLevelsDevices
  <2>3. level[s] = 0 /\ l \in Nodes(TwoLevels) /\ l \notin servers
    BY <1>1, <1>4, <1>5, TwoLevelsIsNetwork, SpineLeafNodes
  <2>4. level[l] <= level[s] + 1
    BY <1>4, <2>2
  <2>5. QED
    BY <1>3, <1>4, <2>3, <2>4
<1>6. ASSUME NEW p \in Spines PROVE level[p] = 2
  <2>1. PICK l \in Leafs : TRUE
    BY SpineLeafNodes
  <2>2. <<l, p>> \in devs /\ <<l, p>>[1] = l /\ <<l, p>>[2] = p
    BY <2>1, TwoLevelsDevices
  <2>3. level[l] = 1 /\ p \in Nodes(TwoLevels) /\ p \notin servers
    BY <1>5, <1>6, <2>1, TwoLevelsIsNetwork, SpineLeafNodes
  <2>4. level[p] <= level[l] + 1
    BY <1>4, <2>2
  <2>5. level[p] # 1
    <3>1. SUFFICES ASSUME level[p] = 1 PROVE FALSE
      OBVIOUS
    <3>2. level[p] \in 1 .. count /\ level[p] - 1 = 0
      BY <1>3, <3>1
    <3>3. PICK d \in devs : d[2] = p /\ level[d[1]] = 0
      BY <1>4, <2>3, <3>2
    <3>4. d[1] \in servers
      BY <1>4, <3>3, TwoLevelsIsNetwork, NodesAreFinite
    <3>5. UpPort(d)
      BY <1>6, <3>3, TwoLevelsDevices, SpineLeafNodes DEF SpinePort, ServerPort, NicPort
    <3>6. QED
      BY <3>4, <3>5, SpineLeafNodes DEF UpPort
  <2>6. QED
    BY <1>3, <1>4, <2>3, <2>4, <2>5
<1>7. \A s \in servers : level[s] = 0
  BY <1>1, <1>4
<1>8. QED
  BY <1>5, <1>6, <1>7 DEF level

LEMMA TwoLevelsLinks ==
    /\ IsLayered(TwoLevels)
    /\ Rebuild(TwoLevels) = {d \in TwoLevels.devices : UpPort(d)}
    /\ Downlinks(TwoLevels) = {d \in TwoLevels.devices : SpinePort(d) \/ ServerPort(d)}
<1> DEFINE level == Level(TwoLevels)
           devs == TwoLevels.devices
<1>1. ASSUME NEW d \in devs
      PROVE  /\ UpPort(d)     => level[d[1]] = 1 /\ level[d[2]] = 2 /\ d[1] \notin servers
             /\ SpinePort(d)  => level[d[1]] = 2 /\ level[d[2]] = 1 /\ d[1] \notin servers
             /\ ServerPort(d) => level[d[1]] = 1 /\ level[d[2]] = 0 /\ d[1] \notin servers
             /\ NicPort(d)    => level[d[1]] = 0 /\ level[d[2]] = 1 /\ d[1] \in servers
             /\ UpPort(d) \/ SpinePort(d) \/ ServerPort(d) \/ NicPort(d)
  BY TwoLevelsDevices, TwoLevelsLayers, SpineLeafNodes DEF UpPort, SpinePort, ServerPort, NicPort
<1> HIDE DEF level
<1>2. IsLayered(TwoLevels)
  <2>1. \A d \in devs : level[d[1]] # level[d[2]]
    BY <1>1
  <2>2. QED
    BY <2>1 DEF IsLayered, level, Level
<1>3. Rebuild(TwoLevels) = {d \in devs : d[1] \notin servers /\ level[d[2]] = level[d[1]] + 1}
  BY TwoLevelsDevices DEF Rebuild, level, Level
<1>4. Rebuild(TwoLevels) = {d \in devs : UpPort(d)}
  BY <1>1, <1>3
<1>5. \A d \in devs : d[1] \notin servers /\ ~UpPort(d) <=> SpinePort(d) \/ ServerPort(d)
  BY <1>1
<1>6. Downlinks(TwoLevels) = {d \in devs : SpinePort(d) \/ ServerPort(d)}
  BY <1>4, <1>5, TwoLevelsDevices DEF Downlinks
<1>7. QED
  BY <1>2, <1>4, <1>6

LEMMA TwoLevelsRoutes == HasRoutes(TwoLevels)
<1>1. SUFFICES ASSUME NEW host \in servers, NEW v \in Switches(TwoLevels)
               PROVE  BuildRoute(TwoLevels, host)[v] # {}
  BY TwoLevelsDevices DEF HasRoutes
<1> DEFINE away == Away(TwoLevels, host)
           devs == TwoLevels.devices
           sws == Switches(TwoLevels)
           count == Cardinality(Nodes(TwoLevels))
           home == leaf_of_server(host)
<1>2. /\ sws = Spines \union Leafs /\ {host} \in SUBSET Nodes(TwoLevels)
      /\ sws \subseteq Nodes(TwoLevels) /\ host \notin sws /\ home \in Leafs
      /\ <<host, home>> \in devs
  BY <1>1, TwoLevelsIsNetwork, TwoLevelsDevices, SpineLeafNodes
<1>3. Measures(away, TwoLevels, {host}, {host} \union sws)
  BY <1>2, TwoLevelsIsNetwork, DistanceMeasures DEF Away
<1>4. count \in Nat /\ count >= 3
  BY ThreeNodes
<1> HIDE DEF away, count, sws, home
<1>5. /\ \A x \in Nodes(TwoLevels) : away[x] \in 0 .. count + 1 /\ (away[x] = 0 <=> x = host)
      /\ \A d \in devs : d[1] \in {host} \union sws => away[d[2]] <= away[d[1]] + 1
      /\ \A x \in Nodes(TwoLevels) : away[x] \in 1 .. count =>
             \E d \in devs : d[2] = x /\ d[1] \in {host} \union sws /\ away[d[1]] = away[x] - 1
  BY <1>3 DEF Measures, count
<1>6. \A x \in Nodes(TwoLevels) : away[x] \in Nat
  BY <1>4, <1>5
<1>7. away[home] <= 1
  <2>1. away[host] = 0 /\ <<host, home>>[1] = host /\ <<host, home>>[2] = home
    BY <1>2, <1>5
  <2>2. away[home] <= away[host] + 1
    BY <1>2, <1>5, <2>1
  <2>3. QED
    BY <2>1, <2>2
<1>8. ASSUME NEW p \in Spines PROVE away[p] <= 2
  <2>1. <<home, p>> \in devs /\ <<home, p>>[1] = home /\ <<home, p>>[2] = p /\ home \in sws
    BY <1>2, TwoLevelsDevices
  <2>2. away[p] <= away[home] + 1
    BY <1>5, <2>1
  <2>3. away[home] \in Nat /\ away[p] \in Nat
    BY <1>2, <1>6
  <2>4. QED
    BY <1>7, <2>2, <2>3
<1>9. ASSUME NEW l \in Leafs PROVE away[l] <= 3
  <2>1. PICK p \in Spines : TRUE
    BY SpineLeafNodes
  <2>2. <<p, l>> \in devs /\ <<p, l>>[1] = p /\ <<p, l>>[2] = l /\ p \in sws
    BY <1>2, <2>1, TwoLevelsDevices
  <2>3. away[l] <= away[p] + 1
    BY <1>5, <2>2
  <2>4. away[l] \in Nat /\ away[p] \in Nat /\ away[p] <= 2
    BY <1>2, <1>6, <1>8
  <2>5. QED
    BY <2>3, <2>4
<1>10. away[v] \in 1 .. count
  <2>1. v \in Nodes(TwoLevels) /\ v # host /\ (v \in Spines \/ v \in Leafs)
    BY <1>1, <1>2 DEF sws
  <2>2. away[v] \in Nat /\ away[v] # 0 /\ away[v] <= 3
    BY <1>5, <1>6, <1>8, <1>9, <2>1
  <2>3. QED
    BY <1>4, <2>2
<1>11. PICK d \in devs : d[2] = v /\ d[1] \in {host} \union sws /\ away[d[1]] = away[v] - 1
  <2>1. v \in Nodes(TwoLevels)
    BY <1>2 DEF sws
  <2>2. QED
    BY <1>5, <1>10, <2>1
<1>12. Peer(d) \in devs /\ Peer(d)[1] = v /\ Peer(d)[2] = d[1]
  BY <1>11, TwoLevelsIsNetwork DEF IsNetwork, Peer
<1>13. away[v] = away[Peer(d)[2]] + 1
  BY <1>10, <1>11, <1>12
<1>14. Peer(d) \in BuildRoute(TwoLevels, host)[v]
  BY <1>1, <1>11, <1>12, <1>13 DEF BuildRoute, away, Away, sws
<1>15. QED
  BY <1>14

\* A leaf has its servers below it, a spine all leafs and servers.
BelowTwoLevels ==
    [v \in Nodes(TwoLevels) |->
        {v} \union (IF v \in Leafs THEN {s \in servers : leaf_of_server(s) = v} ELSE {})
            \union (IF v \in Spines THEN Leafs \union servers ELSE {})]

LEMMA TwoLevelsIsFatTree ==
    /\ BelowTwoLevels \in [Nodes(TwoLevels) -> SUBSET Nodes(TwoLevels)]
    /\ IsFatTree(TwoLevels, BelowTwoLevels)
<1> DEFINE devs == TwoLevels.devices
           nodes == Nodes(TwoLevels)
           below == BelowTwoLevels
           down == Downlinks(TwoLevels)
<1>1. /\ nodes = Spines \union Leafs \union servers
      /\ Spines \intersect Leafs = {} /\ Spines \intersect servers = {} /\ Leafs \intersect servers = {}
      /\ \A s \in servers : leaf_of_server(s) \in Leafs
  BY TwoLevelsIsNetwork, SpineLeafNodes
<1>2. \A d \in down : d \in devs /\ d = <<d[1], d[2]>> /\ (SpinePort(d) \/ ServerPort(d))
  BY TwoLevelsLinks, TwoLevelsDevices
<1>3. /\ \A l \in Leafs, p \in Spines : <<p, l>> \in down
      /\ \A s \in servers : <<leaf_of_server(s), s>> \in down
  <2>1. ASSUME NEW l \in Leafs, NEW p \in Spines PROVE <<p, l>> \in down
    <3>1. <<p, l>> \in devs /\ SpinePort(<<p, l>>)
      BY TwoLevelsDevices DEF SpinePort
    <3>2. QED
      BY <3>1, TwoLevelsLinks
  <2>2. ASSUME NEW s \in servers PROVE <<leaf_of_server(s), s>> \in down
    <3>1. <<leaf_of_server(s), s>> \in devs /\ ServerPort(<<leaf_of_server(s), s>>)
      BY TwoLevelsDevices DEF ServerPort
    <3>2. QED
      BY <3>1, TwoLevelsLinks
  <2>3. QED
    BY <2>1, <2>2
<1>4. /\ below \in [nodes -> SUBSET nodes]
      /\ \A s \in servers : below[s] = {s}
      /\ \A l \in Leafs : below[l] = {l} \union {s \in servers : leaf_of_server(s) = l}
      /\ \A p \in Spines : below[p] = {p} \union Leafs \union servers
  BY <1>1 DEF BelowTwoLevels
<1> HIDE DEF down, below, nodes
<1>5. ASSUME NEW v \in nodes, NEW w \in nodes
      PROVE  w \in below[v] <=> w = v \/ \E d \in down : d[1] = v /\ w \in below[d[2]]
  <2>1. CASE v \in servers
    <3>1. \A d \in down : d[1] # v
      BY <1>1, <1>2, <2>1 DEF SpinePort, ServerPort
    <3>2. QED
      BY <1>4, <2>1, <3>1
  <2>2. CASE v \in Leafs
    <3>1. ASSUME w \in below[v], w # v PROVE \E d \in down : d[1] = v /\ w \in below[d[2]]
      <4>1. w \in servers /\ leaf_of_server(w) = v
        BY <1>4, <2>2, <3>1
      <4>2. <<v, w>> \in down /\ <<v, w>>[1] = v /\ <<v, w>>[2] = w
        BY <1>3, <4>1
      <4>3. w \in below[w]
        BY <1>4, <4>1
      <4>4. QED
        BY <4>2, <4>3
    <3>2. ASSUME NEW d \in down, d[1] = v, w \in below[d[2]] PROVE w \in below[v]
      <4>1. ServerPort(d)
        BY <1>1, <1>2, <2>2, <3>2 DEF SpinePort
      <4>2. w \in servers /\ leaf_of_server(w) = v
        BY <1>4, <3>2, <4>1 DEF ServerPort
      <4>3. QED
        BY <1>4, <2>2, <4>2
    <3>3. v \in below[v]
      BY <1>4, <2>2
    <3>4. QED
      BY <3>1, <3>2, <3>3
  <2>3. CASE v \in Spines
    <3>1. ASSUME w \in below[v], w # v PROVE \E d \in down : d[1] = v /\ w \in below[d[2]]
      <4>1. PICK l \in Leafs : w \in below[l]
        <5>1. CASE w \in Leafs
          BY <1>4, <5>1
        <5>2. CASE w \in servers
          BY <1>1, <1>4, <5>2
        <5>3. QED
          BY <1>4, <2>3, <3>1, <5>1, <5>2
      <4>2. <<v, l>> \in down /\ <<v, l>>[1] = v /\ <<v, l>>[2] = l
        BY <1>3, <2>3
      <4>3. QED
        BY <4>1, <4>2
    <3>2. ASSUME NEW d \in down, d[1] = v, w \in below[d[2]] PROVE w \in below[v]
      <4>1. SpinePort(d)
        BY <1>1, <1>2, <2>3, <3>2 DEF ServerPort
      <4>2. w \in Leafs \/ w \in servers
        BY <1>4, <3>2, <4>1 DEF SpinePort
      <4>3. QED
        BY <1>4, <2>3, <4>2
    <3>3. v \in below[v]
      BY <1>4, <2>3
    <3>4. QED
      BY <3>1, <3>2, <3>3
  <2>4. QED
    BY <1>1, <2>1, <2>2, <2>3
<1>6. ASSUME NEW d \in down, NEW e \in down, d[1] = e[1], d # e
      PROVE  below[d[2]] \intersect below[e[2]] = {}
  <2>1. d[2] # e[2]
    BY <1>2, <1>6
  <2>2. CASE SpinePort(d)
    <3>1. SpinePort(e)
      BY <1>1, <1>2, <1>6, <2>2 DEF SpinePort, ServerPort
    <3>2. QED
      BY <1>1, <1>4, <2>1, <2>2, <3>1 DEF SpinePort
  <2>3. CASE ServerPort(d)
    <3>1. ServerPort(e)
      BY <1>1, <1>2, <1>6, <2>3 DEF SpinePort, ServerPort
    <3>2. QED
      BY <1>4, <2>1, <2>3, <3>1 DEF ServerPort
  <2>4. QED
    BY <1>2, <2>2, <2>3
<1>7. ASSUME NEW v \in Switches(TwoLevels), \A d \in Rebuild(TwoLevels) : d[1] # v
      PROVE  servers \subseteq below[v]
  <2>1. v \notin Leafs
    <3>1. SUFFICES ASSUME v \in Leafs PROVE FALSE
      OBVIOUS
    <3>2. PICK p \in Spines : TRUE
      BY SpineLeafNodes
    <3>3. <<v, p>> \in devs /\ <<v, p>>[1] = v /\ UpPort(<<v, p>>)
      BY <3>1, TwoLevelsDevices DEF UpPort
    <3>4. <<v, p>> \in Rebuild(TwoLevels)
      BY <3>3, TwoLevelsLinks
    <3>5. QED
      BY <1>7, <3>3, <3>4
  <2>2. v \in Spines
    BY <2>1, TwoLevelsIsNetwork
  <2>3. QED
    BY <1>4, <2>2
<1>8. IsFatTree(TwoLevels, below)
  BY <1>5, <1>6, <1>7, TwoLevelsDevices DEF IsFatTree, down, nodes
<1>9. QED
  BY <1>4, <1>8 DEF below, nodes

\* Whatever numbers of spines, leafs and servers spineleaf.py is given, its
\* network is layered and a fat tree, and has a route to each server: where all
\* networks are from there, NetworksAssumption and FatTrees hold.
THEOREM SpineLeafIsFatTree ==
    /\ TwoLevels.devices \subseteq Nat \X Nat /\ IsFiniteSet(TwoLevels.devices)
    /\ \A d \in TwoLevels.devices : Peer(d) \in TwoLevels.devices
    /\ \A s \in TwoLevels.servers : Cardinality({d \in TwoLevels.devices : d[1] = s}) = 1
    /\ IsLayered(TwoLevels)
    /\ (\A n \in DOMAIN Topology : Topology[n] = TwoLevels) => FatTrees
<1>1. IsNetwork(TwoLevels) /\ IsLayered(TwoLevels) /\ HasRoutes(TwoLevels)
  BY TwoLevelsIsNetwork, TwoLevelsLinks, TwoLevelsRoutes
<1>2. \E below \in [Nodes(TwoLevels) -> SUBSET Nodes(TwoLevels)] : IsFatTree(TwoLevels, below)
  BY TwoLevelsIsFatTree
<1>3. QED
  BY <1>1, <1>2 DEF IsNetwork, FatTrees
=============================================================================
