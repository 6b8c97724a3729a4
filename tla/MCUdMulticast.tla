--------------------------- MODULE MCUdMulticast ---------------------------
(***************************************************************************)
(* The networks of UdMulticast's runs: one that spineleaf.py generates,    *)
(* and a fat tree of three levels, where one leaf is alone in its pod.     *)
(***************************************************************************)
EXTENDS UdMulticast, SpineLeaf

ThreeLevels ==
    LET cores == {20, 21}
        pods  == {[aggs |-> {14, 15}, leafs |-> {10, 11}], [aggs |-> {16, 17}, leafs |-> {12}]}
    IN  [servers |-> {4, 5, 6},
         devices |-> BothWays({<<4, 10>>, <<5, 11>>, <<6, 12>>}
                         \union UNION {pod.leafs \X pod.aggs : pod \in pods}
                         \union {<<agg, 20 + (agg % 2)>> : agg \in 14 .. 17})]

BothNetworks == [two |-> TwoLevels, three |-> ThreeLevels]

\* Going down takes three steps at most.
Below(nw) ==
    LET down     == Downlinks(nw)
        next(vs) == vs \union {d[2] : d \in {e \in down : e[1] \in vs}}
    IN  [v \in Nodes(nw) |-> next(next(next({v})))]

Belows == [n \in DOMAIN Topology |-> Below(Topology[n])]

\* The hypotheses of the theorems in UdMulticastProofs.
ASSUME NetworksAreFatTrees ==
    \A n \in DOMAIN Topology :
        IsFatTree(Topology[n], Belows[n]) /\ HasRoutes(Topology[n])
ASSUME PayloadsArePositive == 0 \notin PayloadSizes
=============================================================================
