----------------------------- MODULE SpineLeaf -----------------------------
(***************************************************************************)
(* The two-level fat trees that spineleaf.py generates.  Node ids are      *)
(* those of the JSON file: the spines, then the leafs, then the servers.   *)
(***************************************************************************)
EXTENDS Naturals

CONSTANTS n_spines, n_leafs, n_servers_per_leaf

ASSUME TopologyAssumption == {n_spines, n_leafs, n_servers_per_leaf} \subseteq Nat \ {0}

n_servers    == n_servers_per_leaf * n_leafs
first_leaf   == n_spines
first_server == n_leafs + n_spines

servers  == first_server .. first_server + n_servers - 1
switches == 0 .. first_server - 1

leaf_of_server(server) == first_leaf + (server - first_server) \div n_servers_per_leaf

\* Each leaf is linked to each spine, and each server to its leaf.
links ==
    {<<leaf, spine>> : leaf \in first_leaf .. first_server - 1, spine \in 0 .. n_spines - 1}
        \union {<<leaf_of_server(server), server>> : server \in servers}

\* A device at each end of a link.
BothWays(ls) == ls \union {<<l[2], l[1]>> : l \in ls}

TwoLevels == [servers |-> servers, devices |-> BothWays(links)]
=============================================================================
