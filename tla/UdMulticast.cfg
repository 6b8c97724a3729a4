\* Every flow of server 4 and every election of two fat trees, one dropped copy.
CONSTANTS
    n_spines = 2
    n_leafs = 2
    n_servers_per_leaf = 2
    Topology <- BothNetworks
    Receivers = {4, 5, 6, 7}
    Hashes = {0, 1}
    MaxDrops = 1
    MTU = 2
    PayloadSizes = {1, 3}
    Imms = {7}
    Sources = {4}
    MaxPosts = 2
SPECIFICATION Spec
INVARIANTS DeliveredInOrderOnce ReachesEveryMember NoSwitchSeesTwice
CHECK_DEADLOCK FALSE
