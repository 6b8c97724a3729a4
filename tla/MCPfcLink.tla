----------------------------- MODULE MCPfcLink -----------------------------
(* Values of the function-valued constants of PfcLink. *)
EXTENDS PfcLink

\* The packet that causes the PAUSE, the LinkCap - 1 packets behind it, and
\* the LinkCap + 1 packets sent before the PAUSE arrives.
CoveringHeadroom == [port \in Ports |-> 2 * LinkCap + 1]
UniformDivisor   == [port \in Ports |-> 2]

\* The hypothesis of the theorem on NothingIsDropped.
ASSUME HypothesisHolds == HeadroomCovers
=============================================================================
