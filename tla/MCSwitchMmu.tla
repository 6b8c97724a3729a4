---------------------------- MODULE MCSwitchMmu ----------------------------
(* Values of the function-valued constants of SwitchMmu. *)
EXTENDS SwitchMmu

SmallHeadroom == [port \in Ports |-> 3]
\* alpha is 1/2, or 1 for the fast port 1.
FastUplink == [port \in Ports |-> IF port = 1 THEN 1 ELSE 2]

\* A multicast packet may go to any ports, or to none: the flood of joins tells a
\* leaf without members of its uplinks, and what comes from one goes to no other.
AnyPorts == SUBSET Ports

\* The hypothesis of the theorem on BufferRespected.
ASSUME HypothesisHolds == BufferIsConfigured
=============================================================================
