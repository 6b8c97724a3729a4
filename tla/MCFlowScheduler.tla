-------------------------- MODULE MCFlowScheduler --------------------------
(* Instances of FlowScheduler for TLC. *)
EXTENDS FlowScheduler

None(S) == [f \in S |-> {}]

\* A unicast, a background flow, a phase with two chains of two sources, a
\* multicast that completes at once, and two flows that wait for others.
GraphListed == <<"u", "b", "p", "i", "v", "x">>
GraphChains == [p \in {"p"} |-> << <<"m1", "w1", "m2", "w2">>, <<"m3", "w3", "m4", "w4">> >>]
GraphAdded == [p \in {"p"} |-> FlattenSeq(GraphChains[p])]
GraphDependencies == [None(Range(GraphListed)) EXCEPT !["p"] = {"u"}, !["v"] = {"u", "p", "i"},
                                                       !["x"] = {"v", "b"}]
GraphStart == [u |-> 0, b |-> 0, p |-> 1, i |-> 1, v |-> 2, x |-> 0]
GraphWrites == [f \in {"u", "b", "i", "v", "x", "m1", "w1", "m2", "w2", "m3", "w3", "m4", "w4"} |-> 1]

\* The hypothesis of the theorems on FlowScheduler.
ASSUME HypothesisHolds == StartsApart
=============================================================================
