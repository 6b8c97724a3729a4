----------------------------- MODULE FlowGraph -----------------------------
(***************************************************************************)
(* What the flow scheduler promises: every flow runs once, when the flows  *)
(* it depends on have completed, and the end is only announced while no    *)
(* foreground flow runs.                                                   *)
(***************************************************************************)
CONSTANTS
    Flow,
    Needs,       \* the flows that each flow depends on
    Foreground   \* the flows that keep the simulation running

VARIABLES
    waiting,     \* flows that have not run yet
    done,        \* flows that have completed
    announced    \* has the end been announced?

vars == <<waiting, done, announced>>

Init ==
    /\ waiting = Flow
    /\ done = {}
    /\ announced = FALSE

Running == Flow \ (waiting \union done)

Run(f) ==
    /\ f \in waiting
    /\ Needs[f] \subseteq done
    /\ waiting' = waiting \ {f}
    /\ UNCHANGED <<done, announced>>

Complete(f) ==
    /\ f \in Running
    /\ done' = done \union {f}
    /\ UNCHANGED <<waiting, announced>>

\* A flow that completes as soon as it runs.
RunAndComplete(f) ==
    /\ f \in waiting
    /\ Needs[f] \subseteq done
    /\ waiting' = waiting \ {f}
    /\ done' = done \union {f}
    /\ UNCHANGED announced

Announce ==
    /\ Running \intersect Foreground = {}
    /\ announced' = TRUE
    /\ UNCHANGED <<waiting, done>>

Next ==
    \/ \E f \in Flow : Run(f) \/ Complete(f) \/ RunAndComplete(f)
    \/ Announce

Spec == Init /\ [][Next]_vars
=============================================================================
