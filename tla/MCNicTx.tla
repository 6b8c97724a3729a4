------------------------------ MODULE MCNicTx ------------------------------
(* Values of the function-valued constants of NicTx. *)
EXTENDS NicTx, TLC

CONSTANTS rc, ud, new

\* A reliable queue pair paced by DCQCN and an unreliable one at line rate.
TwoPrios == (rc :> 3) @@ (ud :> 4)
TwoGaps  == (rc :> {1, 2}) @@ (ud :> {1})

OnePrio  == [qp \in Qps |-> 3]
LineRate == [qp \in Qps |-> {1}]
=============================================================================
