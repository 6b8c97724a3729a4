--------------------------- MODULE ReliableQPLive ---------------------------
(***************************************************************************)
(* Liveness of ReliableQP on a path that stops losing packets at some      *)
(* time.  The moment needs a variable of its own: a packet the receive     *)
(* queue ignores and a packet the path loses are the same step of          *)
(* ReliableQP.                                                             *)
(***************************************************************************)
EXTENDS ReliableQP

VARIABLE lossy   \* may the path still lose packets?

LiveInit == Init /\ lossy = TRUE

LiveNext ==
    \/ Step /\ UNCHANGED lossy
    \/ lossy /\ Lose /\ UNCHANGED lossy
    \/ lossy /\ lossy' = FALSE /\ UNCHANGED vars

\* The NIC serves a ready queue (round robin), the path delivers what it does
\* not lose, and a scheduled event runs.  Posting is up to the application.
Fairness ==
    /\ WF_vars(GetNextPacket)
    /\ WF_vars(ReceiveUdp)
    /\ WF_vars(ReceiveAck)
    /\ WF_vars(OnRetrTimeout)
    /\ WF_vars(NackTimerElapses)

LiveSpec == LiveInit /\ [][LiveNext]_<<vars, lossy>> /\ Fairness

\* If the path loses only finitely many packets, every posted message
\* completes: its on_send callback is called (NotifyPendingCompEvents).
EveryRequestCompletes ==
    <>~lossy => \A k \in 1 .. MaxPsn : [](Len(requests) >= k => <>(completed >= k))
=============================================================================
