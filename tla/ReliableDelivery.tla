-------------------------- MODULE ReliableDelivery --------------------------
(***************************************************************************)
(* What a reliable (RC) queue pair promises its two users.  The posting    *)
(* side hands over requests, numbered in posting order.  The receiving     *)
(* side is notified of each of them once, in that order.  The posting side *)
(* is told that a request is complete only after the receiving side got    *)
(* it.  Packets, acknowledgements and timers do not appear here.           *)
(***************************************************************************)
EXTENDS Naturals, Sequences

VARIABLES posted,     \* how many requests were posted
          notified,   \* the request numbers given to m_onRecv, in order
          finished    \* how many requests had their on_send callback called

avars == <<posted, notified, finished>>

Init ==
    /\ posted = 0
    /\ notified = << >>
    /\ finished = 0

Post ==
    /\ posted' = posted + 1
    /\ UNCHANGED <<notified, finished>>

Notify ==
    /\ Len(notified) < posted
    /\ notified' = Append(notified, Len(notified) + 1)
    /\ UNCHANGED <<posted, finished>>

\* One cumulative acknowledgement may complete several requests.
Finish ==
    /\ finished' \in (finished + 1) .. Len(notified)
    /\ UNCHANGED <<posted, notified>>

Next == Post \/ Notify \/ Finish

Spec == Init /\ [][Next]_avars
=============================================================================
