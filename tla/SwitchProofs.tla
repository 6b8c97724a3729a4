---------------------------- MODULE SwitchProofs ----------------------------
(***************************************************************************)
(* Proofs about a switch, for any number of ports and priorities, any      *)
(* packet sizes, thresholds and headrooms, alone (SwitchMmu) and then with *)
(* the links to its neighbours (PfcLink), of any length.                   *)
(*                                                                         *)
(* Of SwitchMmu:                                                           *)
(*  HInv      the headroom is respected, and its users are paused;         *)
(*  AccInv    the counters agree with the queues, by sums over the queues  *)
(*            (SumTheorems), so that none of them underflows, and only a   *)
(*            multicast of which no copy was made strands a neighbour;     *)
(*  PauseInv  the frames on their way to a neighbour alternate, so that    *)
(*            both sides will agree on who is paused;                      *)
(*  PoolInv   the shared memory in use, and so all packets, fit.           *)
(*                                                                         *)
(* Of PfcLink: PFC is lossless.  If the headroom of every port covers what *)
(* a link can still bring, no packet of a neighbour that respects PFC is   *)
(* dropped.  The packets that the headroom must hold are those in it,      *)
(* those on the wire, and those that the neighbour may send before it gets *)
(* the PAUSE.  Together they can only become fewer while it is paused.     *)
(***************************************************************************)
EXTENDS PfcLink, SumTheorems, SequenceTheorems, TLAPS
-----------------------------------------------------------------------------
(* SwitchMmu.                                                              *)

\* The types the safety proofs need.
WeakTypes ==
    /\ hdrm_bytes \in [Ports -> [Prios -> Nat]]
    /\ ingress_bytes \in [Ports -> [Prios -> Int]]
    /\ shared_used_bytes \in Int
    /\ paused \in [Ports -> [Prios -> BOOLEAN]]
    /\ queues \in [Ports -> [Prios -> Seq(Packet)]]
    /\ multicast \in Multicast

HInv == WeakTypes /\ HeadroomRespected /\ HeadroomUseIsPaused

LEMMA ThresholdIsInt ==
    ASSUME shared_used_bytes \in Int, NEW port \in Ports
    PROVE  GetPfcThreshold(port) \in Int
  BY MemoryAssumption DEF GetPfcThreshold

\* The headroom is charged only within its limit: a packet admitted on account
\* of the shared memory is not charged to the headroom.
LEMMA UpdateRespectsHeadroom ==
    ASSUME WeakTypes, HeadroomRespected,
           NEW port \in Ports, NEW q \in Prios, NEW psize \in Sizes,
           CheckIngressAdmission(port, q, psize),
           UpdateIngressAdmission(port, q, psize)
    PROVE  /\ hdrm_bytes' \in [Ports -> [Prios -> Nat]]
           /\ ingress_bytes' \in [Ports -> [Prios -> Int]]
           /\ shared_used_bytes' \in Int
           /\ HeadroomRespected'
           /\ \A p \in Ports, r \in Prios :
                 hdrm_bytes'[p][r] # hdrm_bytes[p][r] => p = port /\ r = q
<1> DEFINE new_bytes == ingress_bytes[port][q] + psize
           thresh    == GetPfcThreshold(port)
           fits      == \/ new_bytes <= Reserve
                        \/ new_bytes - Reserve <= thresh
           shared    == IF new_bytes <= Reserve THEN 0
                                                ELSE MinOf(psize, new_bytes - Reserve)
<1>1. /\ psize \in Nat
      /\ hdrm_bytes[port][q] \in Nat /\ ingress_bytes[port][q] \in Int
      /\ thresh \in Int /\ headroom[port] \in Nat /\ Reserve \in Nat
  BY PortsAssumption, MemoryAssumption, ThresholdIsInt DEF WeakTypes
<1>2. \/ /\ fits
         /\ ingress_bytes' = [ingress_bytes EXCEPT ![port][q] = new_bytes]
         /\ shared_used_bytes' = shared_used_bytes + shared
         /\ hdrm_bytes' = hdrm_bytes
      \/ /\ ~fits
         /\ hdrm_bytes' = [hdrm_bytes EXCEPT ![port][q] = @ + psize]
         /\ UNCHANGED <<ingress_bytes, shared_used_bytes>>
  BY DEF UpdateIngressAdmission
<1>3. CASE fits /\ hdrm_bytes' = hdrm_bytes
           /\ ingress_bytes' = [ingress_bytes EXCEPT ![port][q] = new_bytes]
           /\ shared_used_bytes' = shared_used_bytes + shared
  <2>1. shared \in Int
    BY <1>1 DEF MinOf
  <2>2. HeadroomRespected'
    BY <1>3 DEF HeadroomRespected
  <2>3. QED
    BY <1>1, <1>3, <2>1, <2>2 DEF WeakTypes
<1>4. CASE /\ ~fits
           /\ hdrm_bytes' = [hdrm_bytes EXCEPT ![port][q] = @ + psize]
           /\ UNCHANGED <<ingress_bytes, shared_used_bytes>>
  <2>1. ~(psize + GetSharedUsed(port, q) <= thresh)
    BY <1>1, <1>4 DEF GetSharedUsed
  <2>2. psize + hdrm_bytes[port][q] <= headroom[port]
    BY <2>1 DEF CheckIngressAdmission
  <2>3. ASSUME NEW p \in Ports, NEW r \in Prios
        PROVE  /\ hdrm_bytes'[p][r] <= headroom[p]
               /\ hdrm_bytes'[p][r] # hdrm_bytes[p][r] => p = port /\ r = q
    <3>1. CASE p = port /\ r = q
      BY <1>1, <1>4, <2>2, <3>1 DEF WeakTypes
    <3>2. CASE ~(p = port /\ r = q)
      <4>1. hdrm_bytes'[p][r] = hdrm_bytes[p][r]
        BY <1>4, <3>2 DEF WeakTypes
      <4>2. QED
        BY <3>2, <4>1 DEF HeadroomRespected
    <3>3. QED
      BY <3>1, <3>2
  <2>4. QED
    BY <1>1, <1>4, <2>3 DEF HeadroomRespected, WeakTypes
<1>5. QED
  BY <1>2, <1>3, <1>4

\* Releasing a packet never adds to the headroom.
LEMMA RemoveRespectsHeadroom ==
    ASSUME WeakTypes, HeadroomRespected,
           NEW port \in Ports, NEW q \in Prios, NEW psize \in Sizes,
           RemoveFromIngressAdmission(port, q, psize)
    PROVE  /\ hdrm_bytes' \in [Ports -> [Prios -> Nat]]
           /\ ingress_bytes' \in [Ports -> [Prios -> Int]]
           /\ shared_used_bytes' \in Int
           /\ HeadroomRespected'
           /\ \A p \in Ports, r \in Prios : hdrm_bytes'[p][r] <= hdrm_bytes[p][r]
<1> DEFINE from_hdrm   == MinOf(hdrm_bytes[port][q], psize)
           from_shared == MinOf(psize - from_hdrm, GetSharedUsed(port, q))
<1>1. /\ psize \in Nat
      /\ hdrm_bytes[port][q] \in Nat /\ ingress_bytes[port][q] \in Int
      /\ headroom[port] \in Nat /\ Reserve \in Nat
  BY PortsAssumption, MemoryAssumption DEF WeakTypes
<1>2. from_hdrm \in Nat /\ from_hdrm <= hdrm_bytes[port][q]
  BY <1>1 DEF MinOf
<1>3. from_shared \in Int
  BY <1>1, <1>2 DEF MinOf, GetSharedUsed
<1>4. /\ hdrm_bytes' = [hdrm_bytes EXCEPT ![port][q] = @ - from_hdrm]
      /\ ingress_bytes' = [ingress_bytes EXCEPT ![port][q] = @ - (psize - from_hdrm)]
      /\ shared_used_bytes' = shared_used_bytes - from_shared
  BY DEF RemoveFromIngressAdmission
<1> HIDE DEF from_hdrm, from_shared
<1>5. /\ hdrm_bytes' \in [Ports -> [Prios -> Nat]]
      /\ ingress_bytes' \in [Ports -> [Prios -> Int]]
      /\ shared_used_bytes' \in Int
  BY <1>1, <1>2, <1>3, <1>4 DEF WeakTypes
<1>6. ASSUME NEW p \in Ports, NEW r \in Prios
      PROVE  /\ hdrm_bytes'[p][r] <= hdrm_bytes[p][r]
             /\ hdrm_bytes'[p][r] <= headroom[p]
  <2>1. /\ hdrm_bytes[p][r] \in Nat /\ hdrm_bytes'[p][r] \in Nat
        /\ headroom[p] \in Nat /\ hdrm_bytes[p][r] <= headroom[p]
    BY <1>5, MemoryAssumption DEF WeakTypes, HeadroomRespected
  <2>2. hdrm_bytes'[p][r] <= hdrm_bytes[p][r]
    <3>1. CASE p = port /\ r = q
      BY <1>1, <1>2, <1>4, <2>1, <3>1 DEF WeakTypes
    <3>2. CASE ~(p = port /\ r = q)
      <4>1. hdrm_bytes'[p][r] = hdrm_bytes[p][r]
        BY <1>4, <3>2 DEF WeakTypes
      <4>2. QED
        BY <2>1, <4>1
    <3>3. QED
      BY <3>1, <3>2
  <2>3. QED
    BY <2>1, <2>2
<1>7. QED
  BY <1>5, <1>6 DEF HeadroomRespected

LEMMA HInvInit == Init => HInv
<1> SUFFICES ASSUME Init PROVE HInv
  OBVIOUS
<1>1. WeakTypes
  BY DEF Init, WeakTypes, NoMulticast, Multicast
<1>2. HeadroomRespected /\ HeadroomUseIsPaused
  BY MemoryAssumption DEF Init, HeadroomRespected, HeadroomUseIsPaused
<1>3. QED
  BY <1>1, <1>2 DEF HInv

\* After CheckAndSendPfc a neighbour whose packets are in the headroom has been
\* told to pause, and nobody has been told to resume.
LEMMA PauseIsChecked ==
    ASSUME paused \in [Ports -> [Prios -> BOOLEAN]],
           NEW port \in Ports, NEW q \in Prios,
           CheckAndSendPfc(port, q)
    PROVE  /\ paused' \in [Ports -> [Prios -> BOOLEAN]]
           /\ hdrm_bytes'[port][q] > 0 => paused'[port][q]
           /\ \A p \in Ports, r \in Prios : paused[p][r] => paused'[p][r]
<1>1. CASE /\ ~paused[port][q] /\ IsCongested(port, q)'
           /\ paused' = [paused EXCEPT ![port][q] = TRUE]
  BY <1>1
<1>2. CASE ~(~paused[port][q] /\ IsCongested(port, q)') /\ UNCHANGED paused
  BY <1>2 DEF IsCongested
<1>3. QED
  BY <1>1, <1>2 DEF CheckAndSendPfc

\* After CheckAndSendResume only a neighbour without packets in the headroom has
\* been told to resume.
LEMMA ResumeIsChecked ==
    ASSUME paused \in [Ports -> [Prios -> BOOLEAN]],
           hdrm_bytes' \in [Ports -> [Prios -> Nat]],
           NEW port \in Ports, NEW q \in Prios,
           CheckAndSendResume(port, q)
    PROVE  /\ paused' \in [Ports -> [Prios -> BOOLEAN]]
           /\ \A p \in Ports, r \in Prios :
                 paused[p][r] /\ hdrm_bytes'[p][r] > 0 => paused'[p][r]
<1>1. CASE /\ paused[port][q] /\ IsRelieved(port, q)'
           /\ paused' = [paused EXCEPT ![port][q] = FALSE]
  <2>1. hdrm_bytes'[port][q] = 0
    BY <1>1 DEF IsRelieved
  <2>2. QED
    BY <1>1, <2>1
<1>2. CASE UNCHANGED paused
  BY <1>2
<1>3. QED
  BY <1>1, <1>2 DEF CheckAndSendResume

LEMMA SendToDevHInv ==
    ASSUME HInv, NEW in \in Ports, NEW out \in Ports, NEW q \in Prios,
           NEW psize \in Sizes, SendToDev(in, out, q, psize)
    PROVE  HInv'
<1>1. /\ hdrm_bytes' \in [Ports -> [Prios -> Nat]]
      /\ ingress_bytes' \in [Ports -> [Prios -> Int]]
      /\ shared_used_bytes' \in Int
      /\ HeadroomRespected'
      /\ \A p \in Ports, r \in Prios :
            hdrm_bytes'[p][r] # hdrm_bytes[p][r] => p = in /\ r = q
  BY UpdateRespectsHeadroom DEF HInv, SendToDev
<1>2. /\ paused' \in [Ports -> [Prios -> BOOLEAN]]
      /\ hdrm_bytes'[in][q] > 0 => paused'[in][q]
      /\ \A p \in Ports, r \in Prios : paused[p][r] => paused'[p][r]
  BY PauseIsChecked DEF HInv, WeakTypes, SendToDev
<1>3. /\ multicast = NoMulticast /\ multicast' = NoMulticast
      /\ multicast' \in Multicast
  BY DEF SendToDev, NoMulticast, Multicast
<1>4. queues' \in [Ports -> [Prios -> Seq(Packet)]]
  <2>1. [in |-> in, size |-> psize] \in Packet
    BY DEF Packet
  <2>2. queues' = [queues EXCEPT ![out][q] = Append(@, [in |-> in, size |-> psize])]
    BY DEF SendToDev
  <2>3. QED
    BY <2>1, <2>2 DEF HInv, WeakTypes
<1>5. HeadroomUseIsPaused'
  <2> SUFFICES ASSUME NEW p \in Ports, NEW r \in Prios, hdrm_bytes'[p][r] > 0
               PROVE  paused'[p][r]
    BY DEF HeadroomUseIsPaused
  <2>1. CASE p = in /\ r = q
    BY <1>2, <2>1
  <2>2. CASE ~(p = in /\ r = q)
    <3>1. hdrm_bytes[p][r] > 0
      BY <1>1, <2>2
    <3>2. paused[p][r]
      BY <1>3, <3>1 DEF HInv, HeadroomUseIsPaused, NoMulticast
    <3>3. QED
      BY <1>2, <3>2
  <2>3. QED
    BY <2>1, <2>2
<1>6. QED
  BY <1>1, <1>2, <1>3, <1>4, <1>5 DEF HInv, WeakTypes

LEMMA SendMultiToDevsHInv ==
    ASSUME HInv, NEW in \in Ports, NEW outs \in SUBSET Ports, NEW q \in Prios,
           NEW psize \in Sizes, SendMultiToDevs(in, outs, q, psize)
    PROVE  HInv'
<1>1. /\ ~multicast.active
      /\ multicast' \in Multicast
  BY DEF SendMultiToDevs, NoMulticast, Multicast
<1>2. UNCHANGED <<mmu_vars, queues>>
  BY DEF SendMultiToDevs
<1>3. QED
  BY <1>1, <1>2
     DEF HInv, WeakTypes, HeadroomRespected, HeadroomUseIsPaused, mmu_vars, ingress_vars

\* An active loop works on behalf of one port and one priority.
LEMMA ActiveMulticast ==
    ASSUME multicast \in Multicast, multicast.active
    PROVE  multicast \in [active: {TRUE}, in: Ports, prio: Prios, size: Sizes,
                          outs: SUBSET Ports, tosend: SUBSET Ports]
  BY DEF Multicast

LEMMA MulticastCopyHInv ==
    ASSUME HInv, multicast.active, NEW out \in multicast.outs, MulticastCopy(out)
    PROVE  HInv'
<1>1. multicast \in [active: {TRUE}, in: Ports, prio: Prios, size: Sizes,
                     outs: SUBSET Ports, tosend: SUBSET Ports]
  BY ActiveMulticast DEF HInv, WeakTypes
<1>2. /\ multicast' \in Multicast
      /\ multicast'.active
      /\ multicast'.in = multicast.in
      /\ multicast'.prio = multicast.prio
  <2>1. \/ multicast' = [multicast EXCEPT !.outs = @ \ {out}, !.tosend = @ \union {out}]
        \/ multicast' = [multicast EXCEPT !.outs = @ \ {out}]
    BY <1>1 DEF MulticastCopy
  <2>2. multicast' \in [active: {TRUE}, in: Ports, prio: Prios, size: Sizes,
                        outs: SUBSET Ports, tosend: SUBSET Ports]
    BY <1>1, <2>1
  <2>3. QED
    BY <1>1, <2>1, <2>2 DEF Multicast
<1>3. UNCHANGED <<paused, queues>>
  BY DEF MulticastCopy
<1>4. CASE CheckIngressAdmission(multicast.in, multicast.prio, multicast.size)
  <2>1. UpdateIngressAdmission(multicast.in, multicast.prio, multicast.size)
    BY <1>4 DEF MulticastCopy
  <2>2. /\ hdrm_bytes' \in [Ports -> [Prios -> Nat]]
        /\ ingress_bytes' \in [Ports -> [Prios -> Int]]
        /\ shared_used_bytes' \in Int
        /\ HeadroomRespected'
        /\ \A p \in Ports, r \in Prios :
              hdrm_bytes'[p][r] # hdrm_bytes[p][r]
                  => p = multicast.in /\ r = multicast.prio
    BY <1>1, <1>4, <2>1, UpdateRespectsHeadroom DEF HInv
  <2>3. HeadroomUseIsPaused'
    BY <1>1, <1>2, <1>3, <2>2 DEF HInv, HeadroomUseIsPaused
  <2>4. QED
    BY <1>2, <1>3, <2>2, <2>3 DEF HInv, WeakTypes
<1>5. CASE ~CheckIngressAdmission(multicast.in, multicast.prio, multicast.size)
  <2>1. UNCHANGED ingress_vars
    BY <1>5 DEF MulticastCopy
  <2>2. QED
    BY <1>1, <1>2, <1>3, <2>1
       DEF HInv, WeakTypes, HeadroomRespected, HeadroomUseIsPaused, ingress_vars
<1>6. QED
  BY <1>4, <1>5

LEMMA MulticastSendHInv ==
    ASSUME HInv, multicast.active, NEW in \in Ports, NEW q \in Prios,
           MulticastSend(in, q)
    PROVE  HInv'
<1>1. multicast \in [active: {TRUE}, in: Ports, prio: Prios, size: Sizes,
                     outs: SUBSET Ports, tosend: SUBSET Ports]
  BY ActiveMulticast DEF HInv, WeakTypes
<1>2. /\ multicast.in = in /\ multicast.prio = q
      /\ UNCHANGED ingress_vars
      /\ CheckAndSendPfc(in, q)
      /\ multicast' = NoMulticast
  BY DEF MulticastSend
<1>3. /\ paused' \in [Ports -> [Prios -> BOOLEAN]]
      /\ hdrm_bytes'[in][q] > 0 => paused'[in][q]
      /\ \A p \in Ports, r \in Prios : paused[p][r] => paused'[p][r]
  BY <1>2, PauseIsChecked DEF HInv, WeakTypes
<1>4. queues' \in [Ports -> [Prios -> Seq(Packet)]]
  <2> DEFINE copied == [in |-> in, size |-> multicast.size]
  <2>1. copied \in Packet
    BY <1>1 DEF Packet
  <2> HIDE DEF copied
  <2>2. queues' = [out \in Ports |-> IF out \in multicast.tosend
                                     THEN [queues[out] EXCEPT ![q] = Append(@, copied)]
                                     ELSE queues[out]]
    BY DEF MulticastSend, copied
  <2>3. ASSUME NEW out \in Ports
        PROVE  [queues[out] EXCEPT ![q] = Append(@, copied)] \in [Prios -> Seq(Packet)]
    BY <2>1 DEF HInv, WeakTypes
  <2>4. QED
    BY <2>2, <2>3 DEF HInv, WeakTypes
<1>5. multicast' \in Multicast
  BY <1>2 DEF NoMulticast, Multicast
<1>6. HeadroomUseIsPaused'
  BY <1>2, <1>3 DEF HInv, HeadroomUseIsPaused, ingress_vars
<1>7. QED
  BY <1>2, <1>3, <1>4, <1>5, <1>6 DEF HInv, WeakTypes, HeadroomRespected, ingress_vars

LEMMA SwitchNotifyDequeueHInv ==
    ASSUME HInv, NEW in \in Ports, NEW out \in Ports, NEW q \in Prios,
           SwitchNotifyDequeue(in, out, q)
    PROVE  HInv'
<1> DEFINE psize == Head(queues[out][q]).size
<1>1. /\ psize \in Sizes
      /\ Tail(queues[out][q]) \in Seq(Packet)
  <2>1. queues[out][q] \in Seq(Packet) /\ queues[out][q] # << >>
    BY DEF HInv, WeakTypes, SwitchNotifyDequeue
  <2>2. Head(queues[out][q]) \in Packet
    BY <2>1
  <2>3. QED
    BY <2>1, <2>2 DEF Packet
<1>2. /\ RemoveFromIngressAdmission(in, q, psize)
      /\ CheckAndSendResume(in, q)
      /\ queues' = [queues EXCEPT ![out][q] = Tail(@)]
      /\ multicast = NoMulticast /\ multicast' = multicast
  BY DEF SwitchNotifyDequeue
<1> HIDE DEF psize
<1>3. /\ hdrm_bytes' \in [Ports -> [Prios -> Nat]]
      /\ ingress_bytes' \in [Ports -> [Prios -> Int]]
      /\ shared_used_bytes' \in Int
      /\ HeadroomRespected'
      /\ \A p \in Ports, r \in Prios : hdrm_bytes'[p][r] <= hdrm_bytes[p][r]
  BY <1>1, <1>2, RemoveRespectsHeadroom DEF HInv
<1>4. /\ paused' \in [Ports -> [Prios -> BOOLEAN]]
      /\ \A p \in Ports, r \in Prios :
            paused[p][r] /\ hdrm_bytes'[p][r] > 0 => paused'[p][r]
  BY <1>2, <1>3, ResumeIsChecked DEF HInv, WeakTypes
<1>5. queues' \in [Ports -> [Prios -> Seq(Packet)]]
  BY <1>1, <1>2 DEF HInv, WeakTypes
<1>6. HeadroomUseIsPaused'
  <2> SUFFICES ASSUME NEW p \in Ports, NEW r \in Prios, hdrm_bytes'[p][r] > 0
               PROVE  paused'[p][r]
    BY DEF HeadroomUseIsPaused
  <2>1. /\ hdrm_bytes[p][r] \in Nat /\ hdrm_bytes'[p][r] \in Nat
        /\ hdrm_bytes'[p][r] <= hdrm_bytes[p][r]
    BY <1>3 DEF HInv, WeakTypes
  <2>2. hdrm_bytes[p][r] > 0
    BY <2>1
  <2>3. paused[p][r]
    BY <1>2, <2>2 DEF HInv, HeadroomUseIsPaused, NoMulticast
  <2>4. QED
    BY <1>4, <2>3
<1>7. QED
  BY <1>2, <1>3, <1>4, <1>5, <1>6 DEF HInv, WeakTypes

LEMMA HInvNext == HInv /\ [Next \/ \E port \in Ports : LosePfc(port)]_vars => HInv'
<1> SUFFICES ASSUME HInv, [Next \/ \E port \in Ports : LosePfc(port)]_vars
             PROVE  HInv'
  OBVIOUS
<1>1. ASSUME NEW in \in Ports, NEW out \in Ports, NEW q \in Prios,
             NEW psize \in Sizes, SendToDev(in, out, q, psize)
      PROVE  HInv'
  BY <1>1, SendToDevHInv
<1>2. ASSUME NEW in \in Ports, NEW outs \in OutSets, NEW q \in Prios,
             NEW psize \in Sizes, SendMultiToDevs(in, outs, q, psize)
      PROVE  HInv'
  BY <1>2, SendMultiToDevsHInv, PortsAssumption
<1>3. CASE MulticastStep
  <2>1. ASSUME NEW out \in multicast.outs, MulticastCopy(out)
        PROVE  HInv'
    BY <1>3, <2>1, MulticastCopyHInv DEF MulticastStep
  <2>2. ASSUME NEW in \in Ports, NEW q \in Prios, MulticastSend(in, q)
        PROVE  HInv'
    BY <1>3, <2>2, MulticastSendHInv DEF MulticastStep
  <2>3. QED
    BY <1>3, <2>1, <2>2 DEF MulticastStep
<1>4. ASSUME NEW in \in Ports, NEW out \in Ports, NEW q \in Prios,
             SwitchNotifyDequeue(in, out, q)
      PROVE  HInv'
  BY <1>4, SwitchNotifyDequeueHInv
<1>5. ASSUME NEW port \in Ports, ReceivePfc(port) \/ LosePfc(port)
      PROVE  HInv'
  BY <1>5 DEF ReceivePfc, LosePfc, HInv, WeakTypes, HeadroomRespected,
              HeadroomUseIsPaused, mmu_vars, ingress_vars
<1>6. CASE UNCHANGED vars
  BY <1>6 DEF HInv, WeakTypes, HeadroomRespected, HeadroomUseIsPaused, vars, mmu_vars,
              ingress_vars
<1>7. QED
  BY <1>1, <1>2, <1>3, <1>4, <1>5, <1>6 DEF Next

\* The bytes that a port holds in its headroom never exceed it, even when PFC
\* frames are lost.
THEOREM HeadroomIsRespected == LossySpec => []HeadroomRespected
<1>1. HInv => HeadroomRespected
  BY DEF HInv
<1>2. QED
  BY <1>1, HInvInit, HInvNext, PTL DEF LossySpec

\* A neighbour whose packets are in the headroom has been told to pause (by the
\* end of the multicast loop), even when PFC frames are lost.
THEOREM HeadroomUseImpliesPaused == LossySpec => []HeadroomUseIsPaused
<1>1. HInv => HeadroomUseIsPaused
  BY DEF HInv
<1>2. QED
  BY <1>1, HInvInit, HInvNext, PTL DEF LossySpec

\* Both hold in particular when no PFC frame is lost.
THEOREM HeadroomIsSafe == Spec => [](HeadroomRespected /\ HeadroomUseIsPaused)
<1>1. HInv /\ [Next]_vars => HInv'
  BY HInvNext
<1>2. HInv => HeadroomRespected /\ HeadroomUseIsPaused
  BY DEF HInv
<1>3. QED
  BY <1>1, <1>2, HInvInit, PTL DEF Spec

-----------------------------------------------------------------------------
(* The bytes of queues: a packet more, or a packet less. *)

\* The sizes of the packets of s, or of those that came from one port.
SizesOf(s) == [i \in DOMAIN s |-> s[i].size]
SizesFrom(s, port) == [i \in DOMAIN s |-> IF s[i].in = port THEN s[i].size ELSE 0]

LEMMA SizesOfIsSeq ==
    ASSUME NEW s \in Seq(Packet)
    PROVE  /\ SizesOf(s) \in Seq(Int) /\ DOMAIN SizesOf(s) = DOMAIN s
           /\ \A i \in DOMAIN s : SizesOf(s)[i] \in Nat
           /\ Len(SizesOf(s)) = Len(s)
<1>1. DOMAIN s = 1 .. Len(s) /\ Len(s) \in Nat /\ \A i \in DOMAIN s : s[i] \in Packet
  OBVIOUS
<1>2. \A i \in DOMAIN s : s[i].size \in Nat
  BY <1>1, PortsAssumption DEF Packet
<1>3. SizesOf(s) \in [1 .. Len(s) -> Int]
  BY <1>1, <1>2 DEF SizesOf
<1>4. SizesOf(s) \in Seq(Int) /\ Len(SizesOf(s)) = Len(s)
  BY <1>1, <1>3
<1>5. QED
  BY <1>1, <1>2, <1>4 DEF SizesOf

LEMMA SizesFromIsSeq ==
    ASSUME NEW s \in Seq(Packet), NEW port
    PROVE  /\ SizesFrom(s, port) \in Seq(Int) /\ DOMAIN SizesFrom(s, port) = DOMAIN s
           /\ \A i \in DOMAIN s : SizesFrom(s, port)[i] \in Nat
           /\ Len(SizesFrom(s, port)) = Len(s)
<1>1. DOMAIN s = 1 .. Len(s) /\ Len(s) \in Nat /\ \A i \in DOMAIN s : s[i] \in Packet
  OBVIOUS
<1>2. \A i \in DOMAIN s : (IF s[i].in = port THEN s[i].size ELSE 0) \in Nat
  BY <1>1, PortsAssumption DEF Packet
<1>3. SizesFrom(s, port) \in [1 .. Len(s) -> Int]
  BY <1>1, <1>2 DEF SizesFrom
<1>4. SizesFrom(s, port) \in Seq(Int) /\ Len(SizesFrom(s, port)) = Len(s)
  BY <1>1, <1>3
<1>5. QED
  BY <1>1, <1>2, <1>4 DEF SizesFrom

LEMMA BytesType ==
    ASSUME NEW s \in Seq(Packet), NEW port
    PROVE  Bytes(s) \in Nat /\ BytesFrom(s, port) \in Nat
<1>1. SumFunction(SizesOf(s)) \in Nat
  <2>1. IsFiniteSet(DOMAIN s) /\ SumFunction(SizesOf(s)) = SumFunctionOnSet(SizesOf(s), DOMAIN s)
    BY SizesOfIsSeq, SeqSum
  <2>2. QED
    BY <2>1, SizesOfIsSeq, SumNatural
<1>2. SumFunction(SizesFrom(s, port)) \in Nat
  <2> DEFINE w == SizesFrom(s, port)
  <2>1. w \in Seq(Int) /\ DOMAIN w = DOMAIN s /\ \A i \in DOMAIN s : w[i] \in Nat
    BY SizesFromIsSeq
  <2> HIDE DEF w
  <2>2. IsFiniteSet(DOMAIN s) /\ SumFunction(w) = SumFunctionOnSet(w, DOMAIN s)
    BY <2>1, SeqSum
  <2>3. SumFunction(w) \in Nat
    BY <2>1, <2>2, SumNatural
  <2>4. QED
    BY <2>3 DEF w
<1>3. QED
  BY <1>1, <1>2 DEF Bytes, BytesFrom, SizesOf, SizesFrom

LEMMA BytesEmpty == \A port : Bytes(<< >>) = 0 /\ BytesFrom(<< >>, port) = 0
<1>1. SizesOf(<< >>) = << >>
  BY DEF SizesOf
<1>2. \A port : SizesFrom(<< >>, port) = << >>
  BY DEF SizesFrom
<1>3. QED
  BY <1>1, <1>2, SeqSumEmpty DEF Bytes, BytesFrom, SizesOf, SizesFrom

LEMMA BytesAppend ==
    ASSUME NEW s \in Seq(Packet), NEW e \in Packet, NEW port
    PROVE  /\ Bytes(Append(s, e)) = Bytes(s) + e.size
           /\ BytesFrom(Append(s, e), port) =
                  BytesFrom(s, port) + (IF e.in = port THEN e.size ELSE 0)
<1> DEFINE v == Append(s, e)
           x == IF e.in = port THEN e.size ELSE 0
<1>1. v \in Seq(Packet) /\ Len(v) = Len(s) + 1 /\ Len(s) \in Nat
  OBVIOUS
<1>2. v[Len(s) + 1] = e /\ \A i \in 1 .. Len(s) : v[i] = s[i]
  OBVIOUS
<1>3. e.size \in Int /\ x \in Int
  <2>1. e.size \in Nat
    BY PortsAssumption DEF Packet
  <2>2. QED
    BY <2>1
<1>4. DOMAIN v = 1 .. Len(s) + 1 /\ DOMAIN s = 1 .. Len(s)
  BY <1>1
<1>5. SizesOf(v) = Append(SizesOf(s), e.size)
  <2>1. SizesOf(v) \in Seq(Int) /\ SizesOf(s) \in Seq(Int)
        /\ Len(SizesOf(v)) = Len(s) + 1 /\ Len(SizesOf(s)) = Len(s)
    BY <1>1, SizesOfIsSeq
  <2>2. \A i \in 1 .. Len(s) + 1 : SizesOf(v)[i] = Append(SizesOf(s), e.size)[i]
    <3> TAKE i \in 1 .. Len(s) + 1
    <3>1. SizesOf(v)[i] = v[i].size
      BY <1>4 DEF SizesOf
    <3>2. CASE i = Len(s) + 1
      <4>1. Append(SizesOf(s), e.size)[i] = e.size
        BY <1>3, <2>1, <3>2
      <4>2. QED
        BY <1>2, <3>1, <3>2, <4>1
    <3>3. CASE i \in 1 .. Len(s)
      <4>1. Append(SizesOf(s), e.size)[i] = SizesOf(s)[i]
        BY <1>3, <2>1, <3>3
      <4>2. SizesOf(s)[i] = s[i].size
        BY <1>4, <3>3 DEF SizesOf
      <4>3. QED
        BY <1>2, <3>1, <3>3, <4>1, <4>2
    <3>4. i = Len(s) + 1 \/ i \in 1 .. Len(s)
      BY <1>1
    <3>5. QED
      BY <3>2, <3>3, <3>4
  <2>3. Append(SizesOf(s), e.size) \in Seq(Int) /\ Len(Append(SizesOf(s), e.size)) = Len(s) + 1
    BY <1>3, <2>1
  <2> HIDE DEF v
  <2>4. QED
    BY <2>1, <2>2, <2>3
<1>6. SizesFrom(v, port) = Append(SizesFrom(s, port), x)
  <2> DEFINE w == SizesFrom(s, port)
             u == SizesFrom(v, port)
  <2>1. u \in Seq(Int) /\ w \in Seq(Int) /\ Len(u) = Len(s) + 1 /\ Len(w) = Len(s)
    BY <1>1, SizesFromIsSeq
  <2>2. \A i \in 1 .. Len(s) + 1 : u[i] = Append(w, x)[i]
    <3> TAKE i \in 1 .. Len(s) + 1
    <3>1. u[i] = IF v[i].in = port THEN v[i].size ELSE 0
      BY <1>4 DEF SizesFrom
    <3>2. CASE i = Len(s) + 1
      <4>1. Append(w, x)[i] = x
        <5> HIDE DEF w, x
        <5>1. QED
          BY <1>3, <2>1, <3>2
      <4>2. QED
        BY <1>2, <3>1, <3>2, <4>1
    <3>3. CASE i \in 1 .. Len(s)
      <4>1. Append(w, x)[i] = w[i]
        <5> HIDE DEF w, x
        <5>1. QED
          BY <1>3, <2>1, <3>3
      <4>2. w[i] = IF s[i].in = port THEN s[i].size ELSE 0
        BY <1>4, <3>3 DEF SizesFrom
      <4>3. QED
        BY <1>2, <3>1, <3>3, <4>1, <4>2
    <3>4. i = Len(s) + 1 \/ i \in 1 .. Len(s)
      BY <1>1
    <3>5. QED
      BY <3>2, <3>3, <3>4
  <2> HIDE DEF u, w, x
  <2>3. Append(w, x) \in Seq(Int) /\ Len(Append(w, x)) = Len(s) + 1
    BY <1>3, <2>1
  <2>4. u = Append(w, x)
    BY <2>1, <2>2, <2>3
  <2>5. QED
    BY <2>4 DEF u, w
<1> HIDE DEF v, x
<1>7. SumFunction(SizesOf(v)) = SumFunction(SizesOf(s)) + e.size
  BY <1>3, <1>5, SizesOfIsSeq, SeqSumAppend
<1>8. SumFunction(SizesFrom(v, port)) = SumFunction(SizesFrom(s, port)) + x
  BY <1>3, <1>6, SizesFromIsSeq, SeqSumAppend
<1>9. QED
  BY <1>7, <1>8 DEF Bytes, BytesFrom, SizesOf, SizesFrom, v, x

LEMMA IsTail ==
    ASSUME NEW u \in Seq(Int), NEW w \in Seq(Int), w # << >>, Len(u) = Len(w) - 1,
           \A i \in 1 .. Len(u) : u[i] = w[i + 1]
    PROVE  u = Tail(w) /\ Head(w) = w[1]
<1>1. /\ Tail(w) \in Seq(Int) /\ Len(Tail(w)) = Len(w) - 1
      /\ \A i \in 1 .. Len(w) - 1 : Tail(w)[i] = w[i + 1]
  OBVIOUS
<1> DEFINE t == Tail(w)
<1>2. t \in Seq(Int) /\ Len(t) = Len(u) /\ \A i \in 1 .. Len(u) : t[i] = u[i]
  BY <1>1
<1> HIDE DEF t
<1>3. t = u
  BY <1>2, SeqEqual
<1>4. QED
  BY <1>3 DEF t

LEMMA BytesTail ==
    ASSUME NEW s \in Seq(Packet), s # << >>, NEW port
    PROVE  /\ Bytes(Tail(s)) = Bytes(s) - Head(s).size
           /\ BytesFrom(Tail(s), port) =
                  BytesFrom(s, port) - (IF Head(s).in = port THEN Head(s).size ELSE 0)
<1> DEFINE t == Tail(s)
           x == IF Head(s).in = port THEN Head(s).size ELSE 0
<1>1. /\ t \in Seq(Packet) /\ Len(t) = Len(s) - 1 /\ Len(s) \in Nat \ {0}
      /\ Head(s) = s[1] /\ \A i \in 1 .. Len(t) : t[i] = s[i + 1]
      /\ DOMAIN t = 1 .. Len(t) /\ DOMAIN s = 1 .. Len(s)
  OBVIOUS
<1> HIDE DEF t
<1>2. SizesOf(t) = Tail(SizesOf(s)) /\ Head(SizesOf(s)) = Head(s).size /\ SizesOf(s) # << >>
  <2>1. /\ SizesOf(t) \in Seq(Int) /\ SizesOf(s) \in Seq(Int)
        /\ Len(SizesOf(t)) = Len(t) /\ Len(SizesOf(s)) = Len(s)
    BY <1>1, SizesOfIsSeq
  <2>2. SizesOf(s)[1] = s[1].size /\ \A i \in 1 .. Len(t) : SizesOf(t)[i] = SizesOf(s)[i + 1]
    BY <1>1 DEF SizesOf
  <2> DEFINE u == SizesOf(t)
             w == SizesOf(s)
             n == Len(s)
             h == Head(s)
  <2>3. /\ u \in Seq(Int) /\ w \in Seq(Int) /\ Len(u) = n - 1 /\ Len(w) = n
        /\ n \in Nat \ {0} /\ w[1] = h.size /\ \A i \in 1 .. n - 1 : u[i] = w[i + 1]
    BY <1>1, <2>1, <2>2
  <2> HIDE DEF u, w, n, h
  <2>4. u = Tail(w) /\ Head(w) = h.size /\ w # << >>
    BY <2>3, IsTail
  <2>5. QED
    BY <2>4 DEF u, w, h
<1>3. SizesFrom(t, port) = Tail(SizesFrom(s, port)) /\ Head(SizesFrom(s, port)) = x
      /\ SizesFrom(s, port) # << >>
  <2> DEFINE u == SizesFrom(t, port)
             w == SizesFrom(s, port)
  <2>1. u \in Seq(Int) /\ w \in Seq(Int) /\ Len(u) = Len(t) /\ Len(w) = Len(s)
    BY <1>1, SizesFromIsSeq
  <2>2. w[1] = x /\ \A i \in 1 .. Len(t) : u[i] = w[i + 1]
    BY <1>1 DEF SizesFrom
  <2> DEFINE n == Len(s)
  <2>3. /\ u \in Seq(Int) /\ w \in Seq(Int) /\ Len(u) = n - 1 /\ Len(w) = n
        /\ n \in Nat \ {0} /\ w[1] = x /\ \A i \in 1 .. n - 1 : u[i] = w[i + 1]
    BY <1>1, <2>1, <2>2
  <2> HIDE DEF u, w, x, n
  <2>4. u = Tail(w) /\ Head(w) = x /\ w # << >>
    BY <2>3, IsTail
  <2>5. QED
    BY <2>4 DEF u, w
<1>4. SumFunction(SizesOf(s)) = Head(s).size + SumFunction(SizesOf(t))
  BY <1>2, SizesOfIsSeq, SeqSumTail
<1>5. SumFunction(SizesFrom(s, port)) = x + SumFunction(SizesFrom(t, port))
  <2> HIDE DEF x
  <2>1. QED
    BY <1>3, SizesFromIsSeq, SeqSumTail
<1>6. Bytes(t) \in Nat /\ BytesFrom(t, port) \in Nat /\ Head(s).size \in Int /\ x \in Int
  <2>1. Head(s) \in Packet
    BY <1>1
  <2>2. Head(s).size \in Nat
    BY <2>1, PortsAssumption DEF Packet
  <2>3. Bytes(t) \in Nat /\ BytesFrom(t, port) \in Nat
    BY <1>1, BytesType
  <2>4. QED
    BY <2>2, <2>3
<1>7. /\ Bytes(s) = Head(s).size + Bytes(t)
      /\ BytesFrom(s, port) = x + BytesFrom(t, port)
  BY <1>4, <1>5 DEF Bytes, BytesFrom, SizesOf, SizesFrom
<1> HIDE DEF x
<1>8. Bytes(t) = Bytes(s) - Head(s).size /\ BytesFrom(t, port) = BytesFrom(s, port) - x
  BY <1>6, <1>7
<1>9. QED
  BY <1>8 DEF t, x
-----------------------------------------------------------------------------
(* Bytes in all queues, and the shared memory in use.                      *)

Queues == [Ports -> [Prios -> Seq(Packet)]]

\* What a port has in each queue of priority q, and what it uses of the shared
\* memory.
Portions(port, q) == [out \in Ports |-> BytesFrom(queues[out][q], port)]
Shares == [pq \in Ports \X Prios |-> GetSharedUsed(pq[1], pq[2])]

LEMMA QueuedFromType ==
    ASSUME NEW qs \in Queues, NEW port, NEW q \in Prios
    PROVE  SumFunction([out \in Ports |-> BytesFrom(qs[out][q], port)]) \in Nat
<1> DEFINE f == [out \in Ports |-> BytesFrom(qs[out][q], port)]
<1>1. DOMAIN f = Ports /\ \A out \in Ports : f[out] \in Nat
  BY BytesType DEF Queues
<1>2. SumFunction(f) = SumFunctionOnSet(f, Ports)
  BY <1>1 DEF SumFunction
<1> HIDE DEF f
<1>3. IsFiniteSet(Ports)
  BY PortsAssumption
<1>4. SumFunctionOnSet(f, Ports) \in Nat
  BY <1>1, <1>3, SumNatural
<1>5. QED
  BY <1>2, <1>4 DEF f

\* One queue has changed to t.
QueueBecomes(out, q, t) ==
    /\ queues \in Queues
    /\ queues' = [queues EXCEPT ![out][q] = t]

LEMMA QueuedFromChanges ==
    ASSUME NEW out \in Ports, NEW q \in Prios, NEW t \in Seq(Packet),
           QueueBecomes(out, q, t), NEW port, NEW r \in Prios
    PROVE  QueuedFrom(port, r)' =
               QueuedFrom(port, r) +
                   (IF r = q THEN BytesFrom(t, port) - BytesFrom(queues[out][q], port) ELSE 0)
<1> DEFINE f == Portions(port, r)
           g == [o \in Ports |-> BytesFrom(queues'[o][r], port)]
<1>1. /\ DOMAIN f = Ports /\ DOMAIN g = Ports
      /\ \A o \in Ports : /\ f[o] = BytesFrom(queues[o][r], port)
                          /\ g[o] = BytesFrom(queues'[o][r], port)
  BY DEF Portions
<1>2. /\ queues' \in Queues /\ queues'[out][r] = IF r = q THEN t ELSE queues[out][r]
      /\ \A o \in Ports \ {out} : queues'[o] = queues[o]
      /\ queues \in Queues
  BY DEF Queues, QueueBecomes
<1>3. \A o \in Ports : f[o] \in Int /\ g[o] \in Int
  <2> TAKE o \in Ports
  <2>1. queues[o][r] \in Seq(Packet) /\ queues'[o][r] \in Seq(Packet)
    BY <1>2 DEF Queues
  <2>2. QED
    BY <1>1, <2>1, BytesType
<1>4. SumFunction(f) = SumFunctionOnSet(f, Ports) /\ SumFunction(g) = SumFunctionOnSet(g, Ports)
  BY <1>1 DEF SumFunction
<1>5. SumFunction(f) = QueuedFrom(port, r) /\ SumFunction(g) = QueuedFrom(port, r)'
  BY DEF Portions, QueuedFrom
<1> HIDE DEF f, g
<1>6. SumFunctionOnSet(g, Ports) = SumFunctionOnSet(f, Ports) - f[out] + g[out]
  <2>1. \A o \in Ports \ {out} : g[o] = f[o]
    BY <1>1, <1>2
  <2>2. IsFiniteSet(Ports)
    BY PortsAssumption
  <2>3. QED
    BY <1>3, <2>1, <2>2, SumUpdate
<1>7. SumFunctionOnSet(f, Ports) \in Int
  BY <1>3, SumType, PortsAssumption
<1>8. QueuedFrom(port, r)' = QueuedFrom(port, r) + (g[out] - f[out])
  <2>1. f[out] \in Int /\ g[out] \in Int
    BY <1>3
  <2>2. SumFunctionOnSet(g, Ports) = SumFunctionOnSet(f, Ports) + (g[out] - f[out])
    BY <1>6, <1>7, <2>1
  <2>3. QED
    BY <1>4, <1>5, <2>2
<1>9. g[out] - f[out] =
          IF r = q THEN BytesFrom(t, port) - BytesFrom(queues[out][q], port) ELSE 0
  <2>1. CASE r = q
    <3>1. f[out] = BytesFrom(queues[out][q], port) /\ g[out] = BytesFrom(t, port)
      BY <1>1, <1>2, <2>1
    <3>2. QED
      BY <2>1, <3>1
  <2>2. CASE r # q
    <3>1. f[out] = g[out] /\ f[out] \in Int
      BY <1>1, <1>2, <1>3, <2>2
    <3>2. QED
      BY <2>2, <3>1
  <2>3. QED
    BY <2>1, <2>2
<1>10. QED
  BY <1>8, <1>9

LEMMA SharesType ==
    ASSUME ingress_bytes \in [Ports -> [Prios -> Int]]
    PROVE  /\ DOMAIN Shares = Ports \X Prios /\ IsFiniteSet(Ports \X Prios)
           /\ \A port \in Ports, q \in Prios :
                 GetSharedUsed(port, q) \in Nat /\ Shares[<<port, q>>] = GetSharedUsed(port, q)
           /\ \A pq \in Ports \X Prios : Shares[pq] \in Nat
           /\ SumFunction(Shares) = SumFunctionOnSet(Shares, Ports \X Prios)
           /\ SumFunction(Shares) \in Nat
<1>1. IsFiniteSet(Ports \X Prios)
  BY FS_Product, PortsAssumption
<1>2. DOMAIN Shares = Ports \X Prios
  BY DEF Shares
<1>3. \A port \in Ports, q \in Prios :
         GetSharedUsed(port, q) \in Nat /\ Shares[<<port, q>>] = GetSharedUsed(port, q)
  BY MemoryAssumption DEF Shares, GetSharedUsed
<1>4. \A pq \in Ports \X Prios : Shares[pq] \in Nat
  BY <1>3 DEF Shares
<1>5. SumFunction(Shares) = SumFunctionOnSet(Shares, Ports \X Prios)
  BY <1>2 DEF SumFunction
<1>6. SumFunctionOnSet(Shares, Ports \X Prios) \in Nat
  BY <1>1, <1>4, SumNatural
<1>7. QED
  BY <1>1, <1>2, <1>3, <1>4, <1>5, <1>6

\* The charge of one port and priority has changed.
LEMMA SharesChange ==
    ASSUME ingress_bytes \in [Ports -> [Prios -> Int]],
           ingress_bytes' \in [Ports -> [Prios -> Int]],
           NEW port \in Ports, NEW q \in Prios,
           \A p \in Ports, r \in Prios :
              ~(p = port /\ r = q) => ingress_bytes'[p][r] = ingress_bytes[p][r]
    PROVE  SumFunction(Shares)' =
               SumFunction(Shares) - GetSharedUsed(port, q) + GetSharedUsed(port, q)'
<1> DEFINE f == Shares
           S == Ports \X Prios
           x == <<port, q>>
           GSU(p, r) == IF ingress_bytes'[p][r] > Reserve
                        THEN ingress_bytes'[p][r] - Reserve ELSE 0
           g == [pq \in S |-> GSU(pq[1], pq[2])]
<1>1. /\ DOMAIN f = S /\ IsFiniteSet(S) /\ SumFunction(f) = SumFunctionOnSet(f, S)
      /\ \A pq \in S : f[pq] \in Nat
      /\ f[x] = GetSharedUsed(port, q) /\ SumFunction(f) \in Nat
  BY SharesType
<1>2. g = Shares'
  BY DEF Shares, GetSharedUsed
<1>3. \A p \in Ports, r \in Prios : GSU(p, r) \in Nat /\ g[<<p, r>>] = GSU(p, r)
  BY MemoryAssumption
<1>4. \A pq \in S : g[pq] \in Nat
  BY <1>3
<1>5. \A pq \in S \ {x} : g[pq] = f[pq]
  <2> TAKE pq \in S \ {x}
  <2>1. PICK p \in Ports, r \in Prios : pq = <<p, r>>
    OBVIOUS
  <2>2. ingress_bytes'[p][r] = ingress_bytes[p][r]
    BY <2>1
  <2>3. f[<<p, r>>] = GetSharedUsed(p, r) /\ g[<<p, r>>] = GSU(p, r)
    BY <1>3, SharesType
  <2>4. QED
    BY <2>1, <2>2, <2>3 DEF GetSharedUsed
<1>6. x \in S /\ g[x] = GetSharedUsed(port, q)'
  BY <1>3 DEF GetSharedUsed
<1>7. SumFunction(g) = SumFunctionOnSet(g, S)
  BY DEF SumFunction
<1> HIDE DEF f, g, S, x, GSU
<1>8. SumFunctionOnSet(g, S) = SumFunctionOnSet(f, S) - f[x] + g[x]
  <2>1. \A pq \in S : f[pq] \in Int /\ g[pq] \in Int
    BY <1>1, <1>4
  <2>2. QED
    BY <1>1, <1>5, <1>6, <2>1, SumUpdate
<1>9. QED
  <2>1. SumFunction(g) = SumFunction(f) - GetSharedUsed(port, q) + GetSharedUsed(port, q)'
    BY <1>1, <1>6, <1>7, <1>8
  <2>2. SumFunction(g) = SumFunction(Shares)'
    BY <1>2
  <2>3. QED
    BY <2>1, <2>2 DEF f

\* A packet is charged as a whole, and the shared memory follows.
LEMMA ChargeIsAccounted ==
    ASSUME WeakTypes, HeadroomRespected,
           NEW port \in Ports, NEW q \in Prios, NEW psize \in Sizes,
           CheckIngressAdmission(port, q, psize),
           UpdateIngressAdmission(port, q, psize),
           shared_used_bytes = SumFunction(Shares)
    PROVE  /\ \A p \in Ports, r \in Prios :
                 hdrm_bytes'[p][r] + ingress_bytes'[p][r] =
                     hdrm_bytes[p][r] + ingress_bytes[p][r]
                         + (IF p = port /\ r = q THEN psize ELSE 0)
           /\ \A p \in Ports, r \in Prios :
                 /\ ingress_bytes[p][r] <= ingress_bytes'[p][r]
                 /\ hdrm_bytes[p][r] <= hdrm_bytes'[p][r]
           /\ shared_used_bytes' = SumFunction(Shares)'
<1> DEFINE new_bytes == ingress_bytes[port][q] + psize
           shared    == IF new_bytes <= Reserve THEN 0
                                                ELSE MinOf(psize, new_bytes - Reserve)
<1>1. /\ psize \in Nat /\ Reserve \in Nat
      /\ hdrm_bytes[port][q] \in Nat /\ ingress_bytes[port][q] \in Int
      /\ hdrm_bytes \in [Ports -> [Prios -> Nat]]
      /\ ingress_bytes \in [Ports -> [Prios -> Int]]
      /\ ingress_bytes' \in [Ports -> [Prios -> Int]]
      /\ hdrm_bytes' \in [Ports -> [Prios -> Nat]]
  <2>1. psize \in Nat /\ Reserve \in Nat
    BY PortsAssumption, MemoryAssumption
  <2>2. /\ hdrm_bytes \in [Ports -> [Prios -> Nat]]
        /\ ingress_bytes \in [Ports -> [Prios -> Int]]
    BY DEF WeakTypes
  <2>3. /\ ingress_bytes' \in [Ports -> [Prios -> Int]]
        /\ hdrm_bytes' \in [Ports -> [Prios -> Nat]]
    BY UpdateRespectsHeadroom
  <2>4. QED
    BY <2>1, <2>2, <2>3
<1>2. SumFunction(Shares) \in Nat /\ GetSharedUsed(port, q) \in Nat
  BY <1>1, SharesType
<1>3. CASE /\ ingress_bytes' = [ingress_bytes EXCEPT ![port][q] = new_bytes]
           /\ shared_used_bytes' = shared_used_bytes + shared
           /\ hdrm_bytes' = hdrm_bytes
  <2>1. \A p \in Ports, r \in Prios :
           ingress_bytes'[p][r] = IF p = port /\ r = q THEN new_bytes
                                                       ELSE ingress_bytes[p][r]
    BY <1>1, <1>3
  <2>2. SumFunction(Shares)' =
            SumFunction(Shares) - GetSharedUsed(port, q) + GetSharedUsed(port, q)'
    BY <1>1, <2>1, SharesChange
  <2>3. GetSharedUsed(port, q)' = GetSharedUsed(port, q) + shared
    BY <1>1, <2>1 DEF GetSharedUsed, MinOf
  <2>4. shared \in Int
    BY <1>1 DEF MinOf
  <2>5. shared_used_bytes' = SumFunction(Shares)'
    <3> HIDE DEF shared
    <3>1. QED
      BY <1>2, <1>3, <2>2, <2>3, <2>4
  <2>6. ASSUME NEW p \in Ports, NEW r \in Prios
        PROVE  /\ hdrm_bytes'[p][r] + ingress_bytes'[p][r] =
                      hdrm_bytes[p][r] + ingress_bytes[p][r]
                          + (IF p = port /\ r = q THEN psize ELSE 0)
               /\ ingress_bytes[p][r] <= ingress_bytes'[p][r]
               /\ hdrm_bytes[p][r] <= hdrm_bytes'[p][r]
    <3>1. hdrm_bytes[p][r] \in Nat /\ ingress_bytes[p][r] \in Int
      BY <1>1
    <3>2. hdrm_bytes'[p][r] = hdrm_bytes[p][r]
      BY <1>3
    <3>3. ingress_bytes'[p][r] =
              ingress_bytes[p][r] + (IF p = port /\ r = q THEN psize ELSE 0)
      BY <1>1, <2>1, <3>1
    <3>4. QED
      BY <1>1, <3>1, <3>2, <3>3
  <2>7. QED
    BY <2>5, <2>6
<1>4. CASE /\ hdrm_bytes' = [hdrm_bytes EXCEPT ![port][q] = @ + psize]
           /\ UNCHANGED <<ingress_bytes, shared_used_bytes>>
  <2>1. \A p \in Ports, r \in Prios :
           hdrm_bytes'[p][r] = IF p = port /\ r = q THEN hdrm_bytes[p][r] + psize
                                                    ELSE hdrm_bytes[p][r]
    BY <1>1, <1>4
  <2>2. SumFunction(Shares)' = SumFunction(Shares)
    BY <1>4 DEF Shares, GetSharedUsed
  <2>3. ASSUME NEW p \in Ports, NEW r \in Prios
        PROVE  /\ hdrm_bytes'[p][r] + ingress_bytes'[p][r] =
                      hdrm_bytes[p][r] + ingress_bytes[p][r]
                          + (IF p = port /\ r = q THEN psize ELSE 0)
               /\ ingress_bytes[p][r] <= ingress_bytes'[p][r]
               /\ hdrm_bytes[p][r] <= hdrm_bytes'[p][r]
    <3>1. hdrm_bytes[p][r] \in Nat /\ ingress_bytes[p][r] \in Int
      BY <1>1
    <3>2. ingress_bytes'[p][r] = ingress_bytes[p][r]
      BY <1>4
    <3>3. QED
      BY <1>1, <2>1, <3>1, <3>2
  <2>4. QED
    BY <1>4, <2>2, <2>3
<1>5. QED
  BY <1>3, <1>4 DEF UpdateIngressAdmission

\* A packet is released as a whole, the headroom first, and the shared memory
\* follows.
LEMMA ReleaseIsAccounted ==
    ASSUME WeakTypes, HeadroomRespected,
           NEW port \in Ports, NEW q \in Prios, NEW psize \in Sizes,
           RemoveFromIngressAdmission(port, q, psize),
           shared_used_bytes = SumFunction(Shares)
    PROVE  /\ \A p \in Ports, r \in Prios :
                 /\ hdrm_bytes'[p][r] + ingress_bytes'[p][r] =
                        hdrm_bytes[p][r] + ingress_bytes[p][r]
                            - (IF p = port /\ r = q THEN psize ELSE 0)
                 /\ hdrm_bytes'[p][r] = 0 \/ ingress_bytes'[p][r] = ingress_bytes[p][r]
           /\ shared_used_bytes' = SumFunction(Shares)'
<1> DEFINE from_hdrm   == MinOf(hdrm_bytes[port][q], psize)
           from_shared == MinOf(psize - from_hdrm, GetSharedUsed(port, q))
           rest        == psize - from_hdrm
<1>1. /\ psize \in Nat /\ Reserve \in Nat
      /\ hdrm_bytes[port][q] \in Nat /\ ingress_bytes[port][q] \in Int
      /\ hdrm_bytes \in [Ports -> [Prios -> Nat]]
      /\ ingress_bytes \in [Ports -> [Prios -> Int]]
      /\ ingress_bytes' \in [Ports -> [Prios -> Int]]
      /\ hdrm_bytes' \in [Ports -> [Prios -> Nat]]
  <2>1. /\ ingress_bytes' \in [Ports -> [Prios -> Int]]
        /\ hdrm_bytes' \in [Ports -> [Prios -> Nat]]
    BY RemoveRespectsHeadroom
  <2>2. QED
    BY <2>1, PortsAssumption, MemoryAssumption DEF WeakTypes
<1>2. SumFunction(Shares) \in Nat /\ GetSharedUsed(port, q) \in Nat
  BY <1>1, SharesType
<1>3. /\ from_hdrm \in Nat /\ rest \in Nat /\ from_shared \in Nat
      /\ hdrm_bytes[port][q] - from_hdrm = 0 \/ rest = 0
  BY <1>1, <1>2 DEF MinOf
<1>4. /\ hdrm_bytes' = [hdrm_bytes EXCEPT ![port][q] = @ - from_hdrm]
      /\ ingress_bytes' = [ingress_bytes EXCEPT ![port][q] = @ - rest]
      /\ shared_used_bytes' = shared_used_bytes - from_shared
  BY DEF RemoveFromIngressAdmission
<1>5. from_shared = MinOf(rest, GetSharedUsed(port, q)) /\ psize = rest + from_hdrm
  BY <1>1, <1>3
<1> HIDE DEF from_hdrm, from_shared, rest
<1>6. ASSUME NEW p \in Ports, NEW r \in Prios
      PROVE  /\ hdrm_bytes'[p][r] = hdrm_bytes[p][r]
                                       - (IF p = port /\ r = q THEN from_hdrm ELSE 0)
             /\ ingress_bytes'[p][r] = ingress_bytes[p][r]
                                          - (IF p = port /\ r = q THEN rest ELSE 0)
             /\ hdrm_bytes[p][r] \in Nat /\ ingress_bytes[p][r] \in Int
  BY <1>1, <1>4
<1>7. SumFunction(Shares)' =
          SumFunction(Shares) - GetSharedUsed(port, q) + GetSharedUsed(port, q)'
  <2>1. \A p \in Ports, r \in Prios :
           ~(p = port /\ r = q) => ingress_bytes'[p][r] = ingress_bytes[p][r]
    BY <1>6
  <2>2. QED
    BY <1>1, <2>1, SharesChange
<1>8. GetSharedUsed(port, q)' = GetSharedUsed(port, q) - from_shared
  <2>1. ingress_bytes'[port][q] = ingress_bytes[port][q] - rest
    BY <1>6
  <2>2. QED
    BY <1>1, <1>3, <1>5, <2>1 DEF GetSharedUsed, MinOf
<1>9. shared_used_bytes' = SumFunction(Shares)'
  BY <1>2, <1>3, <1>4, <1>7, <1>8
<1>10. ASSUME NEW p \in Ports, NEW r \in Prios
       PROVE  /\ hdrm_bytes'[p][r] + ingress_bytes'[p][r] =
                     hdrm_bytes[p][r] + ingress_bytes[p][r]
                         - (IF p = port /\ r = q THEN psize ELSE 0)
              /\ hdrm_bytes'[p][r] = 0 \/ ingress_bytes'[p][r] = ingress_bytes[p][r]
  BY <1>3, <1>5, <1>6
<1>11. QED
  BY <1>9, <1>10
-----------------------------------------------------------------------------
(* The counters agree with the queues.                                     *)

AccInv ==
    /\ HInv
    /\ ingress_bytes \in [Ports -> [Prios -> Nat]]
    /\ egress_bytes \in [Ports -> [Prios -> Int]]
    /\ AccountingMatchesQueues
    /\ multicast.active => multicast.tosend \cap multicast.outs = {}

\* What AccountingMatchesQueues says of one port and priority.
LEMMA AccountingFacts ==
    ASSUME AccInv
    PROVE  /\ queues \in Queues /\ WeakTypes /\ HeadroomRespected
           /\ shared_used_bytes = SumFunction(Shares)
           /\ \A port \in Ports, q \in Prios :
                 /\ hdrm_bytes[port][q] \in Nat /\ ingress_bytes[port][q] \in Nat
                 /\ egress_bytes[port][q] \in Int
                 /\ QueuedFrom(port, q) \in Nat /\ Bytes(queues[port][q]) \in Nat
                 /\ CopiedFrom(port, q) \in Nat /\ CopiedTo(port, q) \in Nat
                 /\ hdrm_bytes[port][q] + ingress_bytes[port][q] =
                        QueuedFrom(port, q) + CopiedFrom(port, q)
                 /\ egress_bytes[port][q] = Bytes(queues[port][q]) + CopiedTo(port, q)
<1>1. queues \in Queues /\ WeakTypes /\ HeadroomRespected
  BY DEF AccInv, HInv, WeakTypes, Queues
<1>2. shared_used_bytes = SumFunction(Shares)
  BY DEF AccInv, AccountingMatchesQueues, Shares
<1>3. ASSUME NEW port \in Ports, NEW q \in Prios
      PROVE  QueuedFrom(port, q) \in Nat /\ Bytes(queues[port][q]) \in Nat
  <2>1. queues[port][q] \in Seq(Packet)
    BY <1>1 DEF Queues
  <2>2. QED
    BY <1>1, <2>1, QueuedFromType, BytesType DEF QueuedFrom
<1>4. ASSUME NEW port \in Ports, NEW q \in Prios
      PROVE  CopiedFrom(port, q) \in Nat /\ CopiedTo(port, q) \in Nat
  <2>1. CASE ~multicast.active
    BY <2>1 DEF CopiedFrom, CopiedTo
  <2>2. CASE multicast.active
    <3>1. multicast.size \in Nat /\ multicast.tosend \in SUBSET Ports
      BY <2>2, <1>1, PortsAssumption, ActiveMulticast DEF WeakTypes
    <3>2. Cardinality(multicast.tosend) \in Nat
      BY <3>1, PortsAssumption, FS_Subset, FS_CardinalityType
    <3> DEFINE n == Cardinality(multicast.tosend)
               z == multicast.size
    <3>3. z * n \in Nat /\ z \in Nat
      <4>1. z \in Nat /\ n \in Nat
        BY <3>1, <3>2
      <4> HIDE DEF z, n
      <4>2. QED
        BY <4>1
    <3>4. QED
      BY <3>3 DEF CopiedFrom, CopiedTo
  <2>3. QED
    BY <2>1, <2>2
<1>5. QED
  BY <1>1, <1>2, <1>3, <1>4 DEF AccInv, WeakTypes, AccountingMatchesQueues

\* A packet from port `in` joins the queue of port `out`.
LEMMA EnqueueIsCounted ==
    ASSUME NEW in \in Ports, NEW out \in Ports, NEW q \in Prios, NEW psize \in Sizes,
           QueueBecomes(out, q, Append(queues[out][q], [in |-> in, size |-> psize]))
    PROVE  \A port \in Ports, r \in Prios :
              /\ QueuedFrom(port, r)' =
                     QueuedFrom(port, r) + (IF port = in /\ r = q THEN psize ELSE 0)
              /\ Bytes(queues'[port][r]) =
                     Bytes(queues[port][r]) + (IF port = out /\ r = q THEN psize ELSE 0)
<1> DEFINE e == [in |-> in, size |-> psize]
           s == queues[out][q]
           t == Append(s, e)
<1>1. /\ e \in Packet /\ e.in = in /\ e.size = psize /\ psize \in Nat
      /\ s \in Seq(Packet) /\ t \in Seq(Packet)
  <2>1. e \in Packet /\ psize \in Nat
    BY PortsAssumption DEF Packet
  <2>2. s \in Seq(Packet)
    BY DEF Queues, QueueBecomes
  <2> HIDE DEF e, s
  <2>3. t \in Seq(Packet)
    BY <2>1, <2>2
  <2>4. QED
    BY <2>1, <2>2, <2>3 DEF e
<1>2. /\ QueueBecomes(out, q, t)
      /\ queues \in Queues /\ queues' = [queues EXCEPT ![out][q] = t]
  BY DEF QueueBecomes
<1> HIDE DEF e
<1>3. ASSUME NEW port
      PROVE  /\ Bytes(t) = Bytes(s) + psize
             /\ BytesFrom(t, port) = BytesFrom(s, port) + (IF port = in THEN psize ELSE 0)
             /\ Bytes(s) \in Nat /\ BytesFrom(s, port) \in Nat
  <2>1. /\ Bytes(t) = Bytes(s) + e.size
        /\ BytesFrom(t, port) = BytesFrom(s, port) + (IF e.in = port THEN e.size ELSE 0)
    BY <1>1, BytesAppend
  <2>2. Bytes(s) \in Nat /\ BytesFrom(s, port) \in Nat
    BY <1>1, BytesType
  <2>3. QED
    BY <1>1, <2>1, <2>2
<1> HIDE DEF t
<1>4. ASSUME NEW port \in Ports, NEW r \in Prios
      PROVE  QueuedFrom(port, r)' =
                 QueuedFrom(port, r) + (IF port = in /\ r = q THEN psize ELSE 0)
  <2>1. QueuedFrom(port, r)' =
            QueuedFrom(port, r) + (IF r = q THEN BytesFrom(t, port) - BytesFrom(s, port) ELSE 0)
    BY <1>1, <1>2, QueuedFromChanges
  <2>2. BytesFrom(t, port) - BytesFrom(s, port) = IF port = in THEN psize ELSE 0
    BY <1>1, <1>3
  <2>3. QED
    BY <2>1, <2>2
<1>5. ASSUME NEW port \in Ports, NEW r \in Prios
      PROVE  Bytes(queues'[port][r]) =
                 Bytes(queues[port][r]) + (IF port = out /\ r = q THEN psize ELSE 0)
  <2>1. CASE port = out /\ r = q
    <3>1. queues'[port][r] = t
      BY <1>2, <2>1 DEF Queues
    <3>2. QED
      BY <1>3, <2>1, <3>1
  <2>2. CASE ~(port = out /\ r = q)
    <3>1. queues'[port][r] = queues[port][r] /\ queues[port][r] \in Seq(Packet)
      BY <1>2, <2>2 DEF Queues
    <3>2. Bytes(queues[port][r]) \in Nat
      BY <3>1, BytesType
    <3>3. QED
      BY <2>2, <3>1, <3>2
  <2>3. QED
    BY <2>1, <2>2
<1>6. QED
  BY <1>4, <1>5

\* A packet from port `in` leaves the queue of port `out`.
LEMMA DequeueIsCounted ==
    ASSUME NEW in \in Ports, NEW out \in Ports, NEW q \in Prios,
           queues[out][q] # << >>, Head(queues[out][q]).in = in,
           QueueBecomes(out, q, Tail(queues[out][q]))
    PROVE  \A port \in Ports, r \in Prios :
              /\ QueuedFrom(port, r)' = QueuedFrom(port, r) -
                     (IF port = in /\ r = q THEN Head(queues[out][q]).size ELSE 0)
              /\ Bytes(queues'[port][r]) = Bytes(queues[port][r]) -
                     (IF port = out /\ r = q THEN Head(queues[out][q]).size ELSE 0)
<1> DEFINE s == queues[out][q]
           t == Tail(s)
           psize == Head(s).size
<1>1. /\ s \in Seq(Packet) /\ t \in Seq(Packet) /\ s # << >>
      /\ psize \in Nat /\ Head(s).in = in
  <2>1. s \in Seq(Packet) /\ s # << >> /\ Head(s).in = in
    BY DEF Queues, QueueBecomes
  <2> HIDE DEF s
  <2>2. Head(s) \in Packet /\ t \in Seq(Packet)
    BY <2>1
  <2>3. psize \in Nat
    BY <2>2, PortsAssumption DEF Packet
  <2>4. QED
    BY <2>1, <2>2, <2>3
<1>2. /\ QueueBecomes(out, q, t)
      /\ queues \in Queues /\ queues' = [queues EXCEPT ![out][q] = t]
  BY DEF QueueBecomes
<1>3. ASSUME NEW port
      PROVE  /\ Bytes(t) = Bytes(s) - psize
             /\ BytesFrom(t, port) = BytesFrom(s, port) - (IF port = in THEN psize ELSE 0)
             /\ Bytes(s) \in Nat /\ BytesFrom(s, port) \in Nat
  <2> HIDE DEF s
  <2>1. /\ Bytes(t) = Bytes(s) - psize
        /\ BytesFrom(t, port) = BytesFrom(s, port) - (IF Head(s).in = port THEN psize ELSE 0)
    BY <1>1, BytesTail
  <2>2. Bytes(s) \in Nat /\ BytesFrom(s, port) \in Nat
    BY <1>1, BytesType
  <2>3. QED
    BY <1>1, <2>1, <2>2
<1> HIDE DEF t, psize
<1>4. ASSUME NEW port \in Ports, NEW r \in Prios
      PROVE  QueuedFrom(port, r)' =
                 QueuedFrom(port, r) - (IF port = in /\ r = q THEN psize ELSE 0)
  <2>1. QueuedFrom(port, r)' =
            QueuedFrom(port, r) + (IF r = q THEN BytesFrom(t, port) - BytesFrom(s, port) ELSE 0)
    BY <1>1, <1>2, QueuedFromChanges
  <2>2. BytesFrom(t, port) - BytesFrom(s, port) = IF port = in THEN -psize ELSE 0
    BY <1>1, <1>3
  <2>3. QueuedFrom(port, r) \in Nat
    BY <1>2, QueuedFromType DEF QueuedFrom
  <2>4. QED
    BY <1>1, <2>1, <2>2, <2>3
<1>5. ASSUME NEW port \in Ports, NEW r \in Prios
      PROVE  Bytes(queues'[port][r]) =
                 Bytes(queues[port][r]) - (IF port = out /\ r = q THEN psize ELSE 0)
  <2>1. CASE port = out /\ r = q
    <3>1. queues'[port][r] = t
      BY <1>2, <2>1 DEF Queues
    <3>2. QED
      BY <1>3, <2>1, <3>1
  <2>2. CASE ~(port = out /\ r = q)
    <3>1. queues'[port][r] = queues[port][r] /\ queues[port][r] \in Seq(Packet)
      BY <1>2, <2>2 DEF Queues
    <3>2. Bytes(queues[port][r]) \in Nat
      BY <3>1, BytesType
    <3>3. QED
      BY <2>2, <3>1, <3>2
  <2>3. QED
    BY <2>1, <2>2
<1>6. QED
  BY <1>4, <1>5 DEF psize, s

LEMMA SendToDevAcc ==
    ASSUME AccInv, NEW in \in Ports, NEW out \in Ports, NEW q \in Prios,
           NEW psize \in Sizes, SendToDev(in, out, q, psize)
    PROVE  AccInv'
<1>1. HInv'
  BY SendToDevHInv DEF AccInv
<1>2. /\ CheckIngressAdmission(in, q, psize)
      /\ UpdateIngressAdmission(in, q, psize)
      /\ egress_bytes' = [egress_bytes EXCEPT ![out][q] = @ + psize]
      /\ queues' = [queues EXCEPT ![out][q] = Append(@, [in |-> in, size |-> psize])]
      /\ multicast = NoMulticast /\ multicast' = NoMulticast
  BY DEF SendToDev
<1>3. /\ \A p \in Ports, r \in Prios :
            /\ hdrm_bytes'[p][r] + ingress_bytes'[p][r] =
                   hdrm_bytes[p][r] + ingress_bytes[p][r]
                       + (IF p = in /\ r = q THEN psize ELSE 0)
            /\ ingress_bytes[p][r] <= ingress_bytes'[p][r]
      /\ shared_used_bytes' = SumFunction(Shares)'
  BY <1>2, AccountingFacts, ChargeIsAccounted
<1>4. \A p \in Ports, r \in Prios :
         /\ QueuedFrom(p, r)' = QueuedFrom(p, r) + (IF p = in /\ r = q THEN psize ELSE 0)
         /\ Bytes(queues'[p][r]) =
                Bytes(queues[p][r]) + (IF p = out /\ r = q THEN psize ELSE 0)
  <2>1. QueueBecomes(out, q, Append(queues[out][q], [in |-> in, size |-> psize]))
    BY <1>2, AccountingFacts DEF QueueBecomes
  <2>2. QED
    BY <2>1, EnqueueIsCounted
<1>5. \A p \in Ports, r \in Prios : /\ CopiedFrom(p, r) = 0 /\ CopiedFrom(p, r)' = 0
                                    /\ CopiedTo(p, r) = 0 /\ CopiedTo(p, r)' = 0
  BY <1>2 DEF CopiedFrom, CopiedTo, NoMulticast
<1>6. /\ egress_bytes' \in [Ports -> [Prios -> Int]]
      /\ \A p \in Ports, r \in Prios :
            egress_bytes'[p][r] =
                egress_bytes[p][r] + (IF p = out /\ r = q THEN psize ELSE 0)
  <2>1. egress_bytes \in [Ports -> [Prios -> Int]] /\ psize \in Int
    BY PortsAssumption DEF AccInv
  <2>2. egress_bytes' = [egress_bytes EXCEPT ![out][q] = @ + psize]
    BY <1>2
  <2>3. QED
    BY <2>1, <2>2
<1>7. ingress_bytes' \in [Ports -> [Prios -> Nat]]
  <2>1. ingress_bytes' \in [Ports -> [Prios -> Int]]
    BY <1>1 DEF HInv, WeakTypes
  <2>2. \A p \in Ports, r \in Prios : ingress_bytes'[p][r] \in Nat
    BY <1>3, <2>1 DEF AccInv
  <2>3. QED
    BY <2>1, <2>2
<1>8. AccountingMatchesQueues'
  <2>1. ASSUME NEW p \in Ports, NEW r \in Prios
        PROVE  /\ hdrm_bytes'[p][r] + ingress_bytes'[p][r] =
                      QueuedFrom(p, r)' + CopiedFrom(p, r)'
               /\ egress_bytes'[p][r] = Bytes(queues'[p][r]) + CopiedTo(p, r)'
    <3>1. /\ QueuedFrom(p, r) \in Nat /\ Bytes(queues[p][r]) \in Nat
          /\ hdrm_bytes[p][r] + ingress_bytes[p][r] = QueuedFrom(p, r) + CopiedFrom(p, r)
          /\ egress_bytes[p][r] = Bytes(queues[p][r]) + CopiedTo(p, r)
          /\ psize \in Nat
      BY AccountingFacts, PortsAssumption
    <3>2. QED
      BY <1>3, <1>4, <1>5, <1>6, <3>1
  <2>2. QED
    BY <1>3, <2>1 DEF AccountingMatchesQueues, Shares
<1>9. QED
  BY <1>1, <1>2, <1>6, <1>7, <1>8 DEF AccInv, NoMulticast
LEMMA SwitchNotifyDequeueAcc ==
    ASSUME AccInv, NEW in \in Ports, NEW out \in Ports, NEW q \in Prios,
           SwitchNotifyDequeue(in, out, q)
    PROVE  AccInv'
<1> DEFINE psize == Head(queues[out][q]).size
<1>1. HInv'
  BY SwitchNotifyDequeueHInv DEF AccInv
<1>2. /\ RemoveFromIngressAdmission(in, q, psize)
      /\ egress_bytes' = [egress_bytes EXCEPT ![out][q] = @ - psize]
      /\ queues[out][q] # << >> /\ Head(queues[out][q]).in = in
      /\ queues' = [queues EXCEPT ![out][q] = Tail(@)]
      /\ multicast = NoMulticast /\ multicast' = NoMulticast
  BY DEF SwitchNotifyDequeue
<1>3. psize \in Sizes /\ psize \in Nat
  <2>1. queues[out][q] \in Seq(Packet)
    BY AccountingFacts DEF Queues
  <2>2. Head(queues[out][q]) \in Packet
    BY <1>2, <2>1
  <2>3. QED
    BY <2>2, PortsAssumption DEF Packet
<1>4. \A p \in Ports, r \in Prios :
         /\ QueuedFrom(p, r)' = QueuedFrom(p, r) - (IF p = in /\ r = q THEN psize ELSE 0)
         /\ Bytes(queues'[p][r]) =
                Bytes(queues[p][r]) - (IF p = out /\ r = q THEN psize ELSE 0)
  <2>1. QueueBecomes(out, q, Tail(queues[out][q]))
    BY <1>2, AccountingFacts DEF QueueBecomes
  <2>2. QED
    BY <1>2, <2>1, DequeueIsCounted
<1> HIDE DEF psize
<1>5. /\ \A p \in Ports, r \in Prios :
            /\ hdrm_bytes'[p][r] + ingress_bytes'[p][r] =
                   hdrm_bytes[p][r] + ingress_bytes[p][r]
                       - (IF p = in /\ r = q THEN psize ELSE 0)
            /\ hdrm_bytes'[p][r] = 0 \/ ingress_bytes'[p][r] = ingress_bytes[p][r]
      /\ shared_used_bytes' = SumFunction(Shares)'
  <2>1. WeakTypes /\ HeadroomRespected /\ shared_used_bytes = SumFunction(Shares)
    BY AccountingFacts
  <2>2. RemoveFromIngressAdmission(in, q, psize) /\ psize \in Sizes
    BY <1>2, <1>3
  <2>3. QED
    BY <2>1, <2>2, ReleaseIsAccounted
<1>6. \A p \in Ports, r \in Prios : /\ CopiedFrom(p, r) = 0 /\ CopiedFrom(p, r)' = 0
                                    /\ CopiedTo(p, r) = 0 /\ CopiedTo(p, r)' = 0
  BY <1>2 DEF CopiedFrom, CopiedTo, NoMulticast
<1>7. /\ egress_bytes' \in [Ports -> [Prios -> Int]]
      /\ \A p \in Ports, r \in Prios :
            egress_bytes'[p][r] =
                egress_bytes[p][r] - (IF p = out /\ r = q THEN psize ELSE 0)
  BY <1>2, <1>3 DEF AccInv
<1>8. ASSUME NEW p \in Ports, NEW r \in Prios
      PROVE  /\ hdrm_bytes'[p][r] + ingress_bytes'[p][r] =
                    QueuedFrom(p, r)' + CopiedFrom(p, r)'
             /\ egress_bytes'[p][r] = Bytes(queues'[p][r]) + CopiedTo(p, r)'
  <2>1. /\ QueuedFrom(p, r) \in Nat /\ Bytes(queues[p][r]) \in Nat
        /\ hdrm_bytes[p][r] \in Nat /\ ingress_bytes[p][r] \in Nat
        /\ hdrm_bytes[p][r] + ingress_bytes[p][r] = QueuedFrom(p, r) + CopiedFrom(p, r)
        /\ egress_bytes[p][r] = Bytes(queues[p][r]) + CopiedTo(p, r)
    BY AccountingFacts
  <2>2. hdrm_bytes'[p][r] + ingress_bytes'[p][r] = QueuedFrom(p, r)' + CopiedFrom(p, r)'
    <3> DEFINE d == IF p = in /\ r = q THEN psize ELSE 0
    <3>1. d \in Nat
      BY <1>3
    <3>2. /\ QueuedFrom(p, r)' = QueuedFrom(p, r) - d
          /\ hdrm_bytes'[p][r] + ingress_bytes'[p][r] =
                 hdrm_bytes[p][r] + ingress_bytes[p][r] - d
      BY <1>4, <1>5
    <3> HIDE DEF d
    <3>3. QED
      BY <1>6, <2>1, <3>1, <3>2
  <2>3. egress_bytes'[p][r] = Bytes(queues'[p][r]) + CopiedTo(p, r)'
    <3> DEFINE d == IF p = out /\ r = q THEN psize ELSE 0
    <3>1. d \in Nat
      BY <1>3
    <3>2. /\ Bytes(queues'[p][r]) = Bytes(queues[p][r]) - d
          /\ egress_bytes'[p][r] = egress_bytes[p][r] - d
      BY <1>4, <1>7
    <3> HIDE DEF d
    <3>3. QED
      BY <1>6, <2>1, <3>1, <3>2
  <2>4. QED
    BY <2>2, <2>3
<1>9. ingress_bytes' \in [Ports -> [Prios -> Nat]]
  <2>1. /\ ingress_bytes' \in [Ports -> [Prios -> Int]] /\ queues' \in Queues
        /\ hdrm_bytes' \in [Ports -> [Prios -> Nat]]
    BY <1>1 DEF HInv, WeakTypes, Queues
  <2>2. ASSUME NEW p \in Ports, NEW r \in Prios
        PROVE  ingress_bytes'[p][r] \in Nat
    <3>1. QueuedFrom(p, r)' \in Nat
      BY <2>1, QueuedFromType DEF QueuedFrom
    <3>2. /\ ingress_bytes'[p][r] \in Int /\ ingress_bytes[p][r] \in Nat
          /\ hdrm_bytes'[p][r] \in Nat
      BY <2>1, AccountingFacts
    <3>3. hdrm_bytes'[p][r] + ingress_bytes'[p][r] = QueuedFrom(p, r)'
      BY <1>6, <1>8, <3>1
    <3>4. QED
      BY <1>5, <3>1, <3>2, <3>3
  <2>3. QED
    BY <2>1, <2>2
<1>10. AccountingMatchesQueues'
  BY <1>5, <1>8 DEF AccountingMatchesQueues, Shares
<1>11. QED
  BY <1>1, <1>2, <1>7, <1>9, <1>10 DEF AccInv, NoMulticast

LEMMA SendMultiToDevsAcc ==
    ASSUME AccInv, NEW in \in Ports, NEW outs \in SUBSET Ports, NEW q \in Prios,
           NEW psize \in Sizes, SendMultiToDevs(in, outs, q, psize)
    PROVE  AccInv'
<1>1. HInv'
  BY SendMultiToDevsHInv DEF AccInv
<1>2. /\ multicast = NoMulticast
      /\ multicast' = [active |-> TRUE, in |-> in, prio |-> q, size |-> psize,
                       outs |-> outs, tosend |-> {}]
      /\ UNCHANGED <<hdrm_bytes, ingress_bytes, shared_used_bytes, egress_bytes, queues>>
  BY DEF SendMultiToDevs, mmu_vars, ingress_vars
<1>3. \A p \in Ports, r \in Prios : /\ CopiedFrom(p, r) = 0 /\ CopiedTo(p, r) = 0
                                    /\ CopiedTo(p, r)' = 0
  BY <1>2 DEF CopiedFrom, CopiedTo, NoMulticast
<1>4. \A p \in Ports, r \in Prios : CopiedFrom(p, r)' = 0
  <2>1. psize * 0 = 0
    BY PortsAssumption
  <2>2. Cardinality({}) = 0
    BY FS_EmptySet
  <2>3. multicast'.size = psize /\ multicast'.tosend = {}
    BY <1>2
  <2>4. QED
    BY <2>1, <2>2, <2>3 DEF CopiedFrom
<1>5. AccountingMatchesQueues'
  <2>1. ASSUME NEW p \in Ports, NEW r \in Prios
        PROVE  /\ hdrm_bytes'[p][r] + ingress_bytes'[p][r] =
                      QueuedFrom(p, r)' + CopiedFrom(p, r)'
               /\ egress_bytes'[p][r] = Bytes(queues'[p][r]) + CopiedTo(p, r)'
    <3>1. /\ hdrm_bytes[p][r] + ingress_bytes[p][r] = QueuedFrom(p, r) + CopiedFrom(p, r)
          /\ egress_bytes[p][r] = Bytes(queues[p][r]) + CopiedTo(p, r)
      BY AccountingFacts
    <3>2. QueuedFrom(p, r)' = QueuedFrom(p, r)
      BY <1>2 DEF QueuedFrom
    <3>3. QED
      BY <1>2, <1>3, <1>4, <3>1, <3>2
  <2>2. shared_used_bytes' = SumFunction(Shares)'
    BY <1>2, AccountingFacts DEF Shares, GetSharedUsed
  <2>3. QED
    BY <2>1, <2>2 DEF AccountingMatchesQueues, Shares
<1>6. QED
  BY <1>1, <1>2, <1>5 DEF AccInv

LEMMA MulticastCopyAcc ==
    ASSUME AccInv, multicast.active, NEW out \in multicast.outs, MulticastCopy(out)
    PROVE  AccInv'
<1> DEFINE in    == multicast.in
           q     == multicast.prio
           psize == multicast.size
           sent  == multicast.tosend
<1>1. HInv'
  BY MulticastCopyHInv DEF AccInv
<1>2. /\ multicast \in [active: {TRUE}, in: Ports, prio: Prios, size: Sizes,
                        outs: SUBSET Ports, tosend: SUBSET Ports]
      /\ in \in Ports /\ q \in Prios /\ psize \in Sizes /\ psize \in Nat
      /\ sent \in SUBSET Ports /\ out \in Ports /\ out \notin sent
  BY ActiveMulticast, PortsAssumption DEF AccInv, HInv, WeakTypes
<1>3. queues' = queues
  BY DEF MulticastCopy
<1>4. \A p \in Ports, r \in Prios : QueuedFrom(p, r)' = QueuedFrom(p, r)
  BY <1>3 DEF QueuedFrom
<1>5. CASE CheckIngressAdmission(in, q, psize)
  <2>1. /\ UpdateIngressAdmission(in, q, psize)
        /\ egress_bytes' = [egress_bytes EXCEPT ![out][q] = @ + psize]
        /\ multicast' = [multicast EXCEPT !.outs = @ \ {out}, !.tosend = @ \union {out}]
    BY <1>2, <1>5 DEF MulticastCopy
  <2>2. /\ \A p \in Ports, r \in Prios :
              /\ hdrm_bytes'[p][r] + ingress_bytes'[p][r] =
                     hdrm_bytes[p][r] + ingress_bytes[p][r]
                         + (IF p = in /\ r = q THEN psize ELSE 0)
              /\ ingress_bytes[p][r] <= ingress_bytes'[p][r]
        /\ shared_used_bytes' = SumFunction(Shares)'
    <3> HIDE DEF in, q, psize
    <3>1. QED
      BY <1>2, <1>5, <2>1, AccountingFacts, ChargeIsAccounted
  <2>3. /\ multicast'.active /\ multicast'.in = in /\ multicast'.prio = q
        /\ multicast'.size = psize /\ multicast'.tosend = sent \union {out}
        /\ multicast'.outs = multicast.outs \ {out}
    BY <1>2, <2>1
  <2>4. \A p \in Ports, r \in Prios :
           CopiedFrom(p, r)' = CopiedFrom(p, r) + (IF p = in /\ r = q THEN psize ELSE 0)
    <3>1. /\ Cardinality(sent) \in Nat
          /\ Cardinality(sent \union {out}) = Cardinality(sent) + 1
      BY <1>2, PortsAssumption, FS_Subset, FS_CardinalityType, FS_AddElement
    <3>2. psize * Cardinality(sent \union {out}) = psize * Cardinality(sent) + psize
      <4> DEFINE n == Cardinality(sent)
      <4>1. n \in Nat /\ Cardinality(sent \union {out}) = n + 1 /\ psize \in Nat
        BY <1>2, <3>1
      <4> HIDE DEF n, psize
      <4>2. psize * (n + 1) = psize * n + psize
        BY <4>1
      <4>3. QED
        BY <4>1, <4>2 DEF n
    <3>3. \A p, r : CopiedFrom(p, r) =
                        IF p = in /\ r = q THEN psize * Cardinality(sent) ELSE 0
      BY DEF CopiedFrom
    <3>4. \A p, r : CopiedFrom(p, r)' =
                        IF p = in /\ r = q THEN psize * Cardinality(sent \union {out}) ELSE 0
      BY <2>3 DEF CopiedFrom
    <3> DEFINE before == psize * Cardinality(sent)
               after  == psize * Cardinality(sent \union {out})
    <3>5. psize \in Nat /\ before \in Nat /\ after = before + psize
      <4> DEFINE n == Cardinality(sent)
      <4>1. n \in Nat /\ psize \in Nat
        BY <1>2, <3>1
      <4> HIDE DEF n, psize
      <4>2. psize * n \in Nat
        BY <4>1
      <4>3. QED
        BY <3>2, <4>1, <4>2 DEF n
    <3>6. \A p, r : /\ CopiedFrom(p, r) = IF p = in /\ r = q THEN before ELSE 0
                    /\ CopiedFrom(p, r)' = IF p = in /\ r = q THEN after ELSE 0
      BY <3>3, <3>4
    <3> HIDE DEF in, q, psize, sent, before, after
    <3>7. QED
      BY <3>5, <3>6
  <2>5. \A p \in Ports, r \in Prios :
           CopiedTo(p, r)' = CopiedTo(p, r) + (IF p = out /\ r = q THEN psize ELSE 0)
    <3>1. \A p, r : /\ CopiedTo(p, r) = IF r = q /\ p \in sent THEN psize ELSE 0
                    /\ CopiedTo(p, r)' =
                           IF r = q /\ p \in sent \union {out} THEN psize ELSE 0
      BY <2>3 DEF CopiedTo
    <3> HIDE DEF in, q, psize, sent
    <3>2. QED
      BY <1>2, <3>1
  <2>6. /\ egress_bytes' \in [Ports -> [Prios -> Int]]
        /\ \A p \in Ports, r \in Prios :
              egress_bytes'[p][r] =
                  egress_bytes[p][r] + (IF p = out /\ r = q THEN psize ELSE 0)
    BY <1>2, <2>1 DEF AccInv
  <2>7. ingress_bytes' \in [Ports -> [Prios -> Nat]]
    <3>1. ingress_bytes' \in [Ports -> [Prios -> Int]]
      BY <1>1 DEF HInv, WeakTypes
    <3>2. \A p \in Ports, r \in Prios : ingress_bytes'[p][r] \in Nat
      BY <2>2, <3>1 DEF AccInv
    <3>3. QED
      BY <3>1, <3>2
  <2>8. AccountingMatchesQueues'
    <3>1. ASSUME NEW p \in Ports, NEW r \in Prios
          PROVE  /\ hdrm_bytes'[p][r] + ingress_bytes'[p][r] =
                        QueuedFrom(p, r)' + CopiedFrom(p, r)'
                 /\ egress_bytes'[p][r] = Bytes(queues'[p][r]) + CopiedTo(p, r)'
      <4>1. /\ QueuedFrom(p, r) \in Nat /\ Bytes(queues[p][r]) \in Nat
            /\ CopiedFrom(p, r) \in Nat /\ CopiedTo(p, r) \in Nat
            /\ hdrm_bytes[p][r] + ingress_bytes[p][r] = QueuedFrom(p, r) + CopiedFrom(p, r)
            /\ egress_bytes[p][r] = Bytes(queues[p][r]) + CopiedTo(p, r)
            /\ psize \in Nat
        BY <1>2, AccountingFacts
      <4> HIDE DEF in, q, psize, sent
      <4>2. QED
        BY <1>3, <1>4, <2>2, <2>4, <2>5, <2>6, <4>1
    <3>2. QED
      BY <2>2, <3>1 DEF AccountingMatchesQueues, Shares
  <2>9. multicast'.tosend \cap multicast'.outs = {}
    BY <2>3 DEF AccInv
  <2>10. QED
    BY <1>1, <2>6, <2>7, <2>8, <2>9 DEF AccInv
<1>6. CASE ~CheckIngressAdmission(in, q, psize)
  <2>1. /\ UNCHANGED <<hdrm_bytes, ingress_bytes, shared_used_bytes, egress_bytes>>
        /\ multicast' = [multicast EXCEPT !.outs = @ \ {out}]
    BY <1>2, <1>6 DEF MulticastCopy, ingress_vars
  <2>2. /\ multicast'.active = multicast.active /\ multicast'.in = in
        /\ multicast'.prio = q /\ multicast'.size = psize /\ multicast'.tosend = sent
        /\ multicast'.outs = multicast.outs \ {out}
    BY <1>2, <2>1
  <2>3. \A p, r : CopiedFrom(p, r)' = CopiedFrom(p, r) /\ CopiedTo(p, r)' = CopiedTo(p, r)
    BY <2>2 DEF CopiedFrom, CopiedTo
  <2>4. AccountingMatchesQueues'
    <3>1. ASSUME NEW p \in Ports, NEW r \in Prios
          PROVE  /\ hdrm_bytes'[p][r] + ingress_bytes'[p][r] =
                        QueuedFrom(p, r)' + CopiedFrom(p, r)'
                 /\ egress_bytes'[p][r] = Bytes(queues'[p][r]) + CopiedTo(p, r)'
      <4>1. /\ hdrm_bytes[p][r] + ingress_bytes[p][r] = QueuedFrom(p, r) + CopiedFrom(p, r)
            /\ egress_bytes[p][r] = Bytes(queues[p][r]) + CopiedTo(p, r)
        BY AccountingFacts
      <4>2. QED
        BY <1>3, <1>4, <2>1, <2>3, <4>1
    <3>2. shared_used_bytes' = SumFunction(Shares)'
      BY <2>1, AccountingFacts DEF Shares, GetSharedUsed
    <3>3. QED
      BY <3>1, <3>2 DEF AccountingMatchesQueues, Shares
  <2>5. QED
    BY <1>1, <2>1, <2>2, <2>4 DEF AccInv
<1>7. QED
  BY <1>5, <1>6
\* The copies that the loop admitted join their queues together.
CopiesJoin(in, q, psize, sent) ==
    /\ queues \in Queues
    /\ queues' = [out \in Ports |->
                     IF out \in sent
                     THEN [queues[out] EXCEPT ![q] = Append(@, [in |-> in, size |-> psize])]
                     ELSE queues[out]]

LEMMA CopiesAreCounted ==
    ASSUME NEW in \in Ports, NEW q \in Prios, NEW psize \in Sizes,
           NEW sent \in SUBSET Ports, CopiesJoin(in, q, psize, sent)
    PROVE  \A port \in Ports, r \in Prios :
              /\ QueuedFrom(port, r)' = QueuedFrom(port, r) +
                     (IF port = in /\ r = q THEN psize * Cardinality(sent) ELSE 0)
              /\ Bytes(queues'[port][r]) = Bytes(queues[port][r]) +
                     (IF port \in sent /\ r = q THEN psize ELSE 0)
<1> DEFINE e == [in |-> in, size |-> psize]
<1>1. /\ e \in Packet /\ e.in = in /\ e.size = psize /\ psize \in Nat
  BY PortsAssumption DEF Packet
<1>2. \A out \in Ports, r \in Prios :
         /\ queues[out][r] \in Seq(Packet)
         /\ queues'[out][r] = IF out \in sent /\ r = q THEN Append(queues[out][r], e)
                                                       ELSE queues[out][r]
  BY DEF Queues, CopiesJoin
<1> HIDE DEF e
<1>3. ASSUME NEW out \in Ports, NEW r \in Prios, NEW port
      PROVE  /\ Bytes(queues[out][r]) \in Nat /\ BytesFrom(queues[out][r], port) \in Nat
             /\ Bytes(queues'[out][r]) = Bytes(queues[out][r]) +
                    (IF out \in sent /\ r = q THEN psize ELSE 0)
             /\ BytesFrom(queues'[out][r], port) = BytesFrom(queues[out][r], port) +
                    (IF out \in sent /\ r = q /\ port = in THEN psize ELSE 0)
  <2> DEFINE s == queues[out][r]
  <2>1. s \in Seq(Packet)
    BY <1>2
  <2> HIDE DEF s
  <2>2. Bytes(s) \in Nat /\ BytesFrom(s, port) \in Nat
    BY <2>1, BytesType
  <2>3. /\ Bytes(Append(s, e)) = Bytes(s) + psize
        /\ BytesFrom(Append(s, e), port) =
               BytesFrom(s, port) + (IF port = in THEN psize ELSE 0)
    BY <1>1, <2>1, BytesAppend
  <2>4. CASE out \in sent /\ r = q
    <3>1. queues'[out][r] = Append(s, e)
      BY <1>2, <2>4 DEF s
    <3>2. QED
      BY <2>2, <2>3, <2>4, <3>1 DEF s
  <2>5. CASE ~(out \in sent /\ r = q)
    <3>1. queues'[out][r] = s
      BY <1>2, <2>5 DEF s
    <3>2. QED
      BY <2>2, <2>5, <3>1 DEF s
  <2>6. QED
    BY <2>4, <2>5
<1>4. ASSUME NEW port \in Ports, NEW r \in Prios
      PROVE  QueuedFrom(port, r)' = QueuedFrom(port, r) +
                 (IF port = in /\ r = q THEN psize * Cardinality(sent) ELSE 0)
  <2> DEFINE f == Portions(port, r)
             g == [o \in Ports |-> BytesFrom(queues'[o][r], port)]
             c == IF port = in /\ r = q THEN psize ELSE 0
             n == Cardinality(sent)
  <2>1. /\ DOMAIN f = Ports /\ DOMAIN g = Ports
        /\ SumFunction(f) = SumFunctionOnSet(f, Ports)
        /\ SumFunction(g) = SumFunctionOnSet(g, Ports)
    BY DEF Portions, SumFunction
  <2>2. SumFunction(f) = QueuedFrom(port, r) /\ SumFunction(g) = QueuedFrom(port, r)'
    BY DEF Portions, QueuedFrom
  <2>3. \A o \in Ports : /\ f[o] = BytesFrom(queues[o][r], port)
                         /\ g[o] = BytesFrom(queues'[o][r], port)
    BY DEF Portions
  <2>4. c \in Int /\ IsFiniteSet(Ports) /\ n \in Nat
    <3>1. c \in Int
      BY <1>1
    <3>2. IsFiniteSet(Ports)
      BY PortsAssumption
    <3>3. n \in Nat
      BY <3>2, FS_Subset, FS_CardinalityType
    <3>4. QED
      BY <3>1, <3>2, <3>3
  <2>5. \A o \in Ports : f[o] \in Int /\ g[o] = f[o] + (IF o \in sent THEN c ELSE 0)
    <3> TAKE o \in Ports
    <3>1. /\ BytesFrom(queues[o][r], port) \in Nat
          /\ BytesFrom(queues'[o][r], port) = BytesFrom(queues[o][r], port) +
                 (IF o \in sent /\ r = q /\ port = in THEN psize ELSE 0)
      BY <1>3
    <3>2. (IF o \in sent /\ r = q /\ port = in THEN psize ELSE 0)
              = IF o \in sent THEN c ELSE 0
      OBVIOUS
    <3> HIDE DEF f, g, c
    <3>3. QED
      BY <2>3, <3>1, <3>2
  <2> HIDE DEF f, g, c
  <2>6. SumFunctionOnSet(g, Ports) = SumFunctionOnSet(f, Ports) + c * n
    BY <2>4, <2>5, SumRaise
  <2>7. c * n = IF port = in /\ r = q THEN psize * n ELSE 0
    <3> HIDE DEF n
    <3>1. CASE port = in /\ r = q
      BY <3>1 DEF c
    <3>2. CASE ~(port = in /\ r = q)
      <4>1. c = 0
        BY <3>2 DEF c
      <4>2. QED
        BY <2>4, <3>2, <4>1
    <3>3. QED
      BY <3>1, <3>2
  <2>8. QED
    BY <2>1, <2>2, <2>6, <2>7
<1>5. QED
  BY <1>3, <1>4

LEMMA MulticastSendAcc ==
    ASSUME AccInv, multicast.active, NEW in \in Ports, NEW q \in Prios,
           MulticastSend(in, q)
    PROVE  AccInv'
<1> DEFINE psize == multicast.size
           sent  == multicast.tosend
<1>1. HInv'
  BY MulticastSendHInv DEF AccInv
<1>2. /\ multicast.in = in /\ multicast.prio = q
      /\ UNCHANGED <<hdrm_bytes, ingress_bytes, shared_used_bytes, egress_bytes>>
      /\ multicast' = NoMulticast
      /\ queues' = [out \in Ports |->
                       IF out \in sent
                       THEN [queues[out] EXCEPT ![q] =
                                 Append(@, [in |-> in, size |-> psize])]
                       ELSE queues[out]]
  BY DEF MulticastSend, ingress_vars
<1>3. psize \in Sizes /\ psize \in Nat /\ sent \in SUBSET Ports
  BY ActiveMulticast, PortsAssumption DEF AccInv, HInv, WeakTypes
<1>4. \A p, r : /\ CopiedFrom(p, r) =
                       IF p = in /\ r = q THEN psize * Cardinality(sent) ELSE 0
                /\ CopiedTo(p, r) = IF r = q /\ p \in sent THEN psize ELSE 0
                /\ CopiedFrom(p, r)' = 0 /\ CopiedTo(p, r)' = 0
  BY <1>2 DEF CopiedFrom, CopiedTo, NoMulticast
<1> HIDE DEF psize, sent
<1>5. \A p \in Ports, r \in Prios :
         /\ QueuedFrom(p, r)' = QueuedFrom(p, r) +
                (IF p = in /\ r = q THEN psize * Cardinality(sent) ELSE 0)
         /\ Bytes(queues'[p][r]) =
                Bytes(queues[p][r]) + (IF p \in sent /\ r = q THEN psize ELSE 0)
  <2>1. CopiesJoin(in, q, psize, sent)
    BY <1>2, AccountingFacts DEF CopiesJoin
  <2>2. QED
    BY <1>3, <2>1, CopiesAreCounted
<1>6. AccountingMatchesQueues'
  <2>1. ASSUME NEW p \in Ports, NEW r \in Prios
        PROVE  /\ hdrm_bytes'[p][r] + ingress_bytes'[p][r] =
                      QueuedFrom(p, r)' + CopiedFrom(p, r)'
               /\ egress_bytes'[p][r] = Bytes(queues'[p][r]) + CopiedTo(p, r)'
    <3>1. /\ QueuedFrom(p, r) \in Nat /\ Bytes(queues[p][r]) \in Nat
          /\ CopiedFrom(p, r) \in Nat /\ CopiedTo(p, r) \in Nat
          /\ hdrm_bytes[p][r] + ingress_bytes[p][r] = QueuedFrom(p, r) + CopiedFrom(p, r)
          /\ egress_bytes[p][r] = Bytes(queues[p][r]) + CopiedTo(p, r)
      BY AccountingFacts
    <3>2. /\ QueuedFrom(p, r)' = QueuedFrom(p, r) + CopiedFrom(p, r)
          /\ Bytes(queues'[p][r]) = Bytes(queues[p][r]) + CopiedTo(p, r)
          /\ CopiedFrom(p, r)' = 0 /\ CopiedTo(p, r)' = 0
      BY <1>4, <1>5
    <3>3. QED
      BY <1>2, <3>1, <3>2
  <2>2. shared_used_bytes' = SumFunction(Shares)'
    BY <1>2, AccountingFacts DEF Shares, GetSharedUsed
  <2>3. QED
    BY <2>1, <2>2 DEF AccountingMatchesQueues, Shares
<1>7. QED
  BY <1>1, <1>2, <1>6 DEF AccInv, NoMulticast

LEMMA AccInvInit == Init => AccInv
<1> SUFFICES ASSUME Init PROVE AccInv
  OBVIOUS
<1>1. HInv
  BY HInvInit
<1>2. /\ ingress_bytes \in [Ports -> [Prios -> Nat]]
      /\ egress_bytes \in [Ports -> [Prios -> Int]]
      /\ ~multicast.active
  BY DEF Init, NoMulticast
<1>3. ASSUME NEW p \in Ports, NEW r \in Prios
      PROVE  /\ hdrm_bytes[p][r] + ingress_bytes[p][r] = QueuedFrom(p, r) + CopiedFrom(p, r)
             /\ egress_bytes[p][r] = Bytes(queues[p][r]) + CopiedTo(p, r)
  <2> DEFINE f == [out \in Ports |-> BytesFrom(queues[out][r], p)]
  <2>1. DOMAIN f = Ports /\ \A out \in Ports : f[out] = 0
    BY BytesEmpty DEF Init
  <2> HIDE DEF f
  <2>2. SumFunction(f) = 0
    <3>1. IsFiniteSet(Ports)
      BY PortsAssumption
    <3>2. SumFunction(f) = SumFunctionOnSet(f, Ports)
      BY <2>1 DEF SumFunction
    <3>3. QED
      BY <2>1, <3>1, <3>2, SumZero
  <2>3. QueuedFrom(p, r) = 0
    BY <2>2 DEF QueuedFrom, f
  <2>4. CopiedFrom(p, r) = 0 /\ CopiedTo(p, r) = 0
    BY <1>2 DEF CopiedFrom, CopiedTo
  <2>5. /\ hdrm_bytes[p][r] = 0 /\ ingress_bytes[p][r] = 0 /\ egress_bytes[p][r] = 0
        /\ Bytes(queues[p][r]) = 0
    BY BytesEmpty DEF Init
  <2>6. QED
    BY <2>3, <2>4, <2>5
<1>4. shared_used_bytes = SumFunction(Shares)
  <2>1. \A pq \in Ports \X Prios : Shares[pq] = 0
    BY MemoryAssumption DEF Shares, GetSharedUsed, Init
  <2>2. /\ IsFiniteSet(Ports \X Prios)
        /\ SumFunction(Shares) = SumFunctionOnSet(Shares, Ports \X Prios)
    <3>1. ingress_bytes \in [Ports -> [Prios -> Int]]
      BY <1>2
    <3>2. QED
      BY <3>1, SharesType
  <2>3. SumFunctionOnSet(Shares, Ports \X Prios) = 0
    BY <2>1, <2>2, SumZero
  <2>4. QED
    BY <2>2, <2>3 DEF Init
<1>5. AccountingMatchesQueues
  BY <1>3, <1>4 DEF AccountingMatchesQueues, Shares
<1>6. QED
  BY <1>1, <1>2, <1>5 DEF AccInv

LEMMA AccInvNext == AccInv /\ [Next \/ \E port \in Ports : LosePfc(port)]_vars => AccInv'
<1> SUFFICES ASSUME AccInv, [Next \/ \E port \in Ports : LosePfc(port)]_vars
             PROVE  AccInv'
  OBVIOUS
<1>1. ASSUME NEW in \in Ports, NEW out \in Ports, NEW q \in Prios,
             NEW psize \in Sizes, SendToDev(in, out, q, psize)
      PROVE  AccInv'
  BY <1>1, SendToDevAcc
<1>2. ASSUME NEW in \in Ports, NEW outs \in OutSets, NEW q \in Prios,
             NEW psize \in Sizes, SendMultiToDevs(in, outs, q, psize)
      PROVE  AccInv'
  BY <1>2, SendMultiToDevsAcc, PortsAssumption
<1>3. CASE MulticastStep
  <2>1. ASSUME NEW out \in multicast.outs, MulticastCopy(out)
        PROVE  AccInv'
    BY <1>3, <2>1, MulticastCopyAcc DEF MulticastStep
  <2>2. ASSUME NEW in \in Ports, NEW q \in Prios, MulticastSend(in, q)
        PROVE  AccInv'
    BY <1>3, <2>2, MulticastSendAcc DEF MulticastStep
  <2>3. QED
    BY <1>3, <2>1, <2>2 DEF MulticastStep
<1>4. ASSUME NEW in \in Ports, NEW out \in Ports, NEW q \in Prios,
             SwitchNotifyDequeue(in, out, q)
      PROVE  AccInv'
  BY <1>4, SwitchNotifyDequeueAcc
<1>5. ASSUME UNCHANGED <<hdrm_bytes, ingress_bytes, egress_bytes, shared_used_bytes, paused,
                         queues, multicast>>
      PROVE  AccInv'
  <2>1. HInv'
    BY <1>5 DEF AccInv, HInv, WeakTypes, HeadroomRespected, HeadroomUseIsPaused
  <2>2. AccountingMatchesQueues'
    BY <1>5 DEF AccInv, AccountingMatchesQueues, QueuedFrom, CopiedFrom, CopiedTo,
                GetSharedUsed
  <2>3. QED
    BY <1>5, <2>1, <2>2 DEF AccInv
<1>6. ASSUME NEW port \in Ports, ReceivePfc(port) \/ LosePfc(port)
      PROVE  AccInv'
  BY <1>5, <1>6 DEF ReceivePfc, LosePfc, mmu_vars, ingress_vars
<1>7. CASE UNCHANGED vars
  BY <1>5, <1>7 DEF vars, mmu_vars, ingress_vars
<1>8. QED
  BY <1>1, <1>2, <1>3, <1>4, <1>6, <1>7 DEF Next

\* Whatever was charged for is queued, and whatever is queued was charged for, to
\* the port it came from; the shared memory in use is what the ports use beyond
\* their reserves.  Losing PFC frames does not disturb it.
THEOREM AccountingIsExact == LossySpec => []AccountingMatchesQueues
<1>1. AccInv => AccountingMatchesQueues
  BY DEF AccInv
<1>2. QED
  BY <1>1, AccInvInit, AccInvNext, PTL DEF LossySpec
-----------------------------------------------------------------------------
(* The frames on their way to a neighbour.                                 *)

\* The positions in s of the frames of priority q.
FramesOf(s, q) == {i \in 1 .. Len(s) : s[i].prio = q}

\* Each frame of priority q on its way changes the pause state that the one before
\* it leaves: `was` is the state now and `is` the state after all of them.
Alternates(s, q, was, is) ==
    /\ FramesOf(s, q) = {} => was = is
    /\ \A i \in FramesOf(s, q) :
          /\ (\A j \in FramesOf(s, q) : i <= j) => s[i].pause # was
          /\ (\A j \in FramesOf(s, q) : j <= i) => s[i].pause = is
          /\ \A j \in FramesOf(s, q) :
                i < j /\ (\A k \in FramesOf(s, q) : k <= i \/ j <= k)
                    => s[i].pause # s[j].pause

\* A frame that changes the last state is sent.
LEMMA AlternatesAppend ==
    ASSUME NEW s \in Seq(Frame), NEW q \in Prios, NEW was \in BOOLEAN, NEW is \in BOOLEAN,
           Alternates(s, q, was, is), NEW f \in Frame, f.prio = q, f.pause # is
    PROVE  Alternates(Append(s, f), q, was, f.pause)
<1> DEFINE t == Append(s, f)
           n == Len(s) + 1
           old == FramesOf(s, q)
           new == FramesOf(t, q)
<1>1. /\ n \in Nat /\ n > 0 /\ Len(t) = n /\ Len(s) = n - 1
      /\ t[n] = f /\ \A i \in 1 .. n - 1 : t[i] = s[i]
  OBVIOUS
<1>2. new = old \union {n} /\ old \subseteq 1 .. n - 1
  <2> HIDE DEF t
  <2>1. new = {i \in 1 .. n : t[i].prio = q} /\ old = {i \in 1 .. n - 1 : s[i].prio = q}
    BY <1>1 DEF FramesOf
  <2>2. \A i : i \in 1 .. n <=> i \in 1 .. n - 1 \/ i = n
    BY <1>1
  <2> HIDE DEF n
  <2>3. QED
    BY <1>1, <2>1, <2>2
<1>3. \A i \in old : t[i] = s[i] /\ i \in Nat /\ i < n
  BY <1>1, <1>2
<1>4. /\ old = {} => was = is
      /\ \A i \in old :
            /\ (\A j \in old : i <= j) => s[i].pause # was
            /\ (\A j \in old : j <= i) => s[i].pause = is
            /\ \A j \in old : i < j /\ (\A k \in old : k <= i \/ j <= k)
                                  => s[i].pause # s[j].pause
  BY DEF Alternates
<1> HIDE DEF t, n, old, new
<1>5. ASSUME NEW i \in new
      PROVE  /\ (\A j \in new : i <= j) => t[i].pause # was
             /\ (\A j \in new : j <= i) => t[i].pause = f.pause
             /\ \A j \in new : i < j /\ (\A k \in new : k <= i \/ j <= k)
                                   => t[i].pause # t[j].pause
  <2>1. CASE i = n
    <3>1. (\A j \in new : i <= j) => old = {}
      BY <1>2, <1>3, <1>1, <2>1
    <3>2. \A j \in new : ~(i < j)
      BY <1>1, <1>2, <1>3, <2>1
    <3>3. QED
      BY <1>1, <1>4, <2>1, <3>1, <3>2
  <2>2. CASE i \in old
    <3>1. t[i] = s[i] /\ i \in Nat /\ i < n
      BY <1>3, <2>2
    <3>2. (\A j \in new : i <= j) => t[i].pause # was
      BY <1>2, <1>4, <2>2, <3>1
    <3>3. ~(\A j \in new : j <= i)
      BY <1>1, <1>2, <3>1
    <3>4. ASSUME NEW j \in new, i < j, \A k \in new : k <= i \/ j <= k
          PROVE  t[i].pause # t[j].pause
      <4>1. CASE j = n
        <5>1. \A k \in old : k <= i
          BY <1>2, <1>3, <3>4, <4>1, <1>1
        <5>2. s[i].pause = is
          BY <1>4, <2>2, <5>1
        <5>3. QED
          BY <1>1, <3>1, <4>1, <5>2
      <4>2. CASE j \in old
        <5>1. \A k \in old : k <= i \/ j <= k
          BY <1>2, <3>4
        <5>2. s[i].pause # s[j].pause
          BY <1>4, <2>2, <3>4, <4>2, <5>1
        <5>3. QED
          BY <1>3, <3>1, <4>2, <5>2
      <4>3. QED
        BY <1>2, <4>1, <4>2
    <3>5. QED
      BY <3>2, <3>3, <3>4
  <2>3. QED
    BY <1>2, <2>1, <2>2
<1>6. new # {}
  BY <1>2
<1>7. QED
  BY <1>5, <1>6 DEF Alternates, new, t

\* A frame of another priority is sent.
LEMMA AlternatesAppendOther ==
    ASSUME NEW s \in Seq(Frame), NEW q \in Prios, NEW was \in BOOLEAN, NEW is \in BOOLEAN,
           Alternates(s, q, was, is), NEW f \in Frame, f.prio # q
    PROVE  Alternates(Append(s, f), q, was, is)
<1> DEFINE t == Append(s, f)
           n == Len(s) + 1
<1>1. /\ n \in Nat /\ n > 0 /\ Len(t) = n /\ Len(s) = n - 1
      /\ t[n] = f /\ \A i \in 1 .. n - 1 : t[i] = s[i]
  OBVIOUS
<1> HIDE DEF t
<1>2. \A i : i \in 1 .. n <=> i \in 1 .. n - 1 \/ i = n
  BY <1>1
<1> HIDE DEF n
<1>3. FramesOf(t, q) = FramesOf(s, q) /\ \A i \in FramesOf(s, q) : t[i] = s[i]
  BY <1>1, <1>2 DEF FramesOf
<1>4. QED
  BY <1>3 DEF Alternates, t

\* The first frame arrives, if it is of priority q, or leaves.
LEMMA AlternatesTail ==
    ASSUME NEW s \in Seq(Frame), s # << >>, NEW q \in Prios,
           NEW was \in BOOLEAN, NEW is \in BOOLEAN, Alternates(s, q, was, is)
    PROVE  Alternates(Tail(s), q, IF Head(s).prio = q THEN Head(s).pause ELSE was, is)
<1> DEFINE t == Tail(s)
           n == Len(s)
           now == IF Head(s).prio = q THEN Head(s).pause ELSE was
           old == FramesOf(s, q)
           new == FramesOf(t, q)
<1>1. /\ n \in Nat /\ n > 0 /\ Len(t) = n - 1 /\ Head(s) = s[1]
      /\ \A i \in 1 .. n - 1 : t[i] = s[i + 1]
  OBVIOUS
<1> HIDE DEF t
<1>2. /\ \A i \in new : i \in Nat /\ i > 0 /\ i + 1 \in old /\ t[i] = s[i + 1]
      /\ \A i \in old : i \in Nat /\ (i = 1 \/ (i > 1 /\ i - 1 \in new))
      /\ 1 \in old <=> Head(s).prio = q
  <2>1. new = {i \in 1 .. n - 1 : t[i].prio = q} /\ old = {i \in 1 .. n : s[i].prio = q}
    BY <1>1 DEF FramesOf
  <2> HIDE DEF n, old, new
  <2>2. \A i \in new : i \in Nat /\ i > 0 /\ i + 1 \in old /\ t[i] = s[i + 1]
    <3> TAKE i \in new
    <3>1. i \in 1 .. n - 1 /\ t[i].prio = q
      BY <2>1
    <3>2. i + 1 \in 1 .. n /\ t[i] = s[i + 1] /\ i \in Nat /\ i > 0
      BY <1>1, <3>1
    <3>3. QED
      BY <2>1, <3>1, <3>2
  <2>3. \A i \in old : i \in Nat /\ (i = 1 \/ (i > 1 /\ i - 1 \in new))
    <3> TAKE i \in old
    <3>1. i \in 1 .. n /\ s[i].prio = q
      BY <2>1
    <3>2. CASE i > 1
      <4>1. i - 1 \in 1 .. n - 1 /\ (i - 1) + 1 = i
        BY <1>1, <3>1, <3>2
      <4>2. t[i - 1] = s[i]
        BY <1>1, <4>1
      <4>3. QED
        BY <2>1, <3>1, <3>2, <4>1, <4>2
    <3>3. QED
      BY <3>1, <3>2
  <2>4. 1 \in 1 .. n
    BY <1>1
  <2>5. QED
    BY <1>1, <2>1, <2>2, <2>3, <2>4
<1>3. /\ old = {} => was = is
      /\ \A i \in old :
            /\ (\A j \in old : i <= j) => s[i].pause # was
            /\ (\A j \in old : j <= i) => s[i].pause = is
            /\ \A j \in old : i < j /\ (\A k \in old : k <= i \/ j <= k)
                                  => s[i].pause # s[j].pause
  BY DEF Alternates
<1>4. Head(s).prio = q => now = s[1].pause
  BY <1>1
<1>5. Head(s).prio # q => now = was
  OBVIOUS
<1> HIDE DEF n, now, old, new
<1>6. new = {} => now = is
  <2> SUFFICES ASSUME new = {} PROVE now = is
    OBVIOUS
  <2>1. CASE Head(s).prio = q
    <3>1. 1 \in old /\ \A j \in old : j <= 1
      BY <1>2, <2>1
    <3>2. QED
      BY <1>3, <1>4, <2>1, <3>1
  <2>2. CASE Head(s).prio # q
    <3>1. old = {}
      BY <1>2, <2>2
    <3>2. QED
      BY <1>3, <1>5, <2>2, <3>1
  <2>3. QED
    BY <2>1, <2>2
<1>7. ASSUME NEW i \in new
      PROVE  /\ (\A j \in new : i <= j) => t[i].pause # now
             /\ (\A j \in new : j <= i) => t[i].pause = is
             /\ \A j \in new : i < j /\ (\A k \in new : k <= i \/ j <= k)
                                   => t[i].pause # t[j].pause
  <2>1. i \in Nat /\ i > 0 /\ i + 1 \in old /\ t[i] = s[i + 1]
    BY <1>2
  <2>2. ASSUME \A j \in new : i <= j PROVE t[i].pause # now
    <3>1. \A k \in old : k = 1 \/ i + 1 <= k
      BY <1>2, <2>1, <2>2
    <3>2. CASE Head(s).prio = q
      <4>1. 1 \in old /\ 1 < i + 1 /\ \A k \in old : k <= 1 \/ i + 1 <= k
        BY <1>2, <2>1, <3>1, <3>2
      <4>2. s[1].pause # s[i + 1].pause
        BY <1>3, <2>1, <4>1
      <4>3. QED
        BY <1>4, <2>1, <3>2, <4>2
    <3>3. CASE Head(s).prio # q
      <4>1. \A k \in old : i + 1 <= k
        BY <1>2, <3>1, <3>3
      <4>2. QED
        BY <1>3, <1>5, <2>1, <3>3, <4>1
    <3>4. QED
      BY <3>2, <3>3
  <2>3. ASSUME \A j \in new : j <= i PROVE t[i].pause = is
    <3>1. \A k \in old : k <= i + 1
      BY <1>2, <2>1, <2>3
    <3>2. QED
      BY <1>3, <2>1, <3>1
  <2>4. ASSUME NEW j \in new, i < j, \A k \in new : k <= i \/ j <= k
        PROVE  t[i].pause # t[j].pause
    <3>1. j \in Nat /\ j + 1 \in old /\ t[j] = s[j + 1] /\ i + 1 < j + 1
      BY <1>2, <2>1, <2>4
    <3>2. \A k \in old : k <= i + 1 \/ j + 1 <= k
      BY <1>2, <2>1, <2>4, <3>1
    <3>3. QED
      BY <1>3, <2>1, <3>1, <3>2
  <2>5. QED
    BY <2>2, <2>3, <2>4
<1>8. QED
  BY <1>6, <1>7 DEF Alternates, new, now, t

\* What the properties say follows from the alternation.
LEMMA AlternatesMeans ==
    ASSUME NEW s \in Seq(Frame), NEW q \in Prios, NEW was \in BOOLEAN, NEW is \in BOOLEAN,
           Alternates(s, q, was, is)
    PROVE  /\ LET last == SelectLastInSeq(s, LAMBDA frame : frame.prio = q)
              IN  (IF last = 0 THEN was ELSE s[last].pause) = is
           /\ s # << >> /\ Head(s).prio = q => Head(s).pause # was
<1> DEFINE I == FramesOf(s, q)
           last == SelectLastInSeq(s, LAMBDA frame : frame.prio = q)
<1>1. last = IF I # {} THEN Max(I) ELSE 0
  BY DEF SelectLastInSeq, FramesOf
<1>2. (IF last = 0 THEN was ELSE s[last].pause) = is
  <2>1. CASE I = {}
    BY <1>1, <2>1 DEF Alternates
  <2>2. CASE I # {}
    <3>1. IsFiniteSet(I) /\ I \in SUBSET Nat /\ \A i \in I : i > 0 /\ i <= Len(s)
      <4>1. Len(s) \in Nat /\ I \in SUBSET (1 .. Len(s))
        BY DEF FramesOf
      <4>2. IsFiniteSet(1 .. Len(s))
        BY <4>1, FS_Interval
      <4>3. IsFiniteSet(I)
        BY <4>1, <4>2, FS_Subset
      <4>4. QED
        BY <4>1, <4>3
    <3>2. \E m \in I : \A i \in I : m >= i
      <4> DEFINE D == {Len(s) - i : i \in I}
      <4>1. D \in SUBSET Nat /\ D # {}
        BY <2>2, <3>1
      <4> HIDE DEF D
      <4>2. PICK d \in D : \A e \in D : d <= e
        BY <4>1, LeastNatural
      <4>3. PICK m \in I : d = Len(s) - m
        BY DEF D
      <4>4. \A i \in I : d <= Len(s) - i
        BY <4>2 DEF D
      <4>5. \A i \in I : m >= i
        BY <3>1, <4>3, <4>4
      <4>6. QED
        BY <4>5
    <3>3. Max(I) \in I /\ \A i \in I : Max(I) >= i
      BY <3>2 DEF Max
    <3> DEFINE m == Max(I)
    <3>4. m \in I /\ m # 0 /\ last = m /\ \A j \in I : j <= m
      BY <1>1, <2>2, <3>1, <3>3
    <3> HIDE DEF m, last
    <3>5. s[m].pause = is
      BY <3>4 DEF Alternates
    <3>6. QED
      BY <3>4, <3>5
  <2>3. QED
    BY <2>1, <2>2
<1>3. ASSUME s # << >>, Head(s).prio = q PROVE Head(s).pause # was
  <2>1. Len(s) \in Nat /\ Len(s) > 0 /\ Head(s) = s[1]
    BY <1>3
  <2>2. 1 \in I /\ \A j \in I : 1 <= j
    BY <1>3, <2>1 DEF FramesOf
  <2> HIDE DEF I
  <2>3. QED
    BY <2>1, <2>2 DEF Alternates, I
<1>4. QED
  BY <1>2, <1>3
PfcTypes ==
    /\ paused \in [Ports -> [Prios -> BOOLEAN]]
    /\ pfc \in [Ports -> Seq(Frame)]
    /\ m_paused \in [Ports -> [Prios -> BOOLEAN]]

PauseInv ==
    /\ PfcTypes
    /\ \A port \in Ports, q \in Prios :
          Alternates(pfc[port], q, m_paused[port][q], paused[port][q])

\* A PAUSE or a RESUME frame is sent only to a neighbour that was told the
\* opposite before.
PfcSent(port, q, pause) ==
    /\ paused[port][q] # pause
    /\ SendPfc(port, q, pause)
    /\ paused' = [paused EXCEPT ![port][q] = pause]

LEMMA FramesAreSent ==
    ASSUME Next \/ UNCHANGED vars
    PROVE  \/ UNCHANGED <<paused, pfc, m_paused>>
           \/ /\ \E port \in Ports, q \in Prios, pause \in BOOLEAN : PfcSent(port, q, pause)
              /\ UNCHANGED m_paused
           \/ \E port \in Ports : ReceivePfc(port)
<1> DEFINE Sends == \/ UNCHANGED <<paused, pfc>>
                    \/ \E port \in Ports, q \in Prios, pause \in BOOLEAN :
                          PfcSent(port, q, pause)
<1>1. ASSUME NEW port \in Ports, NEW q \in Prios, CheckAndSendPfc(port, q)
      PROVE  Sends
  BY <1>1 DEF CheckAndSendPfc, PfcSent
<1>2. ASSUME NEW port \in Ports, NEW q \in Prios, CheckAndSendResume(port, q)
      PROVE  Sends
  BY <1>2 DEF CheckAndSendResume, PfcSent
<1> HIDE DEF Sends
<1>3. ASSUME NEW in \in Ports, NEW out \in Ports, NEW q \in Prios,
             NEW psize \in Sizes, SendToDev(in, out, q, psize)
      PROVE  Sends /\ UNCHANGED m_paused
  BY <1>1, <1>3 DEF SendToDev
<1>4. ASSUME NEW in \in Ports, NEW outs \in OutSets, NEW q \in Prios,
             NEW psize \in Sizes, SendMultiToDevs(in, outs, q, psize)
      PROVE  Sends /\ UNCHANGED m_paused
  BY <1>4 DEF SendMultiToDevs, mmu_vars, Sends
<1>5. ASSUME NEW out, MulticastCopy(out)
      PROVE  Sends /\ UNCHANGED m_paused
  BY <1>5 DEF MulticastCopy, Sends
<1>6. ASSUME NEW in \in Ports, NEW q \in Prios, MulticastSend(in, q)
      PROVE  Sends /\ UNCHANGED m_paused
  BY <1>1, <1>6 DEF MulticastSend
<1>7. ASSUME NEW in \in Ports, NEW out \in Ports, NEW q \in Prios,
             SwitchNotifyDequeue(in, out, q)
      PROVE  Sends /\ UNCHANGED m_paused
  BY <1>2, <1>7 DEF SwitchNotifyDequeue
<1>8. CASE UNCHANGED vars
  BY <1>8 DEF vars, mmu_vars
<1>9. QED
  BY <1>3, <1>4, <1>5, <1>6, <1>7, <1>8 DEF Next, MulticastStep, Sends

LEMMA SentTypes ==
    ASSUME PfcTypes, NEW port \in Ports, NEW q \in Prios, NEW pause \in BOOLEAN,
           PfcSent(port, q, pause), UNCHANGED m_paused
    PROVE  PfcTypes'
<1> DEFINE f == [prio |-> q, pause |-> pause]
<1>1. f \in Frame
  BY DEF Frame
<1>2. pfc' = [pfc EXCEPT ![port] = Append(@, f)]
  BY DEF PfcSent, SendPfc
<1> HIDE DEF f
<1>3. pfc' \in [Ports -> Seq(Frame)]
  BY <1>1, <1>2 DEF PfcTypes
<1>4. QED
  BY <1>3 DEF PfcTypes, PfcSent

LEMMA TailTypes ==
    ASSUME PfcTypes, NEW port \in Ports, pfc[port] # << >>,
           pfc' = [pfc EXCEPT ![port] = Tail(@)]
    PROVE  pfc' \in [Ports -> Seq(Frame)] /\ Head(pfc[port]) \in Frame
<1>1. pfc[port] \in Seq(Frame)
  BY DEF PfcTypes
<1>2. Tail(pfc[port]) \in Seq(Frame) /\ Head(pfc[port]) \in Frame
  BY <1>1
<1>3. QED
  BY <1>2 DEF PfcTypes

LEMMA ReceiveTypes ==
    ASSUME PfcTypes, NEW port \in Ports, ReceivePfc(port)
    PROVE  PfcTypes'
<1> DEFINE frame == Head(pfc[port])
<1>1. frame.prio \in Prios /\ frame.pause \in BOOLEAN /\ pfc' \in [Ports -> Seq(Frame)]
  BY TailTypes DEF ReceivePfc, Frame
<1>2. /\ m_paused' = [m_paused EXCEPT ![port][frame.prio] = frame.pause]
      /\ paused' = paused
  BY DEF ReceivePfc, mmu_vars
<1> HIDE DEF frame
<1>3. QED
  BY <1>1, <1>2 DEF PfcTypes

LEMMA PauseInvInit == Init => PauseInv
<1> SUFFICES ASSUME Init PROVE PauseInv
  OBVIOUS
<1>1. PfcTypes
  BY DEF Init, PfcTypes
<1>2. \A q : FramesOf(<< >>, q) = {}
  BY DEF FramesOf
<1>3. QED
  BY <1>1, <1>2 DEF Init, PauseInv, Alternates

LEMMA PauseInvNext == PauseInv /\ [Next]_vars => PauseInv'
<1> SUFFICES ASSUME PauseInv, Next \/ UNCHANGED vars PROVE PauseInv'
  OBVIOUS
<1>1. CASE UNCHANGED <<paused, pfc, m_paused>>
  BY <1>1 DEF PauseInv, PfcTypes
<1>2. ASSUME NEW port \in Ports, NEW q \in Prios, NEW pause \in BOOLEAN,
             PfcSent(port, q, pause), UNCHANGED m_paused
      PROVE  PauseInv'
  <2> DEFINE f == [prio |-> q, pause |-> pause]
  <2>1. PfcTypes'
    BY <1>2, SentTypes DEF PauseInv
  <2>2. /\ f \in Frame /\ f.prio = q /\ f.pause = pause /\ paused[port][q] # pause
        /\ pfc' = [pfc EXCEPT ![port] = Append(@, f)]
        /\ paused' = [paused EXCEPT ![port][q] = pause]
    BY <1>2 DEF Frame, PfcSent, SendPfc
  <2> HIDE DEF f
  <2>3. ASSUME NEW p \in Ports, NEW r \in Prios
        PROVE  Alternates(pfc'[p], r, m_paused'[p][r], paused'[p][r])
    <3>1. /\ pfc[p] \in Seq(Frame) /\ m_paused[p][r] \in BOOLEAN /\ paused[p][r] \in BOOLEAN
          /\ Alternates(pfc[p], r, m_paused[p][r], paused[p][r])
          /\ m_paused' = m_paused
      BY <1>2 DEF PauseInv, PfcTypes
    <3>2. CASE p # port
      <4>1. pfc'[p] = pfc[p] /\ paused'[p][r] = paused[p][r]
        BY <2>2, <3>2 DEF PauseInv, PfcTypes
      <4>2. QED
        BY <3>1, <4>1
    <3>3. CASE p = port /\ r # q
      <4>1. pfc'[p] = Append(pfc[p], f) /\ paused'[p][r] = paused[p][r]
        BY <2>2, <3>3 DEF PauseInv, PfcTypes
      <4>2. QED
        BY <2>2, <3>1, <3>3, <4>1, AlternatesAppendOther
    <3>4. CASE p = port /\ r = q
      <4>1. pfc'[p] = Append(pfc[p], f) /\ paused'[p][r] = f.pause
        BY <2>2, <3>4 DEF PauseInv, PfcTypes
      <4>2. QED
        BY <2>2, <3>1, <3>4, <4>1, AlternatesAppend
    <3>5. QED
      BY <3>2, <3>3, <3>4
  <2>4. QED
    BY <2>1, <2>3 DEF PauseInv
<1>3. ASSUME NEW port \in Ports, ReceivePfc(port)
      PROVE  PauseInv'
  <2> DEFINE s == pfc[port]
             frame == Head(s)
  <2>1. PfcTypes'
    BY <1>3, ReceiveTypes DEF PauseInv
  <2>2. s \in Seq(Frame) /\ s # << >> /\ frame \in Frame
    BY <1>3, TailTypes DEF PauseInv, PfcTypes, ReceivePfc
  <2>3. /\ m_paused' = [m_paused EXCEPT ![port][frame.prio] = frame.pause]
        /\ pfc' = [pfc EXCEPT ![port] = Tail(@)]
        /\ paused' = paused
    BY <1>3 DEF ReceivePfc, mmu_vars
  <2>4. ASSUME NEW p \in Ports, NEW r \in Prios
        PROVE  Alternates(pfc'[p], r, m_paused'[p][r], paused'[p][r])
    <3>1. /\ pfc[p] \in Seq(Frame) /\ m_paused[p][r] \in BOOLEAN /\ paused[p][r] \in BOOLEAN
          /\ Alternates(pfc[p], r, m_paused[p][r], paused[p][r])
      BY DEF PauseInv, PfcTypes
    <3>2. CASE p # port
      <4>1. pfc'[p] = pfc[p] /\ m_paused'[p][r] = m_paused[p][r]
        BY <2>3, <3>2 DEF PauseInv, PfcTypes
      <4>2. QED
        BY <2>3, <3>1, <4>1
    <3>3. CASE p = port
      <4>1. Alternates(Tail(s), r, IF frame.prio = r THEN frame.pause ELSE m_paused[p][r],
                       paused[p][r])
        <5>1. s # << >> /\ s = pfc[p]
          BY <2>2, <3>3
        <5> HIDE DEF s
        <5>2. QED
          BY <3>1, <5>1, AlternatesTail
      <4>2. pfc'[p] = Tail(s)
        BY <2>3, <3>3 DEF PauseInv, PfcTypes
      <4>3. m_paused'[p][r] = IF frame.prio = r THEN frame.pause ELSE m_paused[p][r]
        <5>1. frame.prio \in Prios
          BY <2>2 DEF Frame
        <5> HIDE DEF frame
        <5>2. QED
          BY <2>3, <3>3, <5>1 DEF PauseInv, PfcTypes
      <4> HIDE DEF s, frame
      <4>4. QED
        BY <2>3, <4>1, <4>2, <4>3
    <3>4. QED
      BY <3>2, <3>3
  <2>5. QED
    BY <2>1, <2>4 DEF PauseInv
<1>4. QED
  BY <1>1, <1>2, <1>3, FramesAreSent

\* As long as no PFC frame is lost, the switch and a neighbour agree on whether it
\* is paused once the frames in flight have arrived, and a RESUME frame finds the
\* neighbour paused: the assertion of QbbNetDevice::Resume holds.
THEOREM PauseStatesDoAgree == Spec => []PauseStatesAgree
<1>1. PauseInv => PauseStatesAgree
  <2> SUFFICES ASSUME PauseInv, NEW port \in Ports
               PROVE  /\ \A q \in Prios : AfterFrames(port, q, pfc[port]) = paused[port][q]
                      /\ pfc[port] # << >> /\ ~Head(pfc[port]).pause
                             => m_paused[port][Head(pfc[port]).prio]
    BY DEF PauseStatesAgree
  <2> DEFINE s == pfc[port]
  <2>1. s \in Seq(Frame)
    BY DEF PauseInv, PfcTypes
  <2>2. ASSUME NEW q \in Prios
        PROVE  /\ m_paused[port][q] \in BOOLEAN /\ paused[port][q] \in BOOLEAN
               /\ Alternates(s, q, m_paused[port][q], paused[port][q])
    BY DEF PauseInv, PfcTypes
  <2> HIDE DEF s
  <2>3. ASSUME NEW q \in Prios
        PROVE  AfterFrames(port, q, s) = paused[port][q]
    BY <2>1, <2>2, AlternatesMeans DEF AfterFrames
  <2>4. ASSUME s # << >>, ~Head(s).pause
        PROVE  m_paused[port][Head(s).prio]
    <3>1. Head(s) \in Frame
      BY <2>1, <2>4
    <3>2. Head(s).prio \in Prios /\ Head(s).pause \in BOOLEAN
      BY <3>1 DEF Frame
    <3>3. Head(s).pause # m_paused[port][Head(s).prio]
      BY <2>1, <2>2, <2>4, <3>2, AlternatesMeans
    <3>4. m_paused[port][Head(s).prio] \in BOOLEAN
      BY <2>2, <3>2
    <3>5. QED
      BY <2>4, <3>2, <3>3, <3>4
  <2>5. QED
    BY <2>3, <2>4 DEF s
<1>2. QED
  BY <1>1, PauseInvInit, PauseInvNext, PTL DEF Spec

\* No byte counter underflows, and every queue and frame is well formed, even when
\* PFC frames are lost: the NS_ABORTs of RemoveFromIngressAdmission never fire.
THEOREM TypesAreKept == LossySpec => []TypeOK
<1> DEFINE TInv == AccInv /\ PfcTypes
           Step == [Next \/ \E port \in Ports : LosePfc(port)]_vars
<1>1. Init => TInv
  BY AccInvInit, PauseInvInit DEF PauseInv
<1>2. TInv /\ Step => TInv'
  <2> SUFFICES ASSUME TInv, Step PROVE TInv'
    OBVIOUS
  <2>1. AccInv'
    BY AccInvNext
  <2>2. CASE Next \/ UNCHANGED vars
    BY <2>1, <2>2, FramesAreSent, SentTypes, ReceiveTypes DEF PfcTypes
  <2>3. ASSUME NEW port \in Ports, LosePfc(port) PROVE PfcTypes'
    <3>1. pfc' \in [Ports -> Seq(Frame)]
      BY <2>3, TailTypes DEF LosePfc
    <3>2. QED
      BY <2>3, <3>1 DEF LosePfc, PfcTypes, mmu_vars
  <2>4. QED
    BY <2>1, <2>2, <2>3
<1>3. TInv => TypeOK
  <2> SUFFICES ASSUME AccInv, PfcTypes PROVE TypeOK
    OBVIOUS
  <2>1. \A port \in Ports, q \in Prios : egress_bytes[port][q] \in Nat
    BY AccountingFacts
  <2>2. shared_used_bytes \in Nat
    <3>1. ingress_bytes \in [Ports -> [Prios -> Int]]
      BY DEF AccInv
    <3>2. SumFunction(Shares) \in Nat
      BY <3>1, SharesType
    <3>3. QED
      BY <3>2, AccountingFacts
  <2>3. QED
    BY <2>1, <2>2 DEF AccInv, HInv, WeakTypes, PfcTypes, TypeOK
<1>4. QED
  BY <1>1, <1>2, <1>3, PTL DEF LossySpec
-----------------------------------------------------------------------------
(* Only a multicast of which no copy was made strands a neighbour.         *)

Held(port, q) == hdrm_bytes[port][q] + ingress_bytes[port][q]

\* What the steps of OnlyLostMulticastsStrand do to one port and priority.
StrandedBy(port, q) ==
    ~Stranded(port, q) /\ Stranded(port, q)' =>
        /\ multicast.active /\ multicast.in = port /\ multicast.prio = q
        /\ multicast.outs = {} /\ multicast.tosend = {}
        /\ GetPfcThreshold(port) = 0

LEMMA HeldType ==
    ASSUME AccInv, NEW port \in Ports, NEW q \in Prios
    PROVE  /\ Held(port, q) \in Nat
           /\ hdrm_bytes[port][q] \in Nat /\ ingress_bytes[port][q] \in Nat
  BY AccountingFacts DEF Held

\* The copies made in the loop of SendMultiToDevs are charged.
LEMMA CopiesAreHeld ==
    ASSUME AccInv, multicast.active, multicast.tosend # {}
    PROVE  Held(multicast.in, multicast.prio) > 0
<1>1. multicast \in [active: {TRUE}, in: Ports, prio: Prios, size: Sizes,
                     outs: SUBSET Ports, tosend: SUBSET Ports]
  BY ActiveMulticast DEF AccInv, HInv, WeakTypes
<1>2. multicast.size \in Nat \ {0}
  BY <1>1, PortsAssumption
<1>3. IsFiniteSet(multicast.tosend)
  BY <1>1, PortsAssumption, FS_Subset
<1>4. Cardinality(multicast.tosend) \in Nat /\ Cardinality(multicast.tosend) # 0
  BY <1>3, FS_CardinalityType, FS_EmptySet
<1> DEFINE z == multicast.size
           n == Cardinality(multicast.tosend)
<1>5. z * n > 0 /\ z * n \in Nat
  <2>1. z \in Nat \ {0} /\ n \in Nat \ {0}
    BY <1>2, <1>4
  <2> HIDE DEF z, n
  <2>2. QED
    BY <2>1
<1>6. CopiedFrom(multicast.in, multicast.prio) = z * n
  BY DEF CopiedFrom
<1>7. /\ QueuedFrom(multicast.in, multicast.prio) \in Nat
      /\ Held(multicast.in, multicast.prio) =
             QueuedFrom(multicast.in, multicast.prio) + CopiedFrom(multicast.in, multicast.prio)
  BY <1>1, AccountingFacts DEF Held
<1> HIDE DEF z, n
<1>8. QED
  BY <1>5, <1>6, <1>7

\* Only one neighbour is told to pause, and nobody to resume.
LEMMA PausesOne ==
    ASSUME NEW port \in Ports, NEW q \in Prios, CheckAndSendPfc(port, q),
           paused \in [Ports -> [Prios -> BOOLEAN]]
    PROVE  \A p \in Ports, r \in Prios :
              paused'[p][r] => paused[p][r] \/ (p = port /\ r = q)
  BY DEF CheckAndSendPfc

\* A neighbour without packets is told to pause only when its threshold is 0.
LEMMA PausesEmptyAtZero ==
    ASSUME NEW port \in Ports, NEW q \in Prios, CheckAndSendPfc(port, q),
           shared_used_bytes \in Int, UNCHANGED ingress_vars,
           hdrm_bytes[port][q] = 0, ingress_bytes[port][q] = 0,
           ~paused[port][q], paused'[port][q]
    PROVE  GetPfcThreshold(port) = 0
<1>1. IsCongested(port, q)'
  BY DEF CheckAndSendPfc
<1>2. GetSharedUsed(port, q) = 0
  BY MemoryAssumption DEF GetSharedUsed
<1>3. 0 >= GetPfcThreshold(port)
  BY <1>1, <1>2 DEF IsCongested, GetSharedUsed, GetPfcThreshold, ingress_vars
<1>4. GetPfcThreshold(port) \in Nat
  <2> DEFINE x == BufferSize - total_hdrm - total_rsrv - shared_used_bytes
             d == Divisor[port]
  <2>1. d \in Nat \ {0} /\ x \in Int
    BY MemoryAssumption
  <2>2. CASE BufferSize < total_hdrm + total_rsrv + shared_used_bytes
    BY <2>2 DEF GetPfcThreshold
  <2>3. CASE ~(BufferSize < total_hdrm + total_rsrv + shared_used_bytes)
    <3>1. x \in Nat
      BY <2>1, <2>3, MemoryAssumption
    <3>2. x \div d \in Nat
      <4> HIDE DEF x, d
      <4>1. QED
        BY <2>1, <3>1
    <3>3. QED
      BY <2>3, <3>2 DEF GetPfcThreshold
  <2>4. QED
    BY <2>2, <2>3
<1>5. QED
  BY <1>3, <1>4

\* Nobody is told to pause, and a paused neighbour without packets is told to
\* resume.
LEMMA ResumesWhenEmpty ==
    ASSUME NEW port \in Ports, NEW q \in Prios, CheckAndSendResume(port, q),
           paused \in [Ports -> [Prios -> BOOLEAN]],
           hdrm_bytes'[port][q] = 0, ingress_bytes'[port][q] = 0
    PROVE  ~paused'[port][q]
<1>1. IsRelieved(port, q)'
  BY MemoryAssumption DEF IsRelieved, GetSharedUsed
<1>2. QED
  BY <1>1 DEF CheckAndSendResume

LEMMA ResumesOne ==
    ASSUME NEW port \in Ports, NEW q \in Prios, CheckAndSendResume(port, q),
           paused \in [Ports -> [Prios -> BOOLEAN]]
    PROVE  \A p \in Ports, r \in Prios : paused'[p][r] => paused[p][r]
  BY DEF CheckAndSendResume

\* A step that strands nobody if it only keeps old pauses, or pauses a neighbour
\* that has packets, and takes no neighbour's last packet.
LEMMA StrandsNobody ==
    ASSUME \A p \in Ports, r \in Prios : paused'[p][r] => paused[p][r] \/ Held(p, r)' # 0,
           \A p \in Ports, r \in Prios : Held(p, r)' = 0 => Held(p, r) = 0 \/ ~paused'[p][r]
    PROVE  \A p \in Ports, r \in Prios : StrandedBy(p, r)
  BY DEF StrandedBy, Stranded, Held

LEMMA StrandingSteps ==
    AccInv /\ AccInv' /\ [Next \/ \E port \in Ports : LosePfc(port)]_vars =>
        \A p \in Ports, r \in Prios : StrandedBy(p, r)
<1> SUFFICES ASSUME AccInv, AccInv', [Next \/ \E port \in Ports : LosePfc(port)]_vars
             PROVE  \A p \in Ports, r \in Prios : StrandedBy(p, r)
  OBVIOUS
<1>1. paused \in [Ports -> [Prios -> BOOLEAN]] /\ shared_used_bytes \in Int
  BY DEF AccInv, HInv, WeakTypes
<1>2. \A p \in Ports, r \in Prios :
         Held(p, r) \in Nat /\ hdrm_bytes[p][r] \in Nat /\ ingress_bytes[p][r] \in Nat
  BY HeldType
<1>3. ASSUME NEW in \in Ports, NEW out \in Ports, NEW q \in Prios,
             NEW psize \in Sizes, SendToDev(in, out, q, psize)
      PROVE  \A p \in Ports, r \in Prios : StrandedBy(p, r)
  <2>1. /\ CheckIngressAdmission(in, q, psize)
        /\ UpdateIngressAdmission(in, q, psize)
        /\ CheckAndSendPfc(in, q)
    BY <1>3 DEF SendToDev
  <2>2. \A p \in Ports, r \in Prios :
           Held(p, r)' = Held(p, r) + (IF p = in /\ r = q THEN psize ELSE 0)
    BY <2>1, AccountingFacts, ChargeIsAccounted DEF Held
  <2>3. \A p \in Ports, r \in Prios : paused'[p][r] => paused[p][r] \/ (p = in /\ r = q)
    BY <1>1, <2>1, PausesOne
  <2>4. psize \in Nat \ {0}
    BY PortsAssumption
  <2>5. Held(in, q)' # 0
    BY <1>2, <2>2, <2>4
  <2>6. \A p \in Ports, r \in Prios : Held(p, r)' = 0 => Held(p, r) = 0
    BY <1>2, <2>2, <2>4
  <2>7. QED
    BY <2>3, <2>5, <2>6, StrandsNobody
<1>4. ASSUME UNCHANGED mmu_vars
      PROVE  \A p \in Ports, r \in Prios : StrandedBy(p, r)
  BY <1>4 DEF StrandedBy, Stranded, mmu_vars, ingress_vars
<1>5. ASSUME multicast.active, NEW out \in multicast.outs, MulticastCopy(out)
      PROVE  \A p \in Ports, r \in Prios : StrandedBy(p, r)
  <2>1. PICK in \in Ports, q \in Prios, psize \in Sizes :
           in = multicast.in /\ q = multicast.prio /\ psize = multicast.size
    <3>1. multicast \in [active: {TRUE}, in: Ports, prio: Prios, size: Sizes,
                         outs: SUBSET Ports, tosend: SUBSET Ports]
      BY <1>5, ActiveMulticast DEF AccInv, HInv, WeakTypes
    <3>2. QED
      BY <3>1
  <2>2. psize \in Nat \ {0}
    BY PortsAssumption
  <2>3. paused' = paused
    BY <1>5 DEF MulticastCopy
  <2>4. CASE CheckIngressAdmission(in, q, psize)
    <3>1. UpdateIngressAdmission(in, q, psize)
      BY <1>5, <2>1, <2>4 DEF MulticastCopy
    <3>2. \A p \in Ports, r \in Prios :
             Held(p, r)' = Held(p, r) + (IF p = in /\ r = q THEN psize ELSE 0)
      BY <2>4, <3>1, AccountingFacts, ChargeIsAccounted DEF Held
    <3>3. \A p \in Ports, r \in Prios : Held(p, r)' = 0 => Held(p, r) = 0
      BY <1>2, <2>2, <3>2
    <3>4. QED
      BY <2>3, <3>3, StrandsNobody
  <2>5. CASE ~CheckIngressAdmission(in, q, psize)
    BY <1>4, <1>5, <2>1, <2>3, <2>5 DEF MulticastCopy, mmu_vars, ingress_vars
  <2>6. QED
    BY <2>4, <2>5
<1>6. ASSUME multicast.active, NEW in \in Ports, NEW q \in Prios, MulticastSend(in, q)
      PROVE  \A p \in Ports, r \in Prios : StrandedBy(p, r)
  <2>1. /\ multicast.in = in /\ multicast.prio = q /\ multicast.outs = {}
        /\ UNCHANGED ingress_vars
        /\ CheckAndSendPfc(in, q)
    BY <1>6 DEF MulticastSend
  <2>2. \A p \in Ports, r \in Prios : paused'[p][r] => paused[p][r] \/ (p = in /\ r = q)
    BY <1>1, <2>1, PausesOne
  <2>3. ASSUME NEW p \in Ports, NEW r \in Prios, ~Stranded(p, r), Stranded(p, r)'
        PROVE  /\ multicast.in = p /\ multicast.prio = r /\ multicast.tosend = {}
               /\ GetPfcThreshold(p) = 0
    <3>1. paused'[p][r] /\ Held(p, r) = 0
      BY <2>1, <2>3 DEF Stranded, Held, ingress_vars
    <3>2. ~paused[p][r]
      BY <2>3, <3>1 DEF Stranded, Held
    <3>3. p = in /\ r = q
      BY <2>2, <3>1, <3>2
    <3>4. multicast.tosend = {}
      BY <1>6, <2>1, <3>1, <3>3, CopiesAreHeld
    <3>5. hdrm_bytes[p][r] = 0 /\ ingress_bytes[p][r] = 0
      BY <1>2, <3>1 DEF Held
    <3>6. GetPfcThreshold(p) = 0
      BY <1>1, <2>1, <3>1, <3>2, <3>3, <3>5, PausesEmptyAtZero
    <3>7. QED
      BY <2>1, <3>3, <3>4, <3>6
  <2>4. QED
    BY <1>6, <2>1, <2>3 DEF StrandedBy
<1>7. ASSUME NEW in \in Ports, NEW out \in Ports, NEW q \in Prios,
             SwitchNotifyDequeue(in, out, q)
      PROVE  \A p \in Ports, r \in Prios : StrandedBy(p, r)
  <2> DEFINE psize == Head(queues[out][q]).size
  <2>1. /\ RemoveFromIngressAdmission(in, q, psize)
        /\ CheckAndSendResume(in, q)
    BY <1>7 DEF SwitchNotifyDequeue
  <2>2. \A p \in Ports, r \in Prios : paused'[p][r] => paused[p][r]
    BY <1>1, <2>1, ResumesOne
  <2>3. \A p \in Ports, r \in Prios : ~(p = in /\ r = q) => Held(p, r)' = Held(p, r)
    BY <2>1 DEF RemoveFromIngressAdmission, AccInv, HInv, WeakTypes, Held
  <2>4. hdrm_bytes'[in][q] \in Nat /\ ingress_bytes'[in][q] \in Nat
    BY DEF AccInv, HInv, WeakTypes
  <2>5. Held(in, q)' = 0 => ~paused'[in][q]
    <3>1. Held(in, q)' = 0 => hdrm_bytes'[in][q] = 0 /\ ingress_bytes'[in][q] = 0
      BY <2>4 DEF Held
    <3>2. QED
      BY <1>1, <2>1, <3>1, ResumesWhenEmpty
  <2>6. \A p \in Ports, r \in Prios : Held(p, r)' = 0 => Held(p, r) = 0 \/ ~paused'[p][r]
    BY <2>3, <2>5
  <2>7. QED
    BY <2>2, <2>6, StrandsNobody
<1>8. ASSUME NEW in \in Ports, NEW outs \in OutSets, NEW q \in Prios,
             NEW psize \in Sizes, SendMultiToDevs(in, outs, q, psize)
      PROVE  \A p \in Ports, r \in Prios : StrandedBy(p, r)
  BY <1>4, <1>8 DEF SendMultiToDevs
<1>9. ASSUME NEW port \in Ports, ReceivePfc(port) \/ LosePfc(port)
      PROVE  \A p \in Ports, r \in Prios : StrandedBy(p, r)
  BY <1>4, <1>9 DEF ReceivePfc, LosePfc
<1>10. CASE UNCHANGED vars
  BY <1>4, <1>10 DEF vars
<1>11. QED
  BY <1>3, <1>5, <1>6, <1>7, <1>8, <1>9, <1>10 DEF Next, MulticastStep

\* No departure and no copy leaves a neighbour paused without a packet in the switch
\* whose departure would check whether to resume it: only the check at the end of
\* SendMultiToDevs does, for a packet of which no copy was made.  This holds of every
\* set of output ports, the empty one included, and when PFC frames are lost.
THEOREM LostMulticastsStrand == LossySpec => OnlyLostMulticastsStrand
<1>1. AccInv /\ AccInv' /\ [Next \/ \E port \in Ports : LosePfc(port)]_vars =>
          [\A port \in Ports, q \in Prios :
              ~Stranded(port, q) /\ Stranded(port, q)' =>
                  /\ multicast.active /\ multicast.in = port /\ multicast.prio = q
                  /\ multicast.outs = {} /\ multicast.tosend = {}
                  /\ GetPfcThreshold(port) = 0]_vars
  BY StrandingSteps DEF StrandedBy
<1>2. QED
  BY <1>1, AccInvInit, AccInvNext, PTL DEF LossySpec, OnlyLostMulticastsStrand
-----------------------------------------------------------------------------
(* The packets fit in the buffer.                                          *)

\* What the ports share is what is left.
Pool == BufferSize - total_hdrm - total_rsrv

PoolInv == AccInv /\ shared_used_bytes <= Pool

LEMMA QuotientIsLess ==
    ASSUME NEW x \in Nat, NEW d \in Nat \ {0}
    PROVE  x \div d \in Nat /\ x \div d <= x
<1> DEFINE k == x \div d
           r == x % d
<1>1. k \in Int /\ r \in Nat /\ x = k * d + r /\ r < d
  OBVIOUS
<1> HIDE DEF k, r
<1>2. k >= 0
  <2>1. ASSUME k <= -1 PROVE FALSE
    <3>1. k * d <= (-1) * d
      BY <1>1, <2>1
    <3>2. QED
      BY <1>1, <3>1
  <2>2. QED
    BY <1>1, <2>1
<1>3. k <= k * d
  BY <1>1, <1>2
<1>4. QED
  BY <1>1, <1>2, <1>3 DEF k

\* A charge to the shared memory stays below the threshold of the port, which is
\* at most what is left of the shared memory.
LEMMA ChargeFitsPool ==
    ASSUME AccInv, shared_used_bytes <= Pool,
           NEW port \in Ports, NEW q \in Prios, NEW psize \in Sizes,
           UpdateIngressAdmission(port, q, psize)
    PROVE  shared_used_bytes' <= Pool
<1> DEFINE new_bytes == ingress_bytes[port][q] + psize
           left      == Pool - shared_used_bytes
           thresh    == GetPfcThreshold(port)
<1>1. /\ psize \in Nat /\ Reserve \in Nat /\ ingress_bytes[port][q] \in Nat
      /\ shared_used_bytes \in Int /\ Pool \in Int /\ left \in Nat
      /\ Divisor[port] \in Nat \ {0}
  BY PortsAssumption, MemoryAssumption DEF AccInv, HInv, WeakTypes, Pool
<1>2. thresh \in Nat /\ thresh <= left
  <2>1. /\ ~(BufferSize < total_hdrm + total_rsrv + shared_used_bytes)
        /\ BufferSize - total_hdrm - total_rsrv - shared_used_bytes = left
    BY <1>1, MemoryAssumption DEF Pool
  <2>2. thresh = left \div Divisor[port]
    BY <2>1 DEF GetPfcThreshold
  <2>3. QED
    BY <1>1, <2>2, QuotientIsLess
<1> HIDE DEF thresh
<1>3. CASE new_bytes <= Reserve \/ new_bytes - Reserve <= thresh
  <2> DEFINE shared == IF new_bytes <= Reserve THEN 0 ELSE MinOf(psize, new_bytes - Reserve)
  <2>1. shared_used_bytes' = shared_used_bytes + shared
    BY <1>3 DEF UpdateIngressAdmission, thresh
  <2>2. shared \in Int /\ shared <= left
    <3>1. CASE new_bytes <= Reserve
      BY <1>1, <3>1
    <3>2. CASE ~(new_bytes <= Reserve)
      <4>1. shared <= new_bytes - Reserve /\ shared \in Int
        BY <1>1, <3>2 DEF MinOf
      <4>2. new_bytes - Reserve <= thresh
        BY <1>3, <3>2
      <4> HIDE DEF shared
      <4>3. QED
        BY <1>1, <1>2, <4>1, <4>2
    <3>3. QED
      BY <3>1, <3>2
  <2> HIDE DEF shared
  <2>3. QED
    BY <1>1, <2>1, <2>2
<1>4. CASE ~(new_bytes <= Reserve \/ new_bytes - Reserve <= thresh)
  BY <1>4 DEF UpdateIngressAdmission, thresh
<1>5. QED
  BY <1>3, <1>4

LEMMA ReleaseFitsPool ==
    ASSUME AccInv, shared_used_bytes <= Pool,
           NEW port \in Ports, NEW q \in Prios, NEW psize \in Sizes,
           RemoveFromIngressAdmission(port, q, psize)
    PROVE  shared_used_bytes' <= Pool
<1> DEFINE from_hdrm   == MinOf(hdrm_bytes[port][q], psize)
           from_shared == MinOf(psize - from_hdrm, GetSharedUsed(port, q))
<1>1. /\ psize \in Nat /\ hdrm_bytes[port][q] \in Nat
      /\ shared_used_bytes \in Int /\ Pool \in Int /\ GetSharedUsed(port, q) \in Nat
  BY PortsAssumption, MemoryAssumption
     DEF AccInv, HInv, WeakTypes, Pool, GetSharedUsed
<1>2. from_shared \in Nat
  BY <1>1 DEF MinOf
<1>3. shared_used_bytes' = shared_used_bytes - from_shared
  BY DEF RemoveFromIngressAdmission
<1> HIDE DEF from_shared
<1>4. QED
  BY <1>1, <1>2, <1>3

LEMMA PoolInvNext ==
    PoolInv /\ [Next \/ \E port \in Ports : LosePfc(port)]_vars => PoolInv'
<1> SUFFICES ASSUME PoolInv, [Next \/ \E port \in Ports : LosePfc(port)]_vars
             PROVE  PoolInv'
  OBVIOUS
<1>1. AccInv /\ AccInv' /\ shared_used_bytes <= Pool
  BY AccInvNext DEF PoolInv
<1>2. SUFFICES shared_used_bytes' <= Pool
  BY <1>1 DEF PoolInv, Pool
<1>3. ASSUME NEW in \in Ports, NEW out \in Ports, NEW q \in Prios,
             NEW psize \in Sizes, SendToDev(in, out, q, psize)
      PROVE  shared_used_bytes' <= Pool
  BY <1>1, <1>3, ChargeFitsPool DEF SendToDev
<1>4. ASSUME NEW in \in Ports, NEW outs \in OutSets, NEW q \in Prios,
             NEW psize \in Sizes, SendMultiToDevs(in, outs, q, psize)
      PROVE  shared_used_bytes' <= Pool
  BY <1>1, <1>4 DEF SendMultiToDevs, mmu_vars, ingress_vars
<1>5. ASSUME multicast.active, NEW out \in multicast.outs, MulticastCopy(out)
      PROVE  shared_used_bytes' <= Pool
  <2>1. PICK in \in Ports, q \in Prios, psize \in Sizes :
           in = multicast.in /\ q = multicast.prio /\ psize = multicast.size
    BY <1>1, <1>5, ActiveMulticast DEF AccInv, HInv, WeakTypes
  <2>2. UpdateIngressAdmission(in, q, psize) \/ UNCHANGED shared_used_bytes
    BY <1>5, <2>1 DEF MulticastCopy, ingress_vars
  <2>3. QED
    BY <1>1, <2>2, ChargeFitsPool
<1>6. ASSUME NEW in \in Ports, NEW q \in Prios, MulticastSend(in, q)
      PROVE  shared_used_bytes' <= Pool
  BY <1>1, <1>6 DEF MulticastSend, ingress_vars
<1>7. ASSUME NEW in \in Ports, NEW out \in Ports, NEW q \in Prios,
             SwitchNotifyDequeue(in, out, q)
      PROVE  shared_used_bytes' <= Pool
  <2> DEFINE psize == Head(queues[out][q]).size
  <2>1. queues[out][q] \in Seq(Packet) /\ queues[out][q] # << >>
    BY <1>1, <1>7, AccountingFacts DEF Queues, SwitchNotifyDequeue
  <2>2. psize \in Sizes
    <3>1. Head(queues[out][q]) \in Packet
      BY <2>1
    <3>2. QED
      BY <3>1 DEF Packet
  <2>3. RemoveFromIngressAdmission(in, q, psize)
    BY <1>7 DEF SwitchNotifyDequeue
  <2> HIDE DEF psize
  <2>4. QED
    BY <1>1, <2>2, <2>3, ReleaseFitsPool
<1>8. ASSUME NEW port \in Ports, ReceivePfc(port) \/ LosePfc(port)
      PROVE  shared_used_bytes' <= Pool
  BY <1>1, <1>8 DEF ReceivePfc, LosePfc, mmu_vars, ingress_vars
<1>9. CASE UNCHANGED vars
  BY <1>1, <1>9 DEF vars, mmu_vars, ingress_vars
<1>10. QED
  BY <1>3, <1>4, <1>5, <1>6, <1>7, <1>8, <1>9 DEF Next, MulticastStep

\* What the ports hold is at most their headrooms, their reserves and the shared
\* memory, and these fit in the buffer.
LEMMA PoolFitsBuffer ==
    ASSUME BufferIsConfigured, PoolInv
    PROVE  BufferRespected
<1>1. /\ AccInv /\ shared_used_bytes \in Int /\ shared_used_bytes <= Pool
      /\ shared_used_bytes = SumFunction(Shares) /\ HeadroomRespected
  BY AccountingFacts DEF PoolInv, AccInv, HInv, WeakTypes
<1>2. PICK q : Prios = {q}
  BY FS_Singleton, PortsAssumption DEF BufferIsConfigured
<1> DEFINE S == Ports \X Prios
           h == [pq \in S |-> headroom[pq[1]]]
           b == [pq \in S |-> headroom[pq[1]] + Reserve]
           c == [pq \in S |-> b[pq] + Shares[pq]]
           f == [pq \in S |-> hdrm_bytes[pq[1]][pq[2]] + ingress_bytes[pq[1]][pq[2]]]
<1>3. /\ IsFiniteSet(Ports) /\ IsFiniteSet(S) /\ Cardinality(S) = Cardinality(Ports)
      /\ Cardinality(Ports) \in Nat
  <2>1. IsFiniteSet(Ports) /\ IsFiniteSet(Prios) /\ Cardinality(Prios) = 1
    BY PortsAssumption DEF BufferIsConfigured
  <2>2. /\ IsFiniteSet(S) /\ Cardinality(S) = Cardinality(Ports) * Cardinality(Prios)
        /\ Cardinality(Ports) \in Nat
    BY <2>1, FS_Product, FS_CardinalityType
  <2>3. QED
    BY <2>1, <2>2
<1>4. \A pq \in S : Shares[pq] \in Nat
  <2>1. ingress_bytes \in [Ports -> [Prios -> Int]]
    BY <1>1 DEF AccInv
  <2>2. QED
    BY <2>1, SharesType
<1>5. SumFunctionOnSet(h, S) = total_hdrm
  <2>1. \A p \in Ports : headroom[p] \in Int /\ h[<<p, q>>] = headroom[p]
    BY <1>2, MemoryAssumption
  <2>2. SumFunction(headroom) = SumFunctionOnSet(headroom, Ports)
    BY MemoryAssumption DEF SumFunction
  <2>0. IsFiniteSet(Ports)
    BY <1>3
  <2> HIDE DEF h
  <2>3. SumFunctionOnSet(h, Ports \X {q}) = SumFunctionOnSet(headroom, Ports)
    <3>1. OfFirst(h, headroom, Ports, q)
      BY <2>1 DEF OfFirst
    <3>2. QED
      BY <2>0, <3>1, SumPairs
  <2>4. QED
    BY <1>2, <2>2, <2>3, ConfigAssumption DEF ConfigNPort
<1>6. SumFunctionOnSet(b, S) = total_hdrm + total_rsrv
  <2>1. \A pq \in S : h[pq] \in Int /\ b[pq] = h[pq] + (IF pq \in S THEN Reserve ELSE 0)
    BY MemoryAssumption
  <2>2. Reserve \in Int /\ S \in SUBSET S
    BY MemoryAssumption
  <2> HIDE DEF h, b, S
  <2>3. SumFunctionOnSet(b, S) = SumFunctionOnSet(h, S) + Reserve * Cardinality(S)
    BY <1>3, <2>1, <2>2, SumRaise
  <2>4. QED
    BY <1>3, <1>5, <2>3, ConfigAssumption DEF ConfigNPort
<1>7. SumFunctionOnSet(c, S) = total_hdrm + total_rsrv + shared_used_bytes
  <2>1. \A pq \in S : b[pq] \in Int /\ Shares[pq] \in Int /\ c[pq] = b[pq] + Shares[pq]
    BY <1>4, MemoryAssumption
  <2>2. SumFunction(Shares) = SumFunctionOnSet(Shares, S)
    BY DEF SumFunction, Shares
  <2> HIDE DEF b, c, S
  <2>3. SumFunctionOnSet(c, S) = SumFunctionOnSet(b, S) + SumFunctionOnSet(Shares, S)
    BY <1>3, <2>1, SumAdd
  <2>4. QED
    BY <1>1, <1>6, <2>2, <2>3
<1>8. \A pq \in S : f[pq] \in Int /\ c[pq] \in Int /\ f[pq] <= c[pq]
  <2> TAKE pq \in S
  <2>1. PICK p \in Ports, r \in Prios : pq = <<p, r>>
    OBVIOUS
  <2>2. /\ f[pq] = hdrm_bytes[p][r] + ingress_bytes[p][r]
        /\ c[pq] = headroom[p] + Reserve + GetSharedUsed(p, r)
    BY <2>1 DEF Shares
  <2>3. /\ hdrm_bytes[p][r] \in Nat /\ ingress_bytes[p][r] \in Nat
        /\ hdrm_bytes[p][r] <= headroom[p]
        /\ headroom[p] \in Nat /\ Reserve \in Nat
    BY <1>1, MemoryAssumption DEF AccInv, HInv, WeakTypes, HeadroomRespected
  <2>4. GetSharedUsed(p, r) \in Nat /\ ingress_bytes[p][r] <= Reserve + GetSharedUsed(p, r)
    BY <2>3 DEF GetSharedUsed
  <2> HIDE DEF f, c
  <2>5. QED
    BY <2>2, <2>3, <2>4
<1>9. SumFunction(f) = SumFunctionOnSet(f, S)
  BY DEF SumFunction
<1>10. SumFunction(f) <= BufferSize
  <2> HIDE DEF f, c, S
  <2>1. SumFunctionOnSet(f, S) <= SumFunctionOnSet(c, S)
    BY <1>3, <1>8, SumMonotone
  <2>2. SumFunctionOnSet(f, S) \in Int
    BY <1>3, <1>8, SumType
  <2>3. total_hdrm + total_rsrv + shared_used_bytes <= BufferSize
    BY <1>1, MemoryAssumption DEF Pool
  <2>4. total_hdrm + total_rsrv + shared_used_bytes \in Int
    BY <1>1, MemoryAssumption
  <2>5. QED
    BY <1>7, <1>9, <2>1, <2>2, <2>3, <2>4, MemoryAssumption
<1>11. QED
  BY <1>10 DEF BufferRespected

\* With one lossless priority, and a buffer that holds all headrooms and reserves,
\* the packets in the switch fit in its buffer: admission by headroom and by
\* threshold is enough, no matter how the two are mixed.
THEOREM BufferIsRespected ==
    ASSUME BufferIsConfigured
    PROVE  LossySpec => []BufferRespected
<1>1. Init => PoolInv
  <2>1. 0 <= Pool
    BY MemoryAssumption DEF BufferIsConfigured, Pool
  <2>2. QED
    BY <2>1, AccInvInit DEF Init, PoolInv
<1>2. PoolInv => BufferRespected
  BY PoolFitsBuffer
<1>3. QED
  BY <1>1, <1>2, PoolInvNext, PTL DEF LossySpec
-----------------------------------------------------------------------------
(* PfcLink.                                                                *)

WirePacket == [prio : Prios, size : Sizes]

\* The bytes of priority q on a wire.
LoadsOf(w, q) == [i \in DOMAIN w |-> IF w[i].prio = q THEN w[i].size ELSE 0]
LoadOf(w, q) == SumFunction(LoadsOf(w, q))

LEMMA LoadsIsSeq ==
    ASSUME NEW w \in Seq(WirePacket), NEW q
    PROVE  /\ LoadsOf(w, q) \in Seq(Int) /\ DOMAIN LoadsOf(w, q) = DOMAIN w
           /\ \A i \in DOMAIN w : LoadsOf(w, q)[i] \in Nat
           /\ Len(LoadsOf(w, q)) = Len(w)
<1>1. DOMAIN w = 1 .. Len(w) /\ Len(w) \in Nat /\ \A i \in DOMAIN w : w[i] \in WirePacket
  OBVIOUS
<1>2. \A i \in DOMAIN w : (IF w[i].prio = q THEN w[i].size ELSE 0) \in Nat
  BY <1>1, PortsAssumption DEF WirePacket
<1>3. LoadsOf(w, q) \in [1 .. Len(w) -> Int]
  BY <1>1, <1>2 DEF LoadsOf
<1>4. LoadsOf(w, q) \in Seq(Int) /\ Len(LoadsOf(w, q)) = Len(w)
  BY <1>1, <1>3
<1>5. QED
  BY <1>1, <1>2, <1>4 DEF LoadsOf

LEMMA LoadType == ASSUME NEW w \in Seq(WirePacket), NEW q PROVE LoadOf(w, q) \in Nat
<1> DEFINE f == LoadsOf(w, q)
<1>1. f \in Seq(Int) /\ DOMAIN f = DOMAIN w /\ \A i \in DOMAIN w : f[i] \in Nat
  BY LoadsIsSeq
<1> HIDE DEF f
<1>2. IsFiniteSet(DOMAIN w) /\ SumFunction(f) = SumFunctionOnSet(f, DOMAIN w)
  BY <1>1, SeqSum
<1>3. SumFunction(f) \in Nat
  BY <1>1, <1>2, SumNatural
<1>4. QED
  BY <1>3 DEF LoadOf, f

LEMMA LoadAppend ==
    ASSUME NEW w \in Seq(WirePacket), NEW e \in WirePacket, NEW q
    PROVE  LoadOf(Append(w, e), q) = LoadOf(w, q) + (IF e.prio = q THEN e.size ELSE 0)
<1> DEFINE v == Append(w, e)
           x == IF e.prio = q THEN e.size ELSE 0
           f == LoadsOf(w, q)
           g == LoadsOf(v, q)
<1>1. /\ v \in Seq(WirePacket) /\ Len(v) = Len(w) + 1 /\ Len(w) \in Nat
      /\ v[Len(w) + 1] = e /\ \A i \in 1 .. Len(w) : v[i] = w[i]
      /\ DOMAIN v = 1 .. Len(w) + 1 /\ DOMAIN w = 1 .. Len(w)
  OBVIOUS
<1>2. x \in Int
  <2>1. e.size \in Nat
    BY PortsAssumption DEF WirePacket
  <2>2. QED
    BY <2>1
<1>3. f \in Seq(Int) /\ g \in Seq(Int) /\ Len(g) = Len(w) + 1 /\ Len(f) = Len(w)
  BY <1>1, LoadsIsSeq
<1>4. /\ g[Len(w) + 1] = x
      /\ \A i \in 1 .. Len(w) : g[i] = f[i]
  BY <1>1 DEF LoadsOf
<1> DEFINE n == Len(w)
<1>5. n \in Nat /\ Len(g) = n + 1 /\ Len(f) = n /\ g[n + 1] = x /\ \A i \in 1 .. n : g[i] = f[i]
  BY <1>1, <1>3, <1>4
<1> HIDE DEF f, g, x, n
<1>6. /\ Append(f, x) \in Seq(Int) /\ Len(Append(f, x)) = n + 1
      /\ Append(f, x)[n + 1] = x /\ \A i \in 1 .. n : Append(f, x)[i] = f[i]
  BY <1>2, <1>3, <1>5, AppendProperties
<1>7. \A i \in 1 .. n + 1 : g[i] = Append(f, x)[i]
  BY <1>5, <1>6
<1>8. g = Append(f, x)
  BY <1>3, <1>5, <1>6, <1>7, SeqEqual
<1>9. SumFunction(g) = SumFunction(f) + x
  BY <1>2, <1>3, <1>8, SeqSumAppend
<1>10. QED
  BY <1>9 DEF LoadOf, f, g, v, x

LEMMA LoadTail ==
    ASSUME NEW w \in Seq(WirePacket), w # << >>, NEW q
    PROVE  LoadOf(Tail(w), q) = LoadOf(w, q) - (IF Head(w).prio = q THEN Head(w).size ELSE 0)
<1> DEFINE t == Tail(w)
           x == IF Head(w).prio = q THEN Head(w).size ELSE 0
           f == LoadsOf(w, q)
           g == LoadsOf(t, q)
           n == Len(w)
<1>1. /\ t \in Seq(WirePacket) /\ Len(t) = n - 1 /\ n \in Nat \ {0}
      /\ Head(w) = w[1] /\ Head(w) \in WirePacket
      /\ \A i \in 1 .. n - 1 : t[i] = w[i + 1]
      /\ DOMAIN t = 1 .. n - 1 /\ DOMAIN w = 1 .. n
  OBVIOUS
<1> HIDE DEF t
<1>2. x \in Int
  <2>1. Head(w).size \in Nat
    BY <1>1, PortsAssumption DEF WirePacket
  <2>2. QED
    BY <2>1
<1>3. f \in Seq(Int) /\ g \in Seq(Int) /\ Len(g) = n - 1 /\ Len(f) = n
  BY <1>1, LoadsIsSeq
<1> HIDE DEF n
<1>4. f[1] = x /\ \A i \in 1 .. n - 1 : g[i] = f[i + 1]
  BY <1>1 DEF LoadsOf
<1> HIDE DEF f, g, x
<1>5. f # << >> /\ Len(g) = Len(f) - 1 /\ \A i \in 1 .. Len(g) : g[i] = f[i + 1]
  BY <1>1, <1>3, <1>4
<1>6. g = Tail(f) /\ Head(f) = x
  BY <1>3, <1>4, <1>5, IsTail
<1>7. SumFunction(f) = x + SumFunction(g)
  BY <1>3, <1>5, <1>6, SeqSumTail
<1>8. SumFunction(g) \in Int
  BY <1>3, SeqSum
<1>9. SumFunction(g) = SumFunction(f) - x
  BY <1>2, <1>7, <1>8
<1>10. QED
  BY <1>9 DEF LoadOf, f, g, t, x

\* A wire whose packets have at most b bytes each.
LEMMA LoadBounded ==
    ASSUME NEW w \in Seq(WirePacket), NEW q, NEW b \in Nat, \A i \in DOMAIN w : w[i].size <= b
    PROVE  LoadOf(w, q) <= b * Len(w)
<1> DEFINE f == LoadsOf(w, q)
           D == DOMAIN w
           same == [i \in D |-> b]
           n == Len(w)
<1>1. /\ f \in Seq(Int) /\ DOMAIN f = D /\ \A i \in D : f[i] \in Nat
      /\ D = 1 .. n /\ n \in Nat
  BY LoadsIsSeq
<1>2. \A i \in D : f[i] <= b
  BY DEF LoadsOf
<1> HIDE DEF f, D, n
<1>3. SumFunction(f) = SumFunctionOnSet(f, D)
  BY <1>1, SeqSum
<1>4. IsFiniteSet(D) /\ Cardinality(D) = n
  <2>1. IsFiniteSet(1 .. n) /\ Cardinality(1 .. n) = IF 1 > n THEN 0 ELSE n - 1 + 1
    BY <1>1, FS_Interval
  <2>2. Cardinality(1 .. n) = n
    BY <1>1, <2>1
  <2>3. QED
    BY <1>1, <2>1, <2>2
<1>5. b \in Int /\ \A i \in D : same[i] = b
  OBVIOUS
<1> HIDE DEF same
<1>6. SumFunctionOnSet(same, D) = b * Cardinality(D)
  BY <1>4, <1>5, SumConstant
<1>7. SumFunctionOnSet(f, D) <= SumFunctionOnSet(same, D)
  <2>1. \A i \in D : f[i] \in Int /\ same[i] \in Int /\ f[i] <= same[i]
    BY <1>1, <1>2, <1>5
  <2>2. QED
    BY <1>4, <2>1, SumMonotone
<1>8. QED
  BY <1>3, <1>4, <1>6, <1>7 DEF LoadOf, f, n

-----------------------------------------------------------------------------
(* What a frame on its way to a paused neighbour guarantees.               *)

\* `used` bytes are in the headroom or on the wire.  Either the neighbour is
\* paused and no frame will change that, or the PAUSE that is the last frame of
\* the priority lets it send some more packets, of at most `share` bytes each.
Covers(is_paused, frames, lates, q, used, share, limit) ==
    \/ /\ is_paused
       /\ \A i \in DOMAIN frames : frames[i].prio # q
       /\ used <= limit
    \/ \E i \in DOMAIN frames :
          /\ frames[i].prio = q /\ frames[i].pause = TRUE
          /\ \A j \in DOMAIN frames : j > i => frames[j].prio # q
          /\ used + share * lates[i] <= limit

LEMMA CoversLess ==
    ASSUME NEW is_paused, NEW frames \in Seq(Frame), NEW lates \in Seq(Nat), NEW q,
           NEW used \in Nat, NEW less \in Nat, NEW share \in Nat, NEW limit \in Nat,
           Len(lates) = Len(frames),
           Covers(is_paused, frames, lates, q, used, share, limit), less <= used
    PROVE  Covers(is_paused, frames, lates, q, less, share, limit)
<1>1. \A i \in DOMAIN frames : share * lates[i] \in Nat
  OBVIOUS
<1> DEFINE product(i) == share * lates[i]
<1>2. \A i \in DOMAIN frames : used + product(i) <= limit => less + product(i) <= limit
  <2>1. \A i \in DOMAIN frames : product(i) \in Nat
    BY <1>1
  <2> HIDE DEF product
  <2>2. QED
    BY <2>1
<1>3. less <= limit \/ ~(used <= limit)
  OBVIOUS
<1>4. QED
  BY <1>2, <1>3 DEF Covers

\* The same bytes, and a frame of another priority is sent.
LEMMA CoversAppend ==
    ASSUME NEW is_paused, NEW frames \in Seq(Frame), NEW lates \in Seq(Nat), NEW q,
           NEW used \in Nat, NEW share \in Nat, NEW limit \in Nat,
           NEW frame \in Frame, NEW late_ \in Nat,
           Len(lates) = Len(frames), frame.prio # q,
           Covers(is_paused, frames, lates, q, used, share, limit)
    PROVE  Covers(is_paused, Append(frames, frame), Append(lates, late_), q, used, share, limit)
<1> DEFINE fs == Append(frames, frame)
           ls == Append(lates, late_)
           n == Len(frames)
<1>1. /\ n \in Nat /\ DOMAIN frames = 1 .. n /\ DOMAIN fs = 1 .. n + 1
      /\ \A i \in 1 .. n : fs[i] = frames[i] /\ ls[i] = lates[i]
      /\ fs[n + 1] = frame
  OBVIOUS
<1> HIDE DEF fs, ls, n
<1>2. CASE /\ is_paused
           /\ \A i \in DOMAIN frames : frames[i].prio # q
           /\ used <= limit
  BY <1>1, <1>2 DEF Covers, fs, ls
<1>3. ASSUME NEW i \in DOMAIN frames,
             frames[i].prio = q, frames[i].pause = TRUE,
             \A j \in DOMAIN frames : j > i => frames[j].prio # q,
             used + share * lates[i] <= limit
      PROVE  Covers(is_paused, fs, ls, q, used, share, limit)
  <2>1. i \in DOMAIN fs /\ fs[i] = frames[i] /\ ls[i] = lates[i]
    BY <1>1
  <2>2. \A j \in DOMAIN fs : j > i => fs[j].prio # q
    BY <1>1, <1>3
  <2>3. QED
    BY <1>3, <2>1, <2>2 DEF Covers
<1>4. QED
  BY <1>2, <1>3 DEF Covers, fs, ls

\* The head of the frames arrives.
LEMMA CoversTail ==
    ASSUME NEW is_paused \in BOOLEAN, NEW frames \in Seq(Frame), NEW lates \in Seq(Nat), NEW q,
           NEW used \in Nat, NEW share \in Nat, NEW limit \in Nat,
           Len(lates) = Len(frames), frames # << >>,
           Covers(is_paused, frames, lates, q, used, share, limit)
    PROVE  Covers(IF Head(frames).prio = q THEN Head(frames).pause ELSE is_paused,
                  Tail(frames), Tail(lates), q, used, share, limit)
<1> DEFINE fs == Tail(frames)
           ls == Tail(lates)
           n == Len(frames)
           after == IF Head(frames).prio = q THEN Head(frames).pause ELSE is_paused
<1>1. /\ n \in Nat \ {0} /\ DOMAIN frames = 1 .. n /\ DOMAIN fs = 1 .. n - 1
      /\ \A i \in 1 .. n - 1 : fs[i] = frames[i + 1] /\ ls[i] = lates[i + 1]
      /\ Head(frames) = frames[1]
  OBVIOUS
<1>2. \A i \in 1 .. n : share * lates[i] \in Nat
  OBVIOUS
<1> HIDE DEF fs, ls, n
<1>3. CASE /\ is_paused
           /\ \A i \in DOMAIN frames : frames[i].prio # q
           /\ used <= limit
  <2>1. after
    BY <1>1, <1>3
  <2>2. \A i \in DOMAIN fs : fs[i].prio # q
    <3>1. TAKE i \in DOMAIN fs
    <3>2. i + 1 \in DOMAIN frames /\ fs[i] = frames[i + 1]
      BY <1>1
    <3>3. QED
      BY <1>3, <3>2
  <2>3. QED
    BY <1>3, <2>1, <2>2 DEF Covers, fs, ls
<1>4. ASSUME NEW i \in DOMAIN frames,
             frames[i].prio = q, frames[i].pause = TRUE,
             \A j \in DOMAIN frames : j > i => frames[j].prio # q,
             used + share * lates[i] <= limit
      PROVE  Covers(after, fs, ls, q, used, share, limit)
  <2>1. CASE i = 1
    <3>1. after
      BY <1>1, <1>4, <2>1
    <3>2. \A j \in DOMAIN fs : fs[j].prio # q
      <4>1. TAKE j \in DOMAIN fs
      <4>2. j + 1 \in DOMAIN frames /\ j + 1 > i /\ fs[j] = frames[j + 1]
        BY <1>1, <2>1
      <4>3. QED
        BY <1>4, <4>2
    <3>3. used <= limit
      <4> DEFINE product == share * lates[i]
      <4>1. product \in Nat /\ used + product <= limit
        BY <1>1, <1>2, <1>4
      <4> HIDE DEF product
      <4>2. QED
        BY <4>1
    <3>4. QED
      BY <3>1, <3>2, <3>3 DEF Covers
  <2>2. CASE i # 1
    <3>1. i - 1 \in DOMAIN fs /\ fs[i - 1] = frames[i] /\ ls[i - 1] = lates[i]
      BY <1>1, <2>2
    <3>2. \A j \in DOMAIN fs : j > i - 1 => fs[j].prio # q
      <4>1. TAKE j \in DOMAIN fs
      <4>2. HAVE j > i - 1
      <4>3. j + 1 \in DOMAIN frames /\ j + 1 > i /\ fs[j] = frames[j + 1]
        BY <1>1, <4>2
      <4>4. QED
        BY <1>4, <4>3
    <3>3. QED
      BY <1>4, <3>1, <3>2 DEF Covers
  <2>3. QED
    BY <2>1, <2>2
<1>5. QED
  BY <1>3, <1>4 DEF Covers, fs, ls, after

\* The neighbour sends a packet of `more` bytes of the priority, or none.
LEMMA CoversSend ==
    ASSUME NEW is_paused, NEW frames \in Seq(Frame), NEW lates \in Seq(Nat), NEW q,
           NEW used \in Nat, NEW share \in Nat, NEW limit \in Nat, NEW more \in Nat,
           Len(lates) = Len(frames), \A i \in DOMAIN lates : lates[i] > 0,
           more <= share, is_paused => more = 0,
           Covers(is_paused, frames, lates, q, used, share, limit)
    PROVE  Covers(is_paused, frames, [i \in DOMAIN lates |-> lates[i] - 1], q, used + more,
                  share, limit)
<1> DEFINE ls == [i \in DOMAIN lates |-> lates[i] - 1]
<1>1. /\ DOMAIN frames = DOMAIN lates
      /\ \A i \in DOMAIN frames : lates[i] \in Nat \ {0} /\ ls[i] = lates[i] - 1
  OBVIOUS
<1> HIDE DEF ls
<1>2. CASE /\ is_paused
           /\ \A i \in DOMAIN frames : frames[i].prio # q
           /\ used <= limit
  <2>1. used + more = used
    BY <1>2
  <2>2. QED
    BY <1>2, <2>1 DEF Covers, ls
<1>3. ASSUME NEW i \in DOMAIN frames,
             frames[i].prio = q, frames[i].pause = TRUE,
             \A j \in DOMAIN frames : j > i => frames[j].prio # q,
             used + share * lates[i] <= limit
      PROVE  Covers(is_paused, frames, ls, q, used + more, share, limit)
  <2> DEFINE l == lates[i]
             product == share * l
  <2>1. l \in Nat \ {0} /\ ls[i] = l - 1
    BY <1>1
  <2>2. used + product <= limit
    BY <1>3
  <2> HIDE DEF l
  <2>3. product \in Nat /\ share * (l - 1) = product - share
    BY <2>1
  <2> HIDE DEF product
  <2>4. used + more + (product - share) <= limit
    BY <2>2, <2>3
  <2>5. used + more + share * ls[i] <= limit
    BY <2>1, <2>3, <2>4
  <2>6. QED
    BY <1>3, <2>5 DEF Covers
<1>4. QED
  BY <1>2, <1>3 DEF Covers, ls


-----------------------------------------------------------------------------
(* The invariant.                                                          *)

\* The bytes a packet may have so that the headroom covers the link.
Share(port) == headroom[port] \div (2 * LinkCap + 1)

Used(port, q) == hdrm_bytes[port][q] + LoadOf(wire[port], q)

LinkTypes ==
    /\ wire \in [Ports -> Seq(WirePacket)]
    /\ \A port \in Ports : Len(wire[port]) <= LinkCap
    /\ late \in [Ports -> Seq(Nat)]
    /\ \A port \in Ports : Len(late[port]) = Len(pfc[port])
    /\ multicast = NoMulticast

Covered(port, q) ==
    paused[port][q] =>
        Covers(m_paused[port][q], pfc[port], late[port], q, Used(port, q), Share(port), headroom[port])

LinkInv ==
    /\ HInv /\ PauseInv /\ LinkTypes
    /\ \A port \in Ports, q \in Prios : Covered(port, q)

\* Every packet is at most a share, and the shares fit in the headroom.
LEMMA ShareFacts ==
    ASSUME HeadroomCovers, NEW port \in Ports
    PROVE  /\ Share(port) \in Nat
           /\ Share(port) * (2 * LinkCap + 1) <= headroom[port]
           /\ \A psize \in Sizes : psize <= Share(port)
<1> DEFINE h == headroom[port]
           k == 2 * LinkCap + 1
           s == h \div k
<1>1. h \in Nat /\ k \in Nat \ {0}
  BY MemoryAssumption, LinkAssumption
<1>2. \A psize \in Sizes : psize \in Nat /\ psize * k <= h
  BY PortsAssumption DEF HeadroomCovers
<1> HIDE DEF h, k
<1>3. s \in Nat /\ k * s <= h /\ h < k * (s + 1)
  BY <1>1, SMTT(30)
<1> HIDE DEF s
<1>4. ASSUME NEW psize \in Nat, psize * k <= h PROVE psize <= s
  <2>1. CASE psize >= s + 1
    <3>1. k * psize >= k * (s + 1)
      BY <1>1, <1>3, <2>1, SMTT(30)
    <3>2. k * psize = psize * k /\ k * psize \in Nat /\ k * (s + 1) \in Nat
      BY <1>1, <1>3
    <3>3. QED
      BY <1>1, <1>3, <1>4, <3>1, <3>2
  <2>2. QED
    BY <1>3, <2>1
<1>5. s * k = k * s
  BY <1>1, <1>3
<1>6. QED
  BY <1>2, <1>3, <1>4, <1>5 DEF Share, s, h, k

LEMMA UsedType ==
    ASSUME LinkInv, NEW port \in Ports, NEW q \in Prios
    PROVE  /\ hdrm_bytes[port][q] \in Nat /\ LoadOf(wire[port], q) \in Nat
           /\ Used(port, q) \in Nat
BY LoadType DEF LinkInv, HInv, WeakTypes, LinkTypes, Used

\* The frames of one port, and when they arrive.
LEMMA FramesType ==
    ASSUME LinkInv, NEW port \in Ports
    PROVE  /\ pfc[port] \in Seq(Frame) /\ late[port] \in Seq(Nat)
           /\ Len(late[port]) = Len(pfc[port])
           /\ headroom[port] \in Nat
           /\ wire[port] \in Seq(WirePacket) /\ Len(wire[port]) <= LinkCap
           /\ \A q \in Prios : m_paused[port][q] \in BOOLEAN /\ paused[port][q] \in BOOLEAN
BY MemoryAssumption DEF LinkInv, PauseInv, PfcTypes, LinkTypes

\* A step of the link is one of the switch, or the switch stutters.
LEMMA LinkStep == [LinkNext]_link_vars => [Next]_vars
<1> SUFFICES ASSUME [LinkNext]_link_vars PROVE [Next]_vars
  OBVIOUS
<1>1. ASSUME NEW port \in Ports, NEW q \in Prios, NEW psize \in Sizes,
             NeighbourSends(port, q, psize)
      PROVE  UNCHANGED vars
  BY <1>1 DEF NeighbourSends
<1>2. ASSUME NEW port \in Ports, SwitchReceives(port)
      PROVE  Next \/ UNCHANGED vars
  BY <1>2 DEF SwitchReceives, Next
<1>3. ASSUME NEW out \in Ports, NEW q \in Prios, SwitchSends(out, q)
      PROVE  Next
  BY <1>3 DEF SwitchSends, Next
<1>4. ASSUME NEW port \in Ports, FrameArrives(port)
      PROVE  Next
  BY <1>4 DEF FrameArrives, Next
<1>5. CASE UNCHANGED link_vars
  BY <1>5 DEF link_vars
<1>6. QED
  BY <1>1, <1>2, <1>3, <1>4, <1>5 DEF LinkNext

LEMMA LinkInvInit == LinkInit => LinkInv
<1> SUFFICES ASSUME LinkInit PROVE LinkInv
  OBVIOUS
<1>1. HInv /\ PauseInv
  BY HInvInit, PauseInvInit DEF LinkInit
<1>2. LinkTypes
  BY LinkAssumption DEF LinkInit, Init, LinkTypes
<1>3. \A port \in Ports, q \in Prios : ~paused[port][q]
  BY DEF LinkInit, Init
<1>4. QED
  BY <1>1, <1>2, <1>3 DEF LinkInv, Covered

\* A packet of at most a share starts on its way while no frame is overdue.
LEMMA NeighbourSendsInv ==
    ASSUME HeadroomCovers, LinkInv, NEW port \in Ports, NEW r \in Prios, NEW psize \in Sizes,
           NeighbourSends(port, r, psize)
    PROVE  LinkTypes' /\ \A p \in Ports, q \in Prios : Covered(p, q)'
<1> DEFINE e == [prio |-> r, size |-> psize]
           w == wire[port]
           l == late[port]
           ls == [i \in DOMAIN l |-> l[i] - 1]
<1>1. /\ w \in Seq(WirePacket) /\ l \in Seq(Nat) /\ e \in WirePacket
      /\ \A i \in DOMAIN l : l[i] > 0
      /\ e.prio = r /\ e.size = psize
      /\ Len(w) < LinkCap
  BY FramesType DEF NeighbourSends, WirePacket
<1>2. /\ wire' = [wire EXCEPT ![port] = Append(w, e)]
      /\ late' = [late EXCEPT ![port] = ls]
      /\ UNCHANGED <<pfc, m_paused, paused, hdrm_bytes, multicast>>
  BY DEF NeighbourSends, vars, mmu_vars, ingress_vars
<1>3. ls \in Seq(Nat) /\ Len(ls) = Len(l)
  <2>1. \A i \in DOMAIN l : l[i] - 1 \in Nat
    BY <1>1
  <2>2. DOMAIN l = 1 .. Len(l) /\ Len(l) \in Nat
    BY <1>1
  <2>3. ls \in [1 .. Len(l) -> Nat]
    BY <2>1, <2>2
  <2> HIDE DEF ls
  <2>4. QED
    BY <2>2, <2>3, IsASeq
<1>4. wire \in [Ports -> Seq(WirePacket)] /\ late \in [Ports -> Seq(Nat)]
  BY DEF LinkInv, LinkTypes
<1> HIDE DEF e, w, l, ls
<1>5. Append(w, e) \in Seq(WirePacket) /\ Len(Append(w, e)) = Len(w) + 1
  BY <1>1
<1>6. /\ wire'[port] = Append(w, e) /\ late'[port] = ls
      /\ \A p \in Ports \ {port} : wire'[p] = wire[p] /\ late'[p] = late[p]
      /\ wire' \in [Ports -> Seq(WirePacket)] /\ late' \in [Ports -> Seq(Nat)]
  BY <1>2, <1>3, <1>4, <1>5
<1>7. LinkTypes'
  <2>1. Len(Append(w, e)) <= LinkCap
    BY <1>1, <1>5, LinkAssumption
  <2>2. QED
    BY <1>2, <1>3, <1>6, <2>1 DEF LinkInv, LinkTypes, l
<1>8. ASSUME NEW p \in Ports, NEW q \in Prios, paused[p][q]
      PROVE  Covers(m_paused[p][q], pfc[p], late'[p], q, Used(p, q)', Share(p), headroom[p])
  <2>1. Covers(m_paused[p][q], pfc[p], late[p], q, Used(p, q), Share(p), headroom[p])
    BY <1>8 DEF LinkInv, Covered
  <2>2. CASE p # port
    BY <1>2, <1>6, <2>1, <2>2 DEF Used
  <2>3. CASE p = port
    <3> DEFINE more == IF r = q THEN psize ELSE 0
    <3>1. LoadOf(Append(w, e), q) = LoadOf(w, q) + more
      BY <1>1, LoadAppend
    <3>2. more \in Nat /\ more <= Share(port) /\ Share(port) \in Nat
      BY ShareFacts, PortsAssumption
    <3>3. m_paused[p][q] => more = 0
      BY <2>3 DEF NeighbourSends
    <3> HIDE DEF more
    <3>4. Used(p, q)' = Used(p, q) + more
      <4>1. Used(p, q)' = hdrm_bytes[p][q] + LoadOf(Append(w, e), q)
        BY <1>2, <1>6, <2>3 DEF Used
      <4>2. Used(p, q) = hdrm_bytes[p][q] + LoadOf(w, q)
        BY <2>3 DEF Used, w
      <4>3. hdrm_bytes[p][q] \in Nat /\ LoadOf(w, q) \in Nat
        BY <2>3, UsedType DEF w
      <4>4. QED
        BY <3>1, <3>2, <4>1, <4>2, <4>3
    <3>5. /\ pfc[p] \in Seq(Frame) /\ Len(l) = Len(pfc[p]) /\ headroom[p] \in Nat
          /\ Used(p, q) \in Nat
      BY <2>3, FramesType, UsedType DEF l
    <3>6. Covers(m_paused[p][q], pfc[p], l, q, Used(p, q), Share(p), headroom[p])
      BY <2>1, <2>3 DEF l
    <3> DEFINE used == Used(p, q)
    <3>7. used \in Nat /\ Covers(m_paused[p][q], pfc[p], l, q, used, Share(p), headroom[p])
      BY <3>5, <3>6
    <3> HIDE DEF used
    <3>8. Covers(m_paused[p][q], pfc[p], [i \in DOMAIN l |-> l[i] - 1], q, used + more,
                 Share(p), headroom[p])
      BY <1>1, <2>3, <3>2, <3>3, <3>5, <3>7, CoversSend
    <3>9. QED
      BY <1>6, <2>3, <3>4, <3>8 DEF ls, used
  <2>4. QED
    BY <2>2, <2>3
<1>9. QED
  BY <1>2, <1>7, <1>8 DEF Covered


\* What the switch may do to one port: it sends a frame or none, and only the
\* port whose packet it handled holds other bytes.
Handles(port, r) ==
    /\ UNCHANGED <<m_paused, multicast>>
    /\ \/ UNCHANGED <<pfc, paused>>
       \/ /\ pfc' = [pfc EXCEPT ![port] = Append(@, [prio |-> r, pause |-> ~paused[port][r]])]
          /\ paused' = [paused EXCEPT ![port][r] = ~@]
    /\ \A p \in Ports, q \in Prios :
          (p # port \/ q # r) => hdrm_bytes'[p][q] <= hdrm_bytes[p][q]

LEMMA LateTypes ==
    ASSUME LinkInv, NEW port \in Ports, NEW r \in Prios, Handles(port, r), NewFramesAreLate
    PROVE  /\ late' \in [Ports -> Seq(Nat)]
           /\ \A p \in Ports : Len(late'[p]) = Len(pfc'[p])
           /\ \A p \in Ports \ {port} : late'[p] = late[p] /\ pfc'[p] = pfc[p]
           /\ \/ late'[port] = late[port] /\ UNCHANGED <<pfc, paused>>
              \/ /\ late'[port] = Append(late[port], LinkCap + 1)
                 /\ pfc'[port] = Append(pfc[port], [prio |-> r, pause |-> ~paused[port][r]])
                 /\ paused' = [paused EXCEPT ![port][r] = ~@]
<1> DEFINE f == [prio |-> r, pause |-> ~paused[port][r]]
<1>1. /\ pfc \in [Ports -> Seq(Frame)] /\ late \in [Ports -> Seq(Nat)]
      /\ \A p \in Ports : Len(late[p]) = Len(pfc[p])
      /\ f \in Frame
  BY DEF LinkInv, PauseInv, PfcTypes, LinkTypes, Frame
<1>2. LinkCap + 1 \in Nat
  BY LinkAssumption
<1>3. late' = [p \in Ports |->
                 IF Len(pfc'[p]) > Len(pfc[p]) THEN Append(late[p], LinkCap + 1) ELSE late[p]]
  BY DEF NewFramesAreLate
<1>4. \/ UNCHANGED <<pfc, paused>>
      \/ /\ pfc' = [pfc EXCEPT ![port] = Append(@, f)]
         /\ paused' = [paused EXCEPT ![port][r] = ~@]
  BY DEF Handles
<1> HIDE DEF f
<1>5. CASE UNCHANGED <<pfc, paused>>
  <2>1. \A p \in Ports : ~(Len(pfc'[p]) > Len(pfc[p]))
    BY <1>1, <1>5
  <2>2. late' = [p \in Ports |-> late[p]]
    BY <1>3, <2>1
  <2>3. QED
    BY <1>1, <1>5, <2>2
<1>6. CASE /\ pfc' = [pfc EXCEPT ![port] = Append(@, f)]
           /\ paused' = [paused EXCEPT ![port][r] = ~@]
  <2>1. /\ pfc'[port] = Append(pfc[port], f)
        /\ \A p \in Ports \ {port} : pfc'[p] = pfc[p]
    BY <1>1, <1>6
  <2>2. pfc[port] \in Seq(Frame) /\ Len(pfc'[port]) = Len(pfc[port]) + 1
    BY <1>1, <2>1
  <2>3. late'[port] = Append(late[port], LinkCap + 1)
    BY <1>3, <2>2
  <2>4. \A p \in Ports \ {port} : late'[p] = late[p]
    <3>1. \A p \in Ports : Len(pfc[p]) \in Nat
      BY <1>1
    <3>2. QED
      BY <1>3, <2>1, <3>1
  <2>5. late[port] \in Seq(Nat) /\ late'[port] \in Seq(Nat) /\ Len(late'[port]) = Len(late[port]) + 1
    BY <1>1, <1>2, <2>3
  <2>6. late' \in [Ports -> Seq(Nat)]
    <3>1. \A p \in Ports : late'[p] \in Seq(Nat)
      BY <1>1, <2>4, <2>5
    <3>2. QED
      BY <1>3, <3>1
  <2>7. \A p \in Ports : Len(late'[p]) = Len(pfc'[p])
    BY <1>1, <2>1, <2>2, <2>4, <2>5
  <2>8. QED
    BY <1>6, <2>1, <2>3, <2>4, <2>6, <2>7 DEF f
<1>7. QED
  BY <1>4, <1>5, <1>6

\* A port and priority whose packets and bytes have not become more, and that
\* was told nothing new, is covered as before.
LEMMA HandlesKeepsOthers ==
    ASSUME HeadroomCovers, LinkInv, LinkTypes', HInv', NEW port \in Ports, NEW r \in Prios, Handles(port, r),
           NewFramesAreLate, NEW p \in Ports, NEW q \in Prios,
           (p # port \/ q # r) \/ UNCHANGED <<pfc, paused>>, Used(p, q)' <= Used(p, q)
    PROVE  Covered(p, q)'
<1> SUFFICES ASSUME paused'[p][q]
             PROVE  Covers(m_paused[p][q], pfc'[p], late'[p], q, Used(p, q)', Share(p), headroom[p])
  BY DEF Covered, Handles
<1>1. /\ pfc[p] \in Seq(Frame) /\ late[p] \in Seq(Nat) /\ Len(late[p]) = Len(pfc[p])
      /\ headroom[p] \in Nat /\ paused \in [Ports -> [Prios -> BOOLEAN]]
  BY FramesType DEF LinkInv, HInv, WeakTypes
<1>2. Share(p) \in Nat
  BY ShareFacts
<1>3. paused[p][q]
  BY <1>1 DEF Handles
<1> DEFINE used == Used(p, q)
           less == Used(p, q)'
<1>4. used \in Nat
  BY UsedType
<1>5. less \in Nat /\ less <= used
  <2>1. hdrm_bytes'[p][q] \in Nat /\ wire'[p] \in Seq(WirePacket)
    BY DEF HInv, WeakTypes, LinkTypes
  <2>2. LoadOf(wire'[p], q) \in Nat
    BY <2>1, LoadType
  <2>3. QED
    BY <2>1, <2>2 DEF Used
<1>6. Covers(m_paused[p][q], pfc[p], late[p], q, used, Share(p), headroom[p])
  BY <1>3 DEF LinkInv, Covered
<1> HIDE DEF used, less
<1>7. Covers(m_paused[p][q], pfc[p], late[p], q, less, Share(p), headroom[p])
  BY <1>1, <1>2, <1>4, <1>5, <1>6, CoversLess
<1>8. CASE pfc'[p] = pfc[p] /\ late'[p] = late[p]
  BY <1>7, <1>8 DEF less
<1>9. CASE /\ late'[p] = Append(late[p], LinkCap + 1)
           /\ pfc'[p] = Append(pfc[p], [prio |-> r, pause |-> ~paused[port][r]])
           /\ q # r
  <2> DEFINE f == [prio |-> r, pause |-> ~paused[port][r]]
  <2>1. f \in Frame /\ f.prio # q /\ LinkCap + 1 \in Nat
    BY <1>9, LinkAssumption DEF Frame
  <2>2. late'[p] = Append(late[p], LinkCap + 1) /\ pfc'[p] = Append(pfc[p], f)
    BY <1>9
  <2> HIDE DEF f
  <2>3. Covers(m_paused[p][q], Append(pfc[p], f), Append(late[p], LinkCap + 1), q, less,
               Share(p), headroom[p])
    BY <1>1, <1>2, <1>5, <1>7, <2>1, CoversAppend
  <2>4. QED
    BY <2>2, <2>3 DEF less
<1>10. QED
  BY <1>8, <1>9, LateTypes


\* The wire after its head has arrived.
LEMMA WireTypes ==
    ASSUME LinkInv, NEW port \in Ports, wire[port] # << >>,
           wire' = [wire EXCEPT ![port] = Tail(@)]
    PROVE  /\ wire' \in [Ports -> Seq(WirePacket)]
           /\ \A p \in Ports : Len(wire'[p]) <= LinkCap
           /\ wire'[port] = Tail(wire[port]) /\ Len(wire'[port]) <= LinkCap - 1
           /\ \A p \in Ports \ {port} : wire'[p] = wire[p]
           /\ Head(wire[port]) \in WirePacket
<1> DEFINE w == wire[port]
           t == Tail(w)
<1>1. wire \in [Ports -> Seq(WirePacket)] /\ \A p \in Ports : Len(wire[p]) <= LinkCap
  BY DEF LinkInv, LinkTypes
<1>2. /\ w \in Seq(WirePacket) /\ w # << >> /\ Len(w) \in Nat /\ Len(w) <= LinkCap
      /\ LinkCap \in Nat
  BY <1>1, LinkAssumption
<1> HIDE DEF w
<1>3. t \in Seq(WirePacket) /\ Len(t) = Len(w) - 1 /\ Head(w) \in WirePacket
  BY <1>2
<1>4. wire' = [wire EXCEPT ![port] = t]
  BY DEF w
<1> HIDE DEF t
<1>5. Len(t) <= LinkCap - 1 /\ Len(t) <= LinkCap
  BY <1>2, <1>3
<1>6. QED
  BY <1>1, <1>3, <1>4, <1>5 DEF w, t

\* The switch admits the packet at the head of a wire.
LEMMA AdmitsInv ==
    ASSUME HeadroomCovers, LinkInv, HInv',
           NEW port \in Ports, NEW out \in Ports, NEW r \in Prios, NEW psize \in Sizes,
           wire[port] # << >>, Head(wire[port]) = [prio |-> r, size |-> psize],
           SendToDev(port, out, r, psize), wire' = [wire EXCEPT ![port] = Tail(@)],
           NewFramesAreLate
    PROVE  LinkTypes' /\ \A p \in Ports, q \in Prios : Covered(p, q)'
<1>1. /\ WeakTypes /\ HeadroomRespected /\ HeadroomUseIsPaused
      /\ CheckIngressAdmission(port, r, psize) /\ UpdateIngressAdmission(port, r, psize)
      /\ CheckAndSendPfc(port, r)
      /\ multicast = NoMulticast /\ UNCHANGED <<multicast, m_paused>>
  BY DEF LinkInv, HInv, SendToDev
<1>2. /\ hdrm_bytes \in [Ports -> [Prios -> Nat]] /\ hdrm_bytes' \in [Ports -> [Prios -> Nat]]
      /\ psize \in Nat
      /\ paused \in [Ports -> [Prios -> BOOLEAN]]
  BY <1>1, PortsAssumption DEF HInv, WeakTypes
<1>3. /\ \A p \in Ports, q \in Prios :
            p # port \/ q # r => hdrm_bytes'[p][q] = hdrm_bytes[p][q]
      /\ hdrm_bytes'[port][r] <= hdrm_bytes[port][r] + psize
  <2>1. CASE UNCHANGED hdrm_bytes
    BY <1>2, <2>1
  <2>2. CASE hdrm_bytes' = [hdrm_bytes EXCEPT ![port][r] = @ + psize]
    BY <1>2, <2>2
  <2>3. QED
    BY <1>1, <2>1, <2>2 DEF UpdateIngressAdmission
<1>4. \/ UNCHANGED <<pfc, paused>>
      \/ /\ ~paused[port][r]
         /\ pfc' = [pfc EXCEPT ![port] = Append(@, [prio |-> r, pause |-> TRUE])]
         /\ paused' = [paused EXCEPT ![port][r] = TRUE]
  BY <1>1 DEF CheckAndSendPfc, SendPfc
<1>5. Handles(port, r)
  <2>1. ~paused[port][r] => (~paused[port][r]) = TRUE
    OBVIOUS
  <2>2. \/ UNCHANGED <<pfc, paused>>
        \/ /\ pfc' = [pfc EXCEPT ![port] = Append(@, [prio |-> r, pause |-> ~paused[port][r]])]
           /\ paused' = [paused EXCEPT ![port][r] = ~@]
    BY <1>2, <1>4, <2>1
  <2>3. QED
    BY <1>1, <1>2, <1>3, <2>2 DEF Handles
<1>6. /\ wire' \in [Ports -> Seq(WirePacket)]
      /\ \A p \in Ports : Len(wire'[p]) <= LinkCap
      /\ wire'[port] = Tail(wire[port]) /\ Len(wire'[port]) <= LinkCap - 1
      /\ \A p \in Ports \ {port} : wire'[p] = wire[p]
  BY WireTypes
<1>7. LinkTypes'
  BY <1>1, <1>5, <1>6, LateTypes DEF LinkTypes
<1>8. ASSUME NEW q \in Prios
      PROVE  LoadOf(wire'[port], q) = LoadOf(wire[port], q) - (IF r = q THEN psize ELSE 0)
  <2>1. wire[port] \in Seq(WirePacket)
    BY DEF LinkInv, LinkTypes
  <2>2. QED
    BY <1>6, <2>1, LoadTail
<1>9. \A p \in Ports, q \in Prios : Used(p, q)' <= Used(p, q)
  <2> TAKE p \in Ports, q \in Prios
  <2>1. /\ hdrm_bytes[p][q] \in Nat /\ hdrm_bytes'[p][q] \in Nat /\ LoadOf(wire[p], q) \in Nat
        /\ LoadOf(wire'[p], q) \in Nat
    <3>1. wire'[p] \in Seq(WirePacket)
      BY <1>6
    <3>2. LoadOf(wire'[p], q) \in Nat
      BY <3>1, LoadType
    <3>3. QED
      BY <1>2, <3>2, UsedType
  <2>2. CASE p # port
    BY <1>3, <1>6, <2>1, <2>2 DEF Used
  <2>3. CASE p = port /\ q # r
    BY <1>3, <1>8, <2>1, <2>3 DEF Used
  <2>4. CASE p = port /\ q = r
    BY <1>2, <1>3, <1>8, <2>1, <2>4 DEF Used
  <2>5. QED
    BY <2>2, <2>3, <2>4
<1>10. ASSUME NEW p \in Ports, NEW q \in Prios
       PROVE  Covered(p, q)'
  <2>1. CASE (p # port \/ q # r) \/ UNCHANGED <<pfc, paused>>
    BY <1>5, <1>7, <1>9, <2>1, HandlesKeepsOthers
  <2>2. CASE /\ p = port /\ q = r
             /\ ~paused[port][r]
             /\ pfc' = [pfc EXCEPT ![port] = Append(@, [prio |-> r, pause |-> TRUE])]
             /\ paused' = [paused EXCEPT ![port][r] = TRUE]
    <3> DEFINE f == [prio |-> r, pause |-> TRUE]
               n == Len(pfc[port])
               k == LinkCap + 1
               s == Share(port)
               hdrm == hdrm_bytes'[port][r]
               load == LoadOf(wire'[port], r)
               limit == headroom[port]
    <3>1. /\ late'[port] = Append(late[port], k)
          /\ pfc'[port] = Append(pfc[port], f)
      <4>1. paused' # paused
        BY <1>2, <2>2
      <4>2. QED
        BY <1>2, <1>5, <2>2, <4>1, LateTypes
    <3>2. pfc[port] \in Seq(Frame) /\ late[port] \in Seq(Nat) /\ Len(late[port]) = n
      BY FramesType
    <3>3. f \in Frame /\ k \in Nat
      BY LinkAssumption DEF Frame
    <3>4. f.prio = r /\ f.pause = TRUE
      OBVIOUS
    <3> HIDE DEF f, k
    <3>5. /\ n \in Nat /\ DOMAIN pfc'[port] = 1 .. n + 1
          /\ pfc'[port][n + 1] = f /\ late'[port][n + 1] = k
      BY <3>1, <3>2, <3>3
    <3>6. hdrm_bytes[port][r] = 0
      BY <1>1, <1>2, <2>2 DEF HeadroomUseIsPaused, NoMulticast
    <3>7. hdrm <= s /\ hdrm \in Nat /\ s \in Nat /\ s * (2 * LinkCap + 1) <= limit /\ limit \in Nat
      <4>1. psize <= s /\ s \in Nat /\ s * (2 * LinkCap + 1) <= limit
        BY ShareFacts
      <4>2. hdrm \in Nat /\ hdrm <= psize
        BY <1>2, <1>3, <3>6
      <4>3. limit \in Nat
        BY MemoryAssumption
      <4> HIDE DEF s, hdrm, limit
      <4>4. QED
        BY <1>2, <4>1, <4>2, <4>3
    <3>8. load \in Nat /\ load <= s * Len(wire'[port])
      <4>1. wire'[port] \in Seq(WirePacket)
        BY <1>6
      <4>2. \A i \in DOMAIN wire'[port] : wire'[port][i].size <= s
        <5> DEFINE v == wire'[port]
        <5>1. v \in Seq(WirePacket) /\ \A z \in Sizes : z <= s
          BY <4>1, ShareFacts DEF s
        <5> HIDE DEF v
        <5>2. \A i \in DOMAIN v : v[i] \in WirePacket
          BY <5>1
        <5>3. \A i \in DOMAIN v : v[i].size <= s
          BY <5>1, <5>2 DEF WirePacket
        <5>4. QED
          BY <5>3 DEF v
      <4>3. QED
        BY <3>7, <4>1, <4>2, LoadType, LoadBounded
    <3> HIDE DEF s, hdrm, load, limit
    <3>9. s * Len(wire'[port]) <= s * (LinkCap - 1)
      <4> DEFINE len == Len(wire'[port])
      <4>1. len \in Nat /\ len <= LinkCap - 1 /\ LinkCap \in Nat
        BY <1>6, LinkAssumption
      <4> HIDE DEF len
      <4>2. PICK d \in Nat : LinkCap - 1 = len + d
        <5>1. LinkCap - 1 - len \in Nat /\ LinkCap - 1 = len + (LinkCap - 1 - len)
          BY <4>1
        <5>2. QED
          BY <5>1
      <4>3. s * (len + d) = s * len + s * d /\ s * d \in Nat /\ s * len \in Nat
        BY <3>7, <4>1, <4>2
      <4>4. QED
        BY <4>2, <4>3 DEF len
    <3>10. hdrm + load + s * k <= limit
      <4> DEFINE a == s * LinkCap
      <4>1. LinkCap \in Nat
        BY LinkAssumption
      <4>2. /\ a \in Nat /\ s * (LinkCap - 1) = a - s /\ s * (LinkCap + 1) = a + s
            /\ s * (2 * LinkCap + 1) = 2 * a + s
        BY <3>7, <4>1
      <4> HIDE DEF a
      <4>3. s * Len(wire'[port]) \in Nat
        BY <1>6, <3>7
      <4>4. load <= a - s
        BY <3>7, <3>8, <3>9, <4>2, <4>3
      <4>5. hdrm + load + (a + s) <= limit
        BY <3>7, <3>8, <4>2, <4>4
      <4>6. QED
        BY <4>2, <4>5 DEF k
    <3>11. Used(port, r)' = hdrm + load
      BY DEF Used, hdrm, load
    <3>12. \A j \in DOMAIN pfc'[port] : ~(j > n + 1)
      BY <3>5
    <3>13. n + 1 \in DOMAIN pfc'[port]
      BY <3>5
    <3>14. Covers(m_paused'[port][r], pfc'[port], late'[port], r, Used(port, r)', s, limit)
      BY <3>4, <3>5, <3>10, <3>11, <3>12, <3>13 DEF Covers
    <3>15. QED
      BY <2>2, <3>14 DEF Covered, s, limit
  <2>3. QED
    BY <1>4, <2>1, <2>2
<1>11. QED
  BY <1>7, <1>10


\* The switch drops the packet at the head of a wire.
LEMMA DropsInv ==
    ASSUME HeadroomCovers, LinkInv, HInv', NEW port \in Ports, wire[port] # << >>,
           UNCHANGED vars, wire' = [wire EXCEPT ![port] = Tail(@)], NewFramesAreLate
    PROVE  LinkTypes' /\ \A p \in Ports, q \in Prios : Covered(p, q)'
<1>1. UNCHANGED <<pfc, paused, m_paused, multicast, hdrm_bytes>>
  BY DEF vars, mmu_vars, ingress_vars
<1>2. PICK r \in Prios : TRUE
  <2>1. Head(wire[port]) \in WirePacket
    BY WireTypes
  <2>2. QED
    BY <2>1 DEF WirePacket
<1>3. \A p \in Ports, q \in Prios : hdrm_bytes[p][q] \in Nat
  BY DEF LinkInv, HInv, WeakTypes
<1>4. Handles(port, r)
  BY <1>1, <1>3 DEF Handles
<1>5. /\ wire' \in [Ports -> Seq(WirePacket)]
      /\ \A p \in Ports : Len(wire'[p]) <= LinkCap
      /\ wire'[port] = Tail(wire[port])
      /\ \A p \in Ports \ {port} : wire'[p] = wire[p]
      /\ Head(wire[port]) \in WirePacket
  BY WireTypes
<1>6. LinkTypes'
  BY <1>1, <1>4, <1>5, LateTypes DEF LinkTypes, LinkInv
<1>7. \A p \in Ports, q \in Prios : Used(p, q)' <= Used(p, q)
  <2> TAKE p \in Ports, q \in Prios
  <2>1. wire[p] \in Seq(WirePacket)
    BY DEF LinkInv, LinkTypes
  <2>2. LoadOf(wire[p], q) \in Nat /\ LoadOf(wire'[p], q) <= LoadOf(wire[p], q)
    <3>1. CASE p # port
      <4>1. LoadOf(wire[p], q) \in Nat
        BY <2>1, LoadType
      <4>2. QED
        BY <1>5, <3>1, <4>1
    <3>2. CASE p = port
      <4> DEFINE x == IF Head(wire[p]).prio = q THEN Head(wire[p]).size ELSE 0
      <4>1. LoadOf(wire'[p], q) = LoadOf(wire[p], q) - x
        BY <1>5, <2>1, <3>2, LoadTail
      <4>2. x \in Nat
        BY <1>5, <3>2, PortsAssumption DEF WirePacket
      <4>3. LoadOf(wire[p], q) \in Nat
        BY <2>1, LoadType
      <4> HIDE DEF x
      <4>4. QED
        BY <4>1, <4>2, <4>3
    <3>3. QED
      BY <3>1, <3>2
  <2>3. LoadOf(wire'[p], q) \in Nat
    <3>1. wire'[p] \in Seq(WirePacket)
      BY <1>5
    <3>2. QED
      BY <3>1, LoadType
  <2>4. QED
    BY <1>1, <1>3, <2>2, <2>3 DEF Used
<1>8. QED
  BY <1>1, <1>4, <1>6, <1>7, HandlesKeepsOthers

\* A packet leaves the switch: a port that is resumed needs no cover.
LEMMA SwitchSendsInv ==
    ASSUME HeadroomCovers, LinkInv, HInv', NEW out \in Ports, NEW r \in Prios,
           SwitchSends(out, r)
    PROVE  LinkTypes' /\ \A p \in Ports, q \in Prios : Covered(p, q)'
<1>1. PICK in \in Ports : SwitchNotifyDequeue(in, out, r)
  BY DEF SwitchSends
<1>2. /\ NewFramesAreLate /\ UNCHANGED wire
      /\ UNCHANGED <<multicast, m_paused>>
      /\ CheckAndSendResume(in, r)
  BY <1>1 DEF SwitchSends, SwitchNotifyDequeue
<1>3. \A p \in Ports, q \in Prios :
         /\ hdrm_bytes'[p][q] <= hdrm_bytes[p][q]
         /\ hdrm_bytes[p][q] \in Nat /\ hdrm_bytes'[p][q] \in Nat
  <2> DEFINE psize == Head(queues[out][r]).size
  <2>1. psize \in Sizes
    <3>1. queues[out][r] \in Seq(Packet) /\ queues[out][r] # << >>
      BY <1>1 DEF LinkInv, HInv, WeakTypes, SwitchNotifyDequeue
    <3>2. Head(queues[out][r]) \in Packet
      BY <3>1
    <3>3. QED
      BY <3>2 DEF Packet
  <2>2. RemoveFromIngressAdmission(in, r, psize)
    BY <1>1 DEF SwitchNotifyDequeue
  <2> HIDE DEF psize
  <2>3. /\ hdrm_bytes' \in [Ports -> [Prios -> Nat]]
        /\ \A p \in Ports, q \in Prios : hdrm_bytes'[p][q] <= hdrm_bytes[p][q]
    BY <2>1, <2>2, RemoveRespectsHeadroom DEF LinkInv, HInv
  <2>4. QED
    BY <2>3 DEF LinkInv, HInv, WeakTypes
<1>4. \/ UNCHANGED <<pfc, paused>>
      \/ /\ paused[in][r]
         /\ pfc' = [pfc EXCEPT ![in] = Append(@, [prio |-> r, pause |-> FALSE])]
         /\ paused' = [paused EXCEPT ![in][r] = FALSE]
  BY <1>2 DEF CheckAndSendResume, SendPfc
<1>5. paused \in [Ports -> [Prios -> BOOLEAN]]
  BY DEF LinkInv, HInv, WeakTypes
<1>6. Handles(in, r)
  <2>1. \/ UNCHANGED <<pfc, paused>>
        \/ /\ pfc' = [pfc EXCEPT ![in] = Append(@, [prio |-> r, pause |-> ~paused[in][r]])]
           /\ paused' = [paused EXCEPT ![in][r] = ~@]
    <3>1. paused[in][r] => (~paused[in][r]) = FALSE
      OBVIOUS
    <3>2. QED
      BY <1>4, <1>5, <3>1
  <2>2. QED
    BY <1>2, <1>3, <2>1 DEF Handles
<1>7. LinkTypes'
  <2>1. /\ late' \in [Ports -> Seq(Nat)]
        /\ \A p \in Ports : Len(late'[p]) = Len(pfc'[p])
    BY <1>2, <1>6, LateTypes
  <2>2. QED
    BY <1>2, <2>1 DEF LinkInv, LinkTypes
<1>8. \A p \in Ports, q \in Prios : Used(p, q)' <= Used(p, q)
  <2> TAKE p \in Ports, q \in Prios
  <2>1. LoadOf(wire[p], q) \in Nat
    BY UsedType
  <2>2. QED
    BY <1>2, <1>3, <2>1 DEF Used
<1>9. ASSUME NEW p \in Ports, NEW q \in Prios
      PROVE  Covered(p, q)'
  <2>1. CASE (p # in \/ q # r) \/ UNCHANGED <<pfc, paused>>
    BY <1>2, <1>6, <1>7, <1>8, <2>1, HandlesKeepsOthers
  <2>2. CASE p = in /\ q = r /\ paused' = [paused EXCEPT ![in][r] = FALSE]
    <3>1. ~paused'[p][q]
      BY <1>5, <2>2
    <3>2. QED
      BY <3>1 DEF Covered
  <2>3. QED
    BY <1>4, <2>1, <2>2
<1>10. QED
  BY <1>7, <1>9

\* A frame reaches the neighbour.
LEMMA FrameArrivesInv ==
    ASSUME HeadroomCovers, LinkInv, HInv', NEW port \in Ports, FrameArrives(port)
    PROVE  LinkTypes' /\ \A p \in Ports, q \in Prios : Covered(p, q)'
<1> DEFINE frames == pfc[port]
           lates == late[port]
<1>1. /\ frames # << >>
      /\ m_paused' = [m_paused EXCEPT ![port][Head(frames).prio] = Head(frames).pause]
      /\ pfc' = [pfc EXCEPT ![port] = Tail(frames)]
      /\ late' = [late EXCEPT ![port] = Tail(lates)]
      /\ UNCHANGED <<wire, hdrm_bytes, paused, multicast>>
  BY DEF FrameArrives, ReceivePfc, mmu_vars, ingress_vars
<1>2. /\ frames \in Seq(Frame) /\ lates \in Seq(Nat) /\ Len(lates) = Len(frames)
      /\ pfc \in [Ports -> Seq(Frame)] /\ late \in [Ports -> Seq(Nat)]
      /\ m_paused \in [Ports -> [Prios -> BOOLEAN]]
      /\ \A p \in Ports : Len(late[p]) = Len(pfc[p])
  BY DEF LinkInv, PauseInv, PfcTypes, LinkTypes
<1>3. Head(frames) \in Frame
  BY <1>1, <1>2
<1>4. /\ Tail(frames) \in Seq(Frame) /\ Tail(lates) \in Seq(Nat)
      /\ Len(Tail(lates)) = Len(Tail(frames))
  <2>1. lates # << >>
    BY <1>1, <1>2
  <2>2. QED
    BY <1>1, <1>2, <2>1
<1> HIDE DEF frames, lates
<1>5. /\ pfc'[port] = Tail(frames) /\ late'[port] = Tail(lates)
      /\ \A p \in Ports \ {port} : pfc'[p] = pfc[p] /\ late'[p] = late[p]
      /\ late' \in [Ports -> Seq(Nat)]
  BY <1>1, <1>2, <1>4
<1>6. LinkTypes'
  <2>1. \A p \in Ports : Len(late'[p]) = Len(pfc'[p])
    BY <1>2, <1>4, <1>5
  <2>2. QED
    BY <1>1, <1>5, <2>1 DEF LinkInv, LinkTypes
<1>7. ASSUME NEW p \in Ports, NEW q \in Prios, paused[p][q]
      PROVE  Covers(m_paused'[p][q], pfc'[p], late'[p], q, Used(p, q), Share(p), headroom[p])
  <2>1. Covers(m_paused[p][q], pfc[p], late[p], q, Used(p, q), Share(p), headroom[p])
    BY <1>7 DEF LinkInv, Covered
  <2>2. CASE p # port
    <3>1. m_paused'[p][q] = m_paused[p][q]
      BY <1>1, <1>2, <1>3, <2>2
    <3>2. QED
      BY <1>5, <2>1, <2>2, <3>1
  <2>3. CASE p = port
    <3> DEFINE now == m_paused[p][q]
               used == Used(p, q)
               share == Share(p)
               limit == headroom[p]
    <3>1. now \in BOOLEAN /\ used \in Nat /\ share \in Nat /\ limit \in Nat
      BY <1>2, UsedType, ShareFacts, MemoryAssumption
    <3>2. m_paused'[p][q] = IF Head(frames).prio = q THEN Head(frames).pause ELSE now
      BY <1>1, <1>2, <1>3, <2>3 DEF Frame
    <3>3. Covers(now, frames, lates, q, used, share, limit)
      BY <2>1, <2>3 DEF frames, lates
    <3> HIDE DEF now, used, share, limit
    <3>4. Covers(IF Head(frames).prio = q THEN Head(frames).pause ELSE now,
                 Tail(frames), Tail(lates), q, used, share, limit)
      BY <1>1, <1>2, <3>1, <3>3, CoversTail
    <3>5. QED
      BY <1>5, <2>3, <3>2, <3>4 DEF used, share, limit
  <2>4. QED
    BY <2>2, <2>3
<1>8. QED
  BY <1>1, <1>6, <1>7 DEF Covered, Used

LEMMA LinkInvNext == HeadroomCovers /\ LinkInv /\ [LinkNext]_link_vars => LinkInv'
<1> SUFFICES ASSUME HeadroomCovers, LinkInv, [LinkNext]_link_vars PROVE LinkInv'
  OBVIOUS
<1>1. HInv' /\ PauseInv'
  <2>1. [Next]_vars
    BY LinkStep
  <2>2. QED
    BY <2>1, HInvNext, PauseInvNext DEF LinkInv
<1>2. ASSUME LinkTypes' /\ \A p \in Ports, q \in Prios : Covered(p, q)'
      PROVE  LinkInv'
  BY <1>1, <1>2 DEF LinkInv
<1>3. ASSUME NEW port \in Ports, NEW q \in Prios, NEW psize \in Sizes,
             NeighbourSends(port, q, psize)
      PROVE  LinkInv'
  <2>1. LinkTypes' /\ \A p \in Ports, r \in Prios : Covered(p, r)'
    BY <1>3, NeighbourSendsInv
  <2>2. QED
    BY <1>2, <2>1
<1>4. ASSUME NEW port \in Ports, SwitchReceives(port)
      PROVE  LinkInv'
  <2>1. PICK q \in Prios, psize \in Sizes :
           /\ Head(wire[port]) = [prio |-> q, size |-> psize]
           /\ \/ \E out \in Ports : SendToDev(port, out, q, psize)
              \/ UNCHANGED vars
    BY <1>4 DEF SwitchReceives
  <2>2. /\ wire[port] # << >> /\ wire' = [wire EXCEPT ![port] = Tail(@)]
        /\ NewFramesAreLate
    BY <1>4 DEF SwitchReceives
  <2>3. LinkTypes' /\ \A p \in Ports, r \in Prios : Covered(p, r)'
    BY <1>1, <2>1, <2>2, AdmitsInv, DropsInv
  <2>4. QED
    BY <1>2, <2>3
<1>5. ASSUME NEW out \in Ports, NEW q \in Prios, SwitchSends(out, q)
      PROVE  LinkInv'
  <2>1. LinkTypes' /\ \A p \in Ports, r \in Prios : Covered(p, r)'
    BY <1>1, <1>5, SwitchSendsInv
  <2>2. QED
    BY <1>2, <2>1
<1>6. ASSUME NEW port \in Ports, FrameArrives(port)
      PROVE  LinkInv'
  <2>1. LinkTypes' /\ \A p \in Ports, r \in Prios : Covered(p, r)'
    BY <1>1, <1>6, FrameArrivesInv
  <2>2. QED
    BY <1>2, <2>1
<1>7. CASE UNCHANGED link_vars
  <2>1. LinkTypes' /\ \A p \in Ports, r \in Prios : Covered(p, r)'
    BY <1>7 DEF LinkInv, LinkTypes, Covered, Used, link_vars, vars, mmu_vars, ingress_vars
  <2>2. QED
    BY <1>2, <2>1
<1>8. QED
  BY <1>3, <1>4, <1>5, <1>6, <1>7 DEF LinkNext

\* What is on the wire is less than the headroom has left, paused or not.
LEMMA WireFits == HeadroomCovers /\ LinkInv => NothingIsDropped
<1> SUFFICES ASSUME HeadroomCovers, LinkInv, NEW port \in Ports, wire[port] # << >>
             PROVE  CheckIngressAdmission(port, Head(wire[port]).prio, Head(wire[port]).size)
  BY DEF NothingIsDropped
<1> DEFINE q == Head(wire[port]).prio
           psize == Head(wire[port]).size
           hdrm == hdrm_bytes[port][q]
           limit == headroom[port]
<1>1. wire[port] \in Seq(WirePacket) /\ Head(wire[port]) \in WirePacket
  <2>1. wire[port] \in Seq(WirePacket)
    BY DEF LinkInv, LinkTypes
  <2>2. QED
    BY <2>1
<1>2. q \in Prios /\ psize \in Sizes /\ psize \in Nat
  BY <1>1, PortsAssumption DEF WirePacket
<1>3. limit \in Nat /\ hdrm \in Nat
  BY <1>2, UsedType, MemoryAssumption
<1>4. Share(port) \in Nat /\ Share(port) * (2 * LinkCap + 1) <= limit /\ psize <= Share(port)
  BY <1>2, ShareFacts
<1>5. CASE paused[port][q]
  <2>1. Covers(m_paused[port][q], pfc[port], late[port], q, Used(port, q), Share(port), limit)
    BY <1>2, <1>5 DEF LinkInv, Covered
  <2>2. \A i \in DOMAIN pfc[port] : Share(port) * late[port][i] \in Nat
    <3>1. DOMAIN pfc[port] = DOMAIN late[port] /\ late[port] \in Seq(Nat)
      BY FramesType
    <3>2. \A i \in DOMAIN pfc[port] : late[port][i] \in Nat
      BY <3>1
    <3>3. QED
      BY <1>4, <3>2
  <2>3. Used(port, q) \in Nat
    BY <1>2, UsedType
  <2>4. Used(port, q) <= limit
    <3> DEFINE used == Used(port, q)
               product(i) == Share(port) * late[port][i]
    <3>1. used <= limit \/ \E i \in DOMAIN pfc[port] : used + product(i) <= limit
      BY <2>1 DEF Covers
    <3>2. \A i \in DOMAIN pfc[port] : product(i) \in Nat
      BY <2>2
    <3>3. used \in Nat
      BY <2>3
    <3> HIDE DEF used, product
    <3>4. used <= limit
      BY <1>3, <3>1, <3>2, <3>3
    <3>5. QED
      BY <3>4 DEF used
  <2>5. psize + hdrm <= Used(port, q)
    <3> DEFINE t == Tail(wire[port])
    <3>1. t \in Seq(WirePacket)
      BY <1>1
    <3>2. LoadOf(t, q) \in Nat
      BY <3>1, LoadType
    <3>3. LoadOf(t, q) = LoadOf(wire[port], q) - psize
      BY <1>1, LoadTail
    <3>4. LoadOf(wire[port], q) \in Nat
      BY <1>1, LoadType
    <3> HIDE DEF t, psize, hdrm
    <3>5. psize + hdrm <= hdrm + LoadOf(wire[port], q)
      BY <1>2, <1>3, <3>2, <3>3, <3>4
    <3>6. QED
      BY <3>5 DEF Used, hdrm
  <2>6. psize + hdrm <= limit
    <3> HIDE DEF psize, hdrm, limit
    <3>1. QED
      BY <1>2, <1>3, <2>3, <2>4, <2>5
  <2>7. QED
    BY <2>6 DEF CheckIngressAdmission
<1>6. CASE ~paused[port][q]
  <2>1. hdrm = 0
    BY <1>2, <1>3, <1>6 DEF LinkInv, HInv, HeadroomUseIsPaused, LinkTypes, NoMulticast
  <2>2. Share(port) <= Share(port) * (2 * LinkCap + 1)
    <3> DEFINE s == Share(port)
    <3>1. LinkCap \in Nat /\ s \in Nat
      BY <1>4, LinkAssumption
    <3> HIDE DEF s
    <3>2. s * (2 * LinkCap + 1) = 2 * (s * LinkCap) + s /\ s * LinkCap \in Nat
      BY <3>1
    <3>3. QED
      BY <3>1, <3>2 DEF s
  <2>3. psize + hdrm <= limit
    <3> DEFINE s == Share(port)
               all == s * (2 * LinkCap + 1)
    <3>1. s \in Nat /\ all \in Nat /\ all <= limit /\ s <= all /\ psize <= s
      BY <1>4, <2>2, LinkAssumption
    <3> HIDE DEF s, all, psize, hdrm, limit
    <3>2. QED
      BY <1>2, <1>3, <2>1, <3>1
  <2>4. QED
    BY <2>3 DEF CheckIngressAdmission
<1>7. QED
  BY <1>5, <1>6

-----------------------------------------------------------------------------
(* The theorems.                                                           *)

\* A switch and its neighbours behave as the switch of SwitchMmu does: what is
\* proved of Spec holds here too.
THEOREM LinkImplementsSwitch == LinkSpec => Spec
<1>1. LinkInit => Init
  BY DEF LinkInit
<1>2. [LinkNext]_link_vars => [Next]_vars
  BY LinkStep
<1>3. QED
  BY <1>1, <1>2, PTL DEF LinkSpec, Spec

\* PFC is lossless: CheckIngressAdmission admits every packet of a neighbour that
\* respects PAUSE frames, if the headroom covers what the link can still bring.
THEOREM PfcIsLossless ==
    ASSUME HeadroomCovers
    PROVE  LinkSpec => []NothingIsDropped
<1>1. LinkInit => LinkInv
  BY LinkInvInit
<1>2. LinkInv /\ [LinkNext]_link_vars => LinkInv'
  BY LinkInvNext
<1>3. LinkInv => NothingIsDropped
  BY WireFits
<1>4. QED
  BY <1>1, <1>2, <1>3, PTL DEF LinkSpec
=============================================================================
