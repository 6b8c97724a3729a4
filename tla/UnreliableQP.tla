---------------------------- MODULE UnreliableQP ----------------------------
(***************************************************************************)
(* An unreliable queue pair: RdmaUnreliableSQ cuts requests into packets,  *)
(* RdmaUnreliableRQ tells its user of the packets that arrive.  Nothing is *)
(* acknowledged.  Only the actions are here; UdMulticast puts a network    *)
(* between the two queues.  When a packet leaves is the matter of NicTx.   *)
(***************************************************************************)
EXTENDS Naturals, Sequences

CONSTANTS
    Receivers,      \* servers that may have the receive queue
    MTU,
    PayloadSizes,   \* of a request, in the unit of MTU
    Imms            \* immediate values users choose

ASSUME QpAssumption ==
    /\ MTU \in Nat \ {0}
    /\ PayloadSizes \subseteq Nat
    /\ Imms \subseteq Nat

VARIABLES
    posted,         \* the requests posted so far
    m_to_send,      \* work elements; `req` is the index in `posted`
    m_snd_nxt,
    sent,           \* requests whose on_send has been called, in order
    notified        \* by receiver: the RecvNotifs of m_onRecv, in order

sq_vars == <<posted, m_to_send, m_snd_nxt, sent>>

\* SendFlags, as the set of the flags that are present.
FragmentAsImmediate == "FragmentAsImmediate"
SendFlags == SUBSET {FragmentAsImmediate}

SendRequest == [payload_size : PayloadSizes, imm : Imms]

QpInit ==
    /\ posted = << >>
    /\ m_to_send = << >>
    /\ m_snd_nxt = 0
    /\ sent = << >>
    /\ notified = [s \in Receivers |-> << >>]

\* The test is `flags | FragmentAsImmediate`: it holds whatever the flags are.
IsFragmentAsImmediate(flags) == flags \union {FragmentAsImmediate} # {}

PostSend(sr, flags) ==
    /\ posted' = Append(posted, sr)
    /\ m_to_send' = Append(m_to_send,
           [req |-> Len(posted) + 1, sr |-> sr, bytes_sent |-> 0, sent_fragments |-> 0,
            fragment_as_immediate |-> IsFragmentAsImmediate(flags)])
    /\ UNCHANGED <<m_snd_nxt, sent, notified>>

\* More than one packet is left of the request.
IsCut(work) == work.sr.payload_size - work.bytes_sent > MTU

\* The last packet carries the payload size of the whole request: only those
\* before it are given another.
NextPacket ==
    LET work == Head(m_to_send)
    IN  [req   |-> work.req,
         psn   |-> m_snd_nxt,
         size  |-> IF IsCut(work) THEN MTU ELSE work.sr.payload_size,
         imm   |-> IF work.fragment_as_immediate THEN work.sent_fragments ELSE work.sr.imm,
         notif |-> IsCut(work) => work.fragment_as_immediate]

GetNextPacket ==
    /\ m_to_send # << >>
    /\ m_snd_nxt' = m_snd_nxt + NextPacket.size
    /\ LET work == Head(m_to_send)
       IN  \/ /\ IsCut(work)
              /\ m_to_send' = [m_to_send EXCEPT ![1].bytes_sent = @ + MTU,
                                                ![1].sent_fragments = @ + 1]
              /\ UNCHANGED sent
           \/ /\ ~IsCut(work)
              /\ m_to_send' = Tail(m_to_send)
              /\ sent' = Append(sent, work.req)
    /\ UNCHANGED <<posted, notified>>

\* The packet has arrived at server `s`.
ReceiveUdp(s, p) ==
    /\ notified' = [notified EXCEPT ![s] =
                       IF p.notif THEN Append(@, [psn |-> p.psn, imm |-> p.imm]) ELSE @]
    /\ UNCHANGED sq_vars
=============================================================================
