--------------------------- MODULE AllGatherProofs ---------------------------
(***************************************************************************)
(* Proofs about the all-gather, for any number of nodes, chains and        *)
(* chunks: none of the assertions of AgApp and AgRuntime fails, and a node *)
(* finishes only when its right neighbour has every block.                 *)
(*                                                                         *)
(* AGInv is the inductive invariant.  It says of each node what its flags  *)
(* mean, of each request how much of it its two ends may know, and of each *)
(* two neighbours that the blocks on their way are blocks that the one has *)
(* sent and the other misses.  BoundsInv adds, for the types, how much can *)
(* be under way: the chains that are multicast or handed over, summed over *)
(* the ring, are at most m_roots, and the blocks on their way and the      *)
(* acknowledgements to come are at most the blocks that have been sent.    *)
(***************************************************************************)
EXTENDS AllGather, SumTheorems, FiniteSetTheorems, FunctionTheorems, SequenceTheorems, TLAPS

Runtime ==
    [state: {"Multicast", "Recovery", "Finished"}, recv: SUBSET Chunks,
     completed_chains: Nat, progress: [Blocks -> [chunk: Nat, pkts: Nat]],
     torecover: SUBSET Blocks, rec_sent: SUBSET Blocks, has_recovered_all: BOOLEAN,
     has_recv_recover_req: BOOLEAN, rec_sent_all: BOOLEAN]

Request == [stage: {"none", "sent", "delivered", "completed"}, empty: BOOLEAN]

RecoveryTypes ==
    /\ rt \in [Blocks -> Runtime]
    /\ request \in [Blocks -> Request]
    /\ blocks \in [Blocks -> Seq(Blocks)]
    /\ acks \in [Blocks -> Nat]

\* What a node knows of itself.
NodeInv(n) ==
    /\ rt[n].state = "Multicast" <=> request[n].stage = "none"
    /\ rt[n].state = "Multicast" => rt[n].torecover = {}
    /\ rt[n].state = "Finished" => rt[n].has_recovered_all /\ rt[n].rec_sent_all
    /\ rt[n].has_recovered_all => rt[n].torecover = {}
    /\ n \in m_timeout_ev => rt[n].state = "Multicast"

\* A request that has not told its node yet that it has every block.
Pending(q) == q.stage \in {"none", "sent"} \/ (q.stage = "delivered" /\ q.empty)

\* The request of `n` and what has come of it.
RequestInv(n) ==
    /\ request[n].stage # "none" /\ request[n].empty => rt[n].torecover = {}
    /\ Pending(request[n]) => ~rt[n].has_recovered_all

\* A sequence without repetition, of members of a set.
Enumerates(s, set) ==
    \A i \in DOMAIN s : s[i] \in set /\ \A j \in DOMAIN s : s[i] = s[j] => i = j

\* Node `n` and its right neighbour, to which it sends: the blocks on their way
\* are blocks that have been sent and that the neighbour still misses.
LinkInv(n) ==
    /\ request[Right(n)].stage \in {"none", "sent"} => ~rt[n].has_recv_recover_req
    /\ ~rt[n].has_recv_recover_req =>
           ~rt[n].rec_sent_all /\ blocks[n] = << >> /\ acks[n] = 0
    /\ rt[n].rec_sent_all => rt[Right(n)].torecover = {}
    /\ Enumerates(blocks[n], rt[n].rec_sent \intersect rt[Right(n)].torecover)

AGInv == RecoveryTypes /\ \A n \in Blocks : NodeInv(n) /\ RequestInv(n) /\ LinkInv(n)
-----------------------------------------------------------------------------
(* Arithmetic of the ring and of the chunks.                               *)

LEMMA NodesArePositive == m_nodes \in Nat \ {0}
BY AgConfigAssumption

LEMMA ModFacts == ASSUME NEW m \in Nat \ {0}, NEW a \in 0 .. m - 1
                  PROVE  /\ a % m = a
                         /\ (a + m) % m = a
                         /\ m % m = 0
<1>1. m > 0 /\ a < m
  OBVIOUS
<1>2. a % m = a
  BY <1>1
<1>3. (a + m) % m = a
  BY <1>1
<1>4. QED
  BY <1>2, <1>3

\* The neighbours of a node are nodes, and each is the other's.
LEMMA Neighbours == ASSUME NEW n \in Blocks
                    PROVE  /\ Left(n) \in Blocks /\ Right(Left(n)) = n
                           /\ Right(n) \in Blocks /\ Left(Right(n)) = n
<1>1. m_nodes \in Nat \ {0} /\ n \in 0 .. m_nodes - 1
  BY NodesArePositive DEF Blocks
<1>2. Left(n) = IF n = 0 THEN m_nodes - 1 ELSE n - 1
  <2>1. CASE n = 0
    <3>1. (m_nodes - 1) % m_nodes = m_nodes - 1
      BY <1>1, ModFacts
    <3>2. QED
      BY <1>1, <2>1, <3>1 DEF Left
  <2>2. CASE n # 0
    <3>1. ((n - 1) + m_nodes) % m_nodes = n - 1
      BY <1>1, <2>2, ModFacts
    <3>2. (n - 1) + m_nodes = n + m_nodes - 1
      BY <1>1
    <3>3. QED
      BY <2>2, <3>1, <3>2 DEF Left
  <2>3. QED
    BY <2>1, <2>2
<1>3. ASSUME NEW k \in Blocks
      PROVE  Right(k) = IF k = m_nodes - 1 THEN 0 ELSE k + 1
  <2>1. k \in 0 .. m_nodes - 1
    BY DEF Blocks
  <2>2. CASE k = m_nodes - 1
    BY <1>1, <2>1, <2>2, ModFacts DEF Right
  <2>3. CASE k # m_nodes - 1
    <3>1. (k + 1) % m_nodes = k + 1
      BY <1>1, <2>1, <2>3, ModFacts
    <3>2. QED
      BY <2>3, <3>1 DEF Right
  <2>4. QED
    BY <2>2, <2>3
<1>4. Left(n) \in Blocks /\ Right(n) \in Blocks
  BY <1>1, <1>2, <1>3 DEF Blocks
<1>5. Right(Left(n)) = n
  BY <1>1, <1>2, <1>3, <1>4
<1>6. Left(Right(n)) = n
  <2>1. CASE n = m_nodes - 1
    <3>1. Right(n) = 0
      BY <1>3, <2>1
    <3>2. (m_nodes - 1) % m_nodes = m_nodes - 1
      BY <1>1, ModFacts
    <3>3. QED
      BY <1>1, <2>1, <3>1, <3>2 DEF Left
  <2>2. CASE n # m_nodes - 1
    <3>1. Right(n) = n + 1
      BY <1>3, <2>2
    <3>2. (n + m_nodes) % m_nodes = n
      BY <1>1, ModFacts
    <3>3. (n + 1) + m_nodes - 1 = n + m_nodes
      BY <1>1
    <3>4. QED
      BY <3>1, <3>2, <3>3 DEF Left
  <2>3. QED
    BY <2>1, <2>2
<1>7. QED
  BY <1>4, <1>5, <1>6

-----------------------------------------------------------------------------
(* Ascending lists each element of a set once.                             *)

Below(set, b) == {c \in set : c < b}

LEMMA RankFacts ==
    ASSUME NEW set \in SUBSET Blocks
    PROVE  /\ IsFiniteSet(set) /\ Cardinality(set) \in Nat
           /\ \A b \in set : Cardinality(Below(set, b)) \in 0 .. Cardinality(set) - 1
           /\ \A b, c \in set :
                 b < c => Cardinality(Below(set, b)) < Cardinality(Below(set, c))
<1>1. IsFiniteSet(Blocks) /\ Blocks \subseteq Nat
  BY FS_Interval, NodesArePositive DEF Blocks
<1>2. IsFiniteSet(set) /\ Cardinality(set) \in Nat
  BY <1>1, FS_Subset, FS_CardinalityType
<1>3. ASSUME NEW S \in SUBSET set, NEW T \in SUBSET S, NEW b \in S, b \notin T
      PROVE  Cardinality(T) \in Nat /\ Cardinality(T) < Cardinality(S)
  <2>1. IsFiniteSet(S) /\ Cardinality(S) \in Nat
    BY <1>2, FS_Subset, FS_CardinalityType
  <2>2. IsFiniteSet(T) /\ Cardinality(T) \in Nat /\ Cardinality(T) <= Cardinality(S)
    BY <2>1, FS_Subset, FS_CardinalityType
  <2>3. Cardinality(T) # Cardinality(S)
    BY <1>3, <2>1, FS_Subset
  <2>4. QED
    BY <2>1, <2>2, <2>3
<1>4. ASSUME NEW b \in set
      PROVE  Cardinality(Below(set, b)) \in 0 .. Cardinality(set) - 1
  <2>1. Below(set, b) \subseteq set /\ b \notin Below(set, b)
    BY <1>1 DEF Below
  <2>2. QED
    BY <1>2, <1>3, <2>1
<1>5. ASSUME NEW b \in set, NEW c \in set, b < c
      PROVE  Cardinality(Below(set, b)) < Cardinality(Below(set, c))
  <2>1. set \subseteq Nat /\ b \in Nat /\ c \in Nat
    BY <1>1
  <2>2. Below(set, c) \subseteq set
    BY DEF Below
  <2>3. ASSUME NEW x \in Below(set, b) PROVE x \in Below(set, c)
    <3>1. x \in set /\ x \in Nat /\ x < b
      BY <2>1 DEF Below
    <3>2. x < c
      BY <1>5, <2>1, <3>1
    <3>3. QED
      BY <3>1, <3>2 DEF Below
  <2>4. b \in Below(set, c) /\ b \notin Below(set, b)
    BY <1>5, <2>1 DEF Below
  <2>5. QED
    BY <1>3, <2>2, <2>3, <2>4
<1>6. QED
  BY <1>2, <1>4, <1>5

\* Every rank is taken: there are as many ranks as elements.
LEMMA RanksAreTaken ==
    ASSUME NEW set \in SUBSET Blocks, NEW i \in 1 .. Cardinality(set)
    PROVE  \E b \in set : Cardinality(Below(set, b)) = i - 1
<1> DEFINE Ranks == 0 .. Cardinality(set) - 1
           rank  == [b \in set |-> Cardinality(Below(set, b))]
<1>1. IsFiniteSet(set) /\ Cardinality(set) \in Nat
  BY RankFacts
<1>2. IsFiniteSet(Ranks) /\ Cardinality(Ranks) = Cardinality(set)
  <2>1. 0 \in Int /\ Cardinality(set) - 1 \in Int
    BY <1>1
  <2>2. /\ IsFiniteSet(Ranks)
        /\ Cardinality(Ranks) = IF 0 > Cardinality(set) - 1 THEN 0
                                ELSE Cardinality(set) - 1 - 0 + 1
    BY <2>1, FS_Interval
  <2>3. QED
    BY <1>1, <2>2
<1>3. rank \in Injection(set, Ranks)
  <2>1. rank \in [set -> Ranks]
    BY RankFacts
  <2>2. ASSUME NEW b \in set, NEW c \in set, rank[b] = rank[c] PROVE b = c
    <3>1. b \in Nat /\ c \in Nat
      BY NodesArePositive DEF Blocks
    <3>2. /\ rank[b] = Cardinality(Below(set, b)) /\ rank[c] = Cardinality(Below(set, c))
          /\ rank[b] \in Nat /\ rank[c] \in Nat
      BY <1>1, <2>1
    <3>3. ~(b < c) /\ ~(c < b)
      BY <2>2, <3>2, RankFacts
    <3>4. QED
      BY <3>1, <3>3
  <2>3. QED
    BY <2>1, <2>2, Fun_IsInj
<1>4. rank \in Surjection(set, Ranks)
  BY <1>2, <1>3, FS_Injection
<1>5. i - 1 \in Ranks
  BY <1>1
<1>6. PICK b \in set : rank[b] = i - 1
  BY <1>4, <1>5 DEF Surjection
<1>7. QED
  BY <1>6

LEMMA AscendingEnumerates ==
    ASSUME NEW set \in SUBSET Blocks
    PROVE  /\ Ascending(set) \in Seq(set)
           /\ \A i, j \in DOMAIN Ascending(set) :
                 Ascending(set)[i] = Ascending(set)[j] => i = j
<1> DEFINE A == Ascending(set)
<1>1. Cardinality(set) \in Nat
  BY RankFacts
<1>2. DOMAIN A = 1 .. Cardinality(set)
  BY DEF Ascending
<1>3. ASSUME NEW i \in 1 .. Cardinality(set)
      PROVE  A[i] \in set /\ Cardinality(Below(set, A[i])) = i - 1
  <2>1. A[i] = CHOOSE b \in set : Cardinality(Below(set, b)) = i - 1
    BY DEF Ascending, Below
  <2>2. \E b \in set : Cardinality(Below(set, b)) = i - 1
    BY RanksAreTaken
  <2>3. QED
    BY <2>1, <2>2
<1>4. A \in [1 .. Cardinality(set) -> set]
  BY <1>2, <1>3 DEF Ascending
<1>5. A \in Seq(set)
  BY <1>1, <1>4
<1>6. ASSUME NEW i \in DOMAIN A, NEW j \in DOMAIN A, A[i] = A[j] PROVE i = j
  BY <1>1, <1>2, <1>3, <1>6
<1>7. QED
  BY <1>5, <1>6
LEMMA AppendEnumerates ==
    ASSUME NEW s \in Seq(Blocks), NEW more \in SUBSET Blocks,
           NEW S \in SUBSET Blocks, Enumerates(s, S), S \cap more = {}
    PROVE  /\ s \o Ascending(more) \in Seq(Blocks)
           /\ Enumerates(s \o Ascending(more), S \union more)
<1> DEFINE A == Ascending(more)
           t == s \o A
<1>1. /\ A \in Seq(more) /\ \A i, j \in DOMAIN A : A[i] = A[j] => i = j
  BY AscendingEnumerates
<1>2. A \in Seq(Blocks)
  BY <1>1
<1> HIDE DEF A
<1>3. /\ t \in Seq(Blocks) /\ DOMAIN t = 1 .. Len(s) + Len(A)
      /\ \A i \in DOMAIN t : t[i] = IF i <= Len(s) THEN s[i] ELSE A[i - Len(s)]
  BY <1>2
<1>4. /\ Len(s) \in Nat /\ Len(A) \in Nat
      /\ DOMAIN s = 1 .. Len(s) /\ DOMAIN A = 1 .. Len(A)
  BY <1>2
<1>5. ASSUME NEW i \in DOMAIN t
      PROVE  \/ i \in DOMAIN s /\ t[i] = s[i] /\ t[i] \in S /\ t[i] \notin more
             \/ /\ i - Len(s) \in DOMAIN A /\ i \notin DOMAIN s
                /\ t[i] = A[i - Len(s)] /\ t[i] \in more /\ t[i] \notin S
  <2>1. CASE i <= Len(s)
    <3>1. i \in DOMAIN s /\ t[i] = s[i]
      BY <1>3, <1>4, <2>1
    <3>2. s[i] \in S
      BY <3>1 DEF Enumerates
    <3>3. QED
      BY <3>1, <3>2
  <2>2. CASE ~(i <= Len(s))
    <3>1. i - Len(s) \in DOMAIN A /\ i \notin DOMAIN s /\ t[i] = A[i - Len(s)]
      BY <1>3, <1>4, <2>2
    <3>2. A[i - Len(s)] \in more
      BY <1>1, <3>1
    <3>3. QED
      BY <3>1, <3>2
  <2>3. QED
    BY <2>1, <2>2
<1>6. ASSUME NEW i \in DOMAIN t, NEW j \in DOMAIN t, t[i] = t[j] PROVE i = j
  <2>1. CASE i \in DOMAIN s
    <3>1. j \in DOMAIN s /\ s[i] = s[j]
      BY <1>5, <1>6, <2>1
    <3>2. QED
      BY <2>1, <3>1 DEF Enumerates
  <2>2. CASE i \notin DOMAIN s
    <3>1. /\ i - Len(s) \in DOMAIN A /\ j - Len(s) \in DOMAIN A
          /\ A[i - Len(s)] = A[j - Len(s)]
      BY <1>5, <1>6, <2>2
    <3>2. i - Len(s) = j - Len(s)
      BY <1>1, <3>1
    <3>3. QED
      BY <1>3, <1>4, <3>2
  <2>3. QED
    BY <2>1, <2>2
<1>7. Enumerates(t, S \union more)
  BY <1>5, <1>6 DEF Enumerates
<1>8. QED
  BY <1>3, <1>7 DEF A

LEMMA TailEnumerates ==
    ASSUME NEW s \in Seq(Blocks), NEW S \in SUBSET Blocks, Enumerates(s, S), s # << >>
    PROVE  /\ Head(s) \in S /\ Tail(s) \in Seq(Blocks)
           /\ Enumerates(Tail(s), S \ {Head(s)})
<1>1. /\ Len(s) \in Nat \ {0} /\ DOMAIN s = 1 .. Len(s) /\ Head(s) = s[1]
      /\ Tail(s) \in Seq(Blocks) /\ DOMAIN Tail(s) = 1 .. Len(s) - 1
      /\ \A i \in DOMAIN Tail(s) : Tail(s)[i] = s[i + 1]
  BY HeadTailProperties, EmptySeq
<1>2. ASSUME NEW i \in DOMAIN Tail(s), NEW j \in DOMAIN Tail(s)
      PROVE  /\ Tail(s)[i] \in S /\ Tail(s)[i] # Head(s)
             /\ Tail(s)[i] = Tail(s)[j] => i = j
  <2>1. i + 1 \in DOMAIN s /\ j + 1 \in DOMAIN s /\ 1 \in DOMAIN s /\ i + 1 # 1
    BY <1>1
  <2>2. /\ s[i + 1] \in S /\ s[i + 1] # s[1]
        /\ s[i + 1] = s[j + 1] => i + 1 = j + 1
    BY <2>1 DEF Enumerates
  <2>3. QED
    BY <1>1, <2>2
<1>3. Head(s) \in S
  BY <1>1 DEF Enumerates
<1>4. QED
  BY <1>1, <1>2, <1>3 DEF Enumerates
-----------------------------------------------------------------------------
(* The invariant, handler by handler.                                      *)

\* What TryUpdateState does to node `n` and to the blocks on their way.
LEMMA TryUpdateStateFacts ==
    ASSUME NEW n \in Blocks, NEW r \in Runtime, RecoveryTypes,
           NEW bs \in [Blocks -> Seq(Blocks)], TryUpdateState(n, r, bs)
    PROVE  /\ rt' \in [Blocks -> Runtime]
           /\ \A m \in Blocks \ {n} : rt'[m] = rt[m] /\ blocks'[m] = bs[m]
           /\ rt'[n].torecover = r.torecover
           /\ rt'[n].has_recovered_all = r.has_recovered_all
           /\ rt'[n].has_recv_recover_req = r.has_recv_recover_req
           /\ rt'[n].rec_sent_all = r.rec_sent_all
           /\ \/ rt'[n].state = r.state
              \/ /\ r.state = "Recovery" /\ rt'[n].state = "Finished"
                 /\ r.has_recovered_all /\ r.rec_sent_all
           /\ blocks' \in [Blocks -> Seq(Blocks)]
           /\ ~r.has_recv_recover_req => blocks'[n] = bs[n]
           /\ \A S \in SUBSET Blocks : Enumerates(bs[n], r.rec_sent \intersect S) =>
                 Enumerates(blocks'[n],
                     rt'[n].rec_sent \intersect (S \union (rt[Right(n)].torecover \ r.rec_sent)))
<1> DEFINE sends == IF r.state = "Recovery" THEN ToSend(r, rt[Right(n)]) ELSE {}
<1>1. rt[Right(n)] \in Runtime
  BY Neighbours DEF RecoveryTypes
<1>2. /\ sends \in SUBSET Blocks
      /\ sends \subseteq rt[Right(n)].torecover \ r.rec_sent
      /\ ~r.has_recv_recover_req => sends = {}
  BY <1>1 DEF ToSend, Runtime
<1>3. /\ blocks' = [bs EXCEPT ![n] = @ \o Ascending(sends)]
      /\ rt' = [rt EXCEPT ![n] =
                   [r EXCEPT !.rec_sent = @ \union sends,
                             !.state = IF @ = "Recovery" /\ CanFinish(r) THEN "Finished" ELSE @]]
  BY DEF TryUpdateState
<1> HIDE DEF sends
<1>4. /\ rt'[n] = [r EXCEPT !.rec_sent = @ \union sends,
                            !.state = IF @ = "Recovery" /\ CanFinish(r) THEN "Finished" ELSE @]
      /\ \A m \in Blocks \ {n} : rt'[m] = rt[m] /\ blocks'[m] = bs[m]
      /\ blocks'[n] = bs[n] \o Ascending(sends)
  BY <1>3 DEF RecoveryTypes
<1>5. /\ rt'[n] \in Runtime
      /\ rt'[n].torecover = r.torecover
      /\ rt'[n].has_recovered_all = r.has_recovered_all
      /\ rt'[n].has_recv_recover_req = r.has_recv_recover_req
      /\ rt'[n].rec_sent_all = r.rec_sent_all
      /\ rt'[n].rec_sent = r.rec_sent \union sends
      /\ \/ rt'[n].state = r.state
         \/ /\ r.state = "Recovery" /\ rt'[n].state = "Finished"
            /\ r.has_recovered_all /\ r.rec_sent_all
  <2> DEFINE st == IF r.state = "Recovery" /\ CanFinish(r) THEN "Finished" ELSE r.state
             rs == r.rec_sent \union sends
  <2>1. rt'[n] = [r EXCEPT !.rec_sent = rs, !.state = st]
    BY <1>4
  <2>2. /\ st \in {"Multicast", "Recovery", "Finished"} /\ rs \in SUBSET Blocks
        /\ \/ st = r.state
           \/ r.state = "Recovery" /\ st = "Finished" /\ r.has_recovered_all /\ r.rec_sent_all
    BY <1>2 DEF Runtime, CanFinish
  <2> HIDE DEF st, rs
  <2>3. rt'[n] \in Runtime
    <3>1. [r EXCEPT !.rec_sent = rs] \in Runtime
      BY <2>2 DEF Runtime
    <3>2. \A x \in Runtime : [x EXCEPT !.state = st] \in Runtime
      BY <2>2 DEF Runtime
    <3>3. rt'[n] = [[r EXCEPT !.rec_sent = rs] EXCEPT !.state = st]
      BY <2>1
    <3>4. QED
      BY <3>1, <3>2, <3>3
  <2>4. /\ rt'[n].state = st /\ rt'[n].rec_sent = rs
        /\ rt'[n].torecover = r.torecover
        /\ rt'[n].has_recovered_all = r.has_recovered_all
        /\ rt'[n].has_recv_recover_req = r.has_recv_recover_req
        /\ rt'[n].rec_sent_all = r.rec_sent_all
    BY <2>1 DEF Runtime
  <2>5. QED
    BY <2>2, <2>3, <2>4 DEF rs
<1>6. rt' \in [Blocks -> Runtime]
  BY <1>3, <1>4, <1>5 DEF RecoveryTypes
<1>7. Ascending(sends) \in Seq(Blocks)
  <2>1. Ascending(sends) \in Seq(sends)
    BY <1>2, AscendingEnumerates
  <2>2. QED
    BY <1>2, <2>1
<1>8. blocks' \in [Blocks -> Seq(Blocks)]
  <2>1. blocks'[n] \in Seq(Blocks)
    BY <1>4, <1>7
  <2>2. QED
    BY <1>3, <2>1
<1>9. ~r.has_recv_recover_req => blocks'[n] = bs[n]
  <2>1. ASSUME sends = {} PROVE blocks'[n] = bs[n]
    <3>1. Ascending(sends) = << >>
      BY <1>7, <2>1, FS_EmptySet DEF Ascending
    <3>2. QED
      BY <1>4, <3>1
  <2>2. QED
    BY <1>2, <2>1
<1>10. ASSUME NEW S \in SUBSET Blocks, Enumerates(bs[n], r.rec_sent \intersect S)
       PROVE  Enumerates(blocks'[n],
                  rt'[n].rec_sent \intersect (S \union (rt[Right(n)].torecover \ r.rec_sent)))
  <2> DEFINE old == r.rec_sent \intersect S
             new == rt'[n].rec_sent \intersect (S \union (rt[Right(n)].torecover \ r.rec_sent))
  <2>1. old \in SUBSET Blocks /\ old \intersect sends = {} /\ old \union sends \subseteq new
    BY <1>2, <1>5 DEF Runtime
  <2>2. Enumerates(bs[n] \o Ascending(sends), old \union sends)
    <3>1. bs[n] \in Seq(Blocks) /\ sends \in SUBSET Blocks /\ Enumerates(bs[n], old)
      BY <1>2, <1>10
    <3> HIDE DEF old, new
    <3>2. QED
      BY <2>1, <3>1, AppendEnumerates
  <2>3. Enumerates(blocks'[n], old \union sends)
    BY <1>4, <2>2
  <2>4. QED
    BY <2>1, <2>3 DEF Enumerates
<1>11. QED
  BY <1>4, <1>5, <1>6, <1>8, <1>9, <1>10
\* The blocks that the nodes miss once node `n` has become `r`.
Missing(n, r, m) == IF m = n THEN r.torecover ELSE rt[m].torecover

\* A message that makes `r` of node `n` and `bs` of the blocks on their way,
\* before TryUpdateState, in accord with the neighbours.
Handles(n, r, bs) ==
    /\ TryUpdateState(n, r, bs)
    /\ r \in Runtime /\ bs \in [Blocks -> Seq(Blocks)]
    /\ m_timeout_ev' = m_timeout_ev
    /\ request' \in [Blocks -> Request] /\ acks' \in [Blocks -> Nat]
    /\ \A m \in Blocks :
           /\ request'[m].empty = request[m].empty
           /\ request'[m].stage = "none" <=> request[m].stage = "none"
           /\ Pending(request'[m]) => Pending(request[m])
           /\ request'[m].stage = "sent" => request[m].stage = "sent"
    /\ r.state = rt[n].state /\ r.rec_sent = rt[n].rec_sent
    /\ r.torecover \subseteq rt[n].torecover
    /\ rt[n].has_recovered_all => r.has_recovered_all
    /\ rt[n].rec_sent_all => r.rec_sent_all
    /\ r.has_recovered_all => r.torecover = {}
    /\ Pending(request'[n]) => ~r.has_recovered_all
    /\ request'[Right(n)].stage \in {"none", "sent"} => ~r.has_recv_recover_req
    /\ ~r.has_recv_recover_req => ~r.rec_sent_all /\ bs[n] = << >> /\ acks'[n] = 0
    /\ r.rec_sent_all => rt[Right(n)].torecover = {}
    /\ \A m \in Blocks \ {n} :
           ~rt[m].has_recv_recover_req => bs[m] = << >> /\ acks'[m] = 0
    /\ \A m \in Blocks :
           Enumerates(bs[m], rt[m].rec_sent \intersect Missing(n, r, Right(m)))
    /\ rt[Right(n)].torecover \ r.rec_sent \subseteq Missing(n, r, Right(n))

LEMMA HandlerKeepsInv ==
    ASSUME AGInv, NEW n \in Blocks, NEW r, NEW bs, Handles(n, r, bs)
    PROVE  AGInv'
<1> USE DEF Handles
<1>1. RecoveryTypes
  BY DEF AGInv
<1>2. /\ rt' \in [Blocks -> Runtime]
      /\ \A m \in Blocks \ {n} : rt'[m] = rt[m] /\ blocks'[m] = bs[m]
      /\ rt'[n].torecover = r.torecover
      /\ rt'[n].has_recovered_all = r.has_recovered_all
      /\ rt'[n].has_recv_recover_req = r.has_recv_recover_req
      /\ rt'[n].rec_sent_all = r.rec_sent_all
      /\ \/ rt'[n].state = r.state
         \/ /\ r.state = "Recovery" /\ rt'[n].state = "Finished"
            /\ r.has_recovered_all /\ r.rec_sent_all
      /\ blocks' \in [Blocks -> Seq(Blocks)]
      /\ ~r.has_recv_recover_req => blocks'[n] = bs[n]
      /\ \A S \in SUBSET Blocks : Enumerates(bs[n], r.rec_sent \intersect S) =>
            Enumerates(blocks'[n],
                rt'[n].rec_sent \intersect (S \union (rt[Right(n)].torecover \ r.rec_sent)))
  BY <1>1, TryUpdateStateFacts
<1>3. RecoveryTypes'
  BY <1>2 DEF RecoveryTypes
<1>4. ASSUME NEW m \in Blocks
      PROVE  rt'[m].torecover = Missing(n, r, m) /\ rt'[m].torecover \subseteq rt[m].torecover
  BY <1>2 DEF Missing
<1>5. ASSUME NEW m \in Blocks PROVE NodeInv(m)'
  <2>1. NodeInv(m)
    BY DEF AGInv
  <2>2. CASE m = n
    BY <1>2, <2>1, <2>2 DEF NodeInv
  <2>3. CASE m # n
    BY <1>2, <2>1, <2>3 DEF NodeInv
  <2>4. QED
    BY <2>2, <2>3
<1>6. ASSUME NEW m \in Blocks PROVE RequestInv(m)'
  <2>1. RequestInv(m)
    BY DEF AGInv
  <2>2. request'[m].stage # "none" /\ request'[m].empty => rt'[m].torecover = {}
    BY <1>4, <2>1 DEF RequestInv
  <2>3. Pending(request'[m]) => ~rt'[m].has_recovered_all
    <3>1. CASE m = n
      BY <1>2, <3>1
    <3>2. CASE m # n
      BY <1>2, <2>1, <3>2 DEF RequestInv
    <3>3. QED
      BY <3>1, <3>2
  <2>4. QED
    BY <2>2, <2>3 DEF RequestInv, Pending
<1>7. ASSUME NEW m \in Blocks PROVE LinkInv(m)'
  <2>1. LinkInv(m) /\ Right(m) \in Blocks /\ Right(m)' = Right(m)
    BY Neighbours DEF AGInv, Right
  <2>2. rt'[Right(m)].torecover = Missing(n, r, Right(m))
    BY <1>4, <2>1
  <2>3. request'[Right(m)].stage \in {"none", "sent"} =>
            request[Right(m)].stage \in {"none", "sent"}
    BY <2>1
  <2>4. rt'[Right(m)].torecover \subseteq rt[Right(m)].torecover
    BY <1>4, <2>1
  <2>5. CASE m = n
    <3>1. Missing(n, r, Right(n)) \in SUBSET Blocks
      BY <1>1, <2>1, <2>5 DEF Missing, Runtime, RecoveryTypes
    <3>2. Enumerates(blocks'[n], rt'[n].rec_sent \intersect
              (Missing(n, r, Right(n)) \union (rt[Right(n)].torecover \ r.rec_sent)))
      BY <1>2, <3>1
    <3>3. Missing(n, r, Right(n)) \union (rt[Right(n)].torecover \ r.rec_sent)
              = rt'[Right(n)].torecover
      BY <2>2, <2>5
    <3>4. Enumerates(blocks'[n], rt'[n].rec_sent \intersect rt'[Right(n)].torecover)
      BY <3>2, <3>3
    <3>5. rt'[n].rec_sent_all => rt'[Right(n)].torecover = {}
      BY <1>2, <2>4, <2>5
    <3>6. QED
      BY <1>2, <2>1, <2>5, <3>4, <3>5 DEF LinkInv, Enumerates
  <2>6. CASE m # n
    <3>1. Enumerates(blocks'[m], rt'[m].rec_sent \intersect rt'[Right(m)].torecover)
      <4>1. Enumerates(bs[m], rt[m].rec_sent \intersect Missing(n, r, Right(m)))
        BY <2>6
      <4>2. blocks'[m] = bs[m] /\ rt'[m] = rt[m]
        BY <1>2, <2>6
      <4>3. QED
        BY <2>2, <4>1, <4>2
    <3>2. rt'[m].rec_sent_all => rt'[Right(m)].torecover = {}
      BY <1>2, <2>1, <2>4, <2>6 DEF LinkInv
    <3>3. /\ request'[Right(m)].stage \in {"none", "sent"} => ~rt'[m].has_recv_recover_req
          /\ ~rt'[m].has_recv_recover_req =>
                 ~rt'[m].rec_sent_all /\ blocks'[m] = << >> /\ acks'[m] = 0
      BY <1>2, <2>1, <2>3, <2>6 DEF LinkInv
    <3>4. QED
      BY <2>1, <3>1, <3>2, <3>3 DEF LinkInv, Enumerates
  <2>7. QED
    BY <2>5, <2>6
<1>8. QED
  BY <1>3, <1>5, <1>6, <1>7 DEF AGInv
LEMMA InvFacts ==
    ASSUME AGInv, NEW n \in Blocks
    PROVE  /\ rt[n] \in Runtime /\ request[n] \in Request
           /\ blocks[n] \in Seq(Blocks) /\ acks[n] \in Nat
           /\ NodeInv(n) /\ RequestInv(n) /\ LinkInv(n)
BY DEF AGInv, RecoveryTypes

LEMMA RequestKeepsInv ==
    ASSUME AGInv, NEW n \in Blocks, NotifyRecvRecoveryRequest(n)
    PROVE  AGInv'
<1> DEFINE r == [rt[n] EXCEPT !.has_recv_recover_req = TRUE,
                              !.rec_sent_all = @ \/ MissesNothing(n)]
<1>1. /\ rt[n] \in Runtime /\ NodeInv(n) /\ RequestInv(n) /\ LinkInv(n)
      /\ Right(n) \in Blocks /\ request[Right(n)] \in Request
  BY InvFacts, Neighbours
<1>2. /\ TryUpdateState(n, r, blocks)
      /\ request' = [request EXCEPT ![Right(n)].stage = "delivered"]
      /\ request[Right(n)].stage = "sent"
      /\ m_timeout_ev' = m_timeout_ev /\ acks' = acks
  BY DEF NotifyRecvRecoveryRequest
<1>3. /\ r \in Runtime /\ r.state = rt[n].state /\ r.rec_sent = rt[n].rec_sent
      /\ r.torecover = rt[n].torecover
      /\ r.has_recovered_all = rt[n].has_recovered_all
      /\ r.has_recv_recover_req
      /\ rt[n].rec_sent_all => r.rec_sent_all
      /\ r.rec_sent_all => rt[n].rec_sent_all \/ MissesNothing(n)
  BY <1>1 DEF Runtime, MissesNothing
<1> HIDE DEF r
<1>4. /\ request' \in [Blocks -> Request]
      /\ request'[Right(n)].stage = "delivered"
      /\ \A m \in Blocks :
            /\ request'[m].empty = request[m].empty
            /\ m # Right(n) => request'[m] = request[m]
  BY <1>1, <1>2 DEF AGInv, RecoveryTypes, Request
<1>5. \A m \in Blocks :
         /\ request'[m].stage = "none" <=> request[m].stage = "none"
         /\ Pending(request'[m]) => Pending(request[m])
         /\ request'[m].stage = "sent" => request[m].stage = "sent"
  BY <1>2, <1>4 DEF Pending
<1>6. \A m \in Blocks : Missing(n, r, m) = rt[m].torecover
  BY <1>3 DEF Missing
<1>7. \A m \in Blocks :
         /\ Enumerates(blocks[m], rt[m].rec_sent \intersect Missing(n, r, Right(m)))
         /\ ~rt[m].has_recv_recover_req => blocks[m] = << >> /\ acks'[m] = 0
  <2> TAKE m \in Blocks
  <2>1. LinkInv(m) /\ Right(m) \in Blocks
    BY InvFacts, Neighbours
  <2>2. QED
    BY <1>2, <1>6, <2>1 DEF LinkInv
<1>8. r.rec_sent_all => rt[Right(n)].torecover = {}
  BY <1>1, <1>3 DEF LinkInv, MissesNothing
<1>9. /\ r.has_recovered_all => r.torecover = {}
      /\ Pending(request'[n]) => ~r.has_recovered_all
  BY <1>1, <1>3, <1>5 DEF NodeInv, RequestInv
<1>10. acks' \in [Blocks -> Nat] /\ blocks \in [Blocks -> Seq(Blocks)]
  BY <1>2 DEF AGInv, RecoveryTypes
<1>11. rt[Right(n)].torecover \ r.rec_sent \subseteq Missing(n, r, Right(n))
  BY <1>1, <1>6
<1>12. request'[Right(n)].stage \in {"none", "sent"} => ~r.has_recv_recover_req
  BY <1>4
<1>13. Handles(n, r, blocks)
  BY <1>2, <1>3, <1>4, <1>5, <1>7, <1>8, <1>9, <1>10, <1>11, <1>12 DEF Handles
<1>14. QED
  BY <1>13, HandlerKeepsInv

LEMMA RequestSentKeepsInv ==
    ASSUME AGInv, NEW n \in Blocks, RequestSent(n)
    PROVE  AGInv'
<1> DEFINE r == NotifyRecovery(rt[n], {})
<1>1. /\ rt[n] \in Runtime /\ NodeInv(n) /\ RequestInv(n) /\ LinkInv(n)
      /\ Right(n) \in Blocks /\ request[n] \in Request
  BY InvFacts, Neighbours
<1>2. /\ request' = [request EXCEPT ![n].stage = "completed"]
      /\ request[n].stage = "delivered"
      /\ m_timeout_ev' = m_timeout_ev /\ acks' = acks
  BY DEF RequestSent
<1>3. /\ request' \in [Blocks -> Request]
      /\ request'[n].stage = "completed"
      /\ \A m \in Blocks :
            /\ request'[m].empty = request[m].empty
            /\ m # n => request'[m] = request[m]
  BY <1>1, <1>2 DEF AGInv, RecoveryTypes, Request
<1>4. /\ \A m \in Blocks :
            /\ request'[m].stage = "none" <=> request[m].stage = "none"
            /\ Pending(request'[m]) => Pending(request[m])
            /\ request'[m].stage = "sent" => request[m].stage = "sent"
            /\ request'[m].stage \in {"none", "sent"} => request[m].stage \in {"none", "sent"}
      /\ ~Pending(request'[n])
  BY <1>2, <1>3 DEF Pending
<1>5. CASE request[n].empty
  <2>1. TryUpdateState(n, r, blocks)
    BY <1>5 DEF RequestSent
  <2>2. rt[n].torecover = {}
    BY <1>1, <1>2, <1>5 DEF RequestInv
  <2>3. /\ r \in Runtime /\ r.state = rt[n].state /\ r.rec_sent = rt[n].rec_sent
        /\ r.torecover = {} /\ r.has_recovered_all
        /\ r.has_recv_recover_req = rt[n].has_recv_recover_req
        /\ r.rec_sent_all = rt[n].rec_sent_all
    BY <1>1, <2>2 DEF Runtime, NotifyRecovery
  <2> HIDE DEF r
  <2>4. \A m \in Blocks : Missing(n, r, m) = rt[m].torecover
    BY <2>2, <2>3 DEF Missing
  <2>5. \A m \in Blocks :
           /\ Enumerates(blocks[m], rt[m].rec_sent \intersect Missing(n, r, Right(m)))
           /\ ~rt[m].has_recv_recover_req => blocks[m] = << >> /\ acks'[m] = 0
    <3> TAKE m \in Blocks
    <3>1. LinkInv(m) /\ Right(m) \in Blocks
      BY InvFacts, Neighbours
    <3>2. QED
      BY <1>2, <2>4, <3>1 DEF LinkInv
  <2>6. /\ r.rec_sent_all => rt[Right(n)].torecover = {}
        /\ request'[Right(n)].stage \in {"none", "sent"} => ~r.has_recv_recover_req
        /\ ~r.has_recv_recover_req => ~r.rec_sent_all /\ blocks[n] = << >> /\ acks'[n] = 0
    BY <1>1, <1>2, <1>4, <2>3 DEF LinkInv
  <2>7. acks' \in [Blocks -> Nat] /\ blocks \in [Blocks -> Seq(Blocks)]
    BY <1>2 DEF AGInv, RecoveryTypes
  <2>8. rt[Right(n)].torecover \ r.rec_sent \subseteq Missing(n, r, Right(n))
    BY <1>1, <2>4
  <2>9. /\ r.torecover \subseteq rt[n].torecover
        /\ Pending(request'[n]) => ~r.has_recovered_all
        /\ rt[n].rec_sent_all => r.rec_sent_all
    BY <1>4, <2>3
  <2>10. Handles(n, r, blocks)
    BY <1>2, <1>3, <1>4, <2>1, <2>3, <2>5, <2>6, <2>7, <2>8, <2>9 DEF Handles
  <2>11. QED
    BY <2>10, HandlerKeepsInv
<1>6. CASE ~request[n].empty
  <2>1. UNCHANGED <<rt, blocks>>
    BY <1>6 DEF RequestSent
  <2>2. RecoveryTypes'
    BY <1>2, <1>3, <2>1 DEF AGInv, RecoveryTypes
  <2>3. ASSUME NEW m \in Blocks PROVE NodeInv(m)' /\ RequestInv(m)' /\ LinkInv(m)'
    <3>1. NodeInv(m) /\ RequestInv(m) /\ LinkInv(m) /\ Right(m) \in Blocks
      BY InvFacts, Neighbours
    <3>2. NodeInv(m)'
      BY <1>2, <1>4, <2>1, <3>1 DEF NodeInv
    <3>3. RequestInv(m)'
      BY <1>3, <1>4, <2>1, <3>1 DEF RequestInv
    <3>4. LinkInv(m)'
      BY <1>2, <1>4, <2>1, <3>1 DEF LinkInv, Right, Enumerates
    <3>5. QED
      BY <3>2, <3>3, <3>4
  <2>4. QED
    BY <2>2, <2>3 DEF AGInv
<1>7. QED
  BY <1>5, <1>6
LEMMA ReceiveBlockKeepsInv ==
    ASSUME AGInv, NEW n \in Blocks, ReceiveBlock(n)
    PROVE  AGInv'
<1> DEFINE l  == Left(n)
           h  == Head(blocks[l])
           r  == NotifyRecovery(rt[n], {h})
           bs == [blocks EXCEPT ![l] = Tail(@)]
<1>1. /\ rt[n] \in Runtime /\ NodeInv(n) /\ RequestInv(n) /\ LinkInv(n)
      /\ l \in Blocks /\ rt[l] \in Runtime /\ LinkInv(l) /\ Right(l) = n
      /\ blocks[l] \in Seq(Blocks) /\ Right(n) \in Blocks /\ Left(Right(n)) = n
  BY InvFacts, Neighbours
<1>2. /\ TryUpdateState(n, r, bs) /\ blocks[l] # << >>
      /\ m_timeout_ev' = m_timeout_ev /\ request' = request
      /\ acks' = [acks EXCEPT ![l] = @ + 1]
  BY DEF ReceiveBlock
<1>3. /\ h \in rt[l].rec_sent /\ h \in rt[n].torecover
      /\ Tail(blocks[l]) \in Seq(Blocks)
      /\ Enumerates(Tail(blocks[l]), (rt[l].rec_sent \intersect rt[n].torecover) \ {h})
  <2>1. rt[l].rec_sent \intersect rt[n].torecover \in SUBSET Blocks
    BY <1>1 DEF Runtime
  <2>2. Enumerates(blocks[l], rt[l].rec_sent \intersect rt[n].torecover)
    BY <1>1 DEF LinkInv
  <2>3. QED
    BY <1>1, <1>2, <2>1, <2>2, TailEnumerates
<1>4. /\ r \in Runtime /\ r.state = rt[n].state /\ r.rec_sent = rt[n].rec_sent
      /\ r.torecover = rt[n].torecover \ {h}
      /\ r.has_recovered_all <=> rt[n].has_recovered_all \/ r.torecover = {}
      /\ r.has_recv_recover_req = rt[n].has_recv_recover_req
      /\ r.rec_sent_all = rt[n].rec_sent_all
  BY <1>1 DEF Runtime, NotifyRecovery
<1>5. /\ bs \in [Blocks -> Seq(Blocks)] /\ bs[l] = Tail(blocks[l])
      /\ \A m \in Blocks \ {l} : bs[m] = blocks[m]
      /\ acks' \in [Blocks -> Nat]
      /\ \A m \in Blocks \ {l} : acks'[m] = acks[m]
  BY <1>1, <1>2, <1>3 DEF AGInv, RecoveryTypes
<1> HIDE DEF h, r, bs
<1>6. rt[l].has_recv_recover_req
  BY <1>1, <1>2 DEF LinkInv
<1>7. ~Pending(request[n])
  BY <1>1, <1>3, <1>6 DEF LinkInv, RequestInv, Pending
<1>8. \A m \in Blocks : ~rt[m].has_recv_recover_req => bs[m] = << >> /\ acks'[m] = 0
  <2> TAKE m \in Blocks
  <2>1. LinkInv(m)
    BY InvFacts
  <2>2. QED
    BY <1>5, <1>6, <2>1 DEF LinkInv
<1>9. \A m \in Blocks :
         Enumerates(bs[m], rt[m].rec_sent \intersect Missing(n, r, Right(m)))
  <2> TAKE m \in Blocks
  <2>1. LinkInv(m) /\ Left(Right(m)) = m
    BY InvFacts, Neighbours
  <2>2. CASE m = l
    <3>1. (rt[l].rec_sent \intersect rt[n].torecover) \ {h}
              = rt[m].rec_sent \intersect Missing(n, r, Right(m))
      BY <1>1, <1>4, <2>2 DEF Missing
    <3>2. QED
      BY <1>3, <1>5, <2>2, <3>1
  <2>3. CASE m # l
    <3>1. Missing(n, r, Right(m)) = rt[Right(m)].torecover
      BY <2>1, <2>3 DEF Missing
    <3>2. QED
      BY <1>5, <2>1, <2>3, <3>1 DEF LinkInv
  <2>4. QED
    BY <2>2, <2>3
<1>10. rt[Right(n)].torecover \ r.rec_sent \subseteq Missing(n, r, Right(n))
  <2>1. CASE Right(n) = n
    <3>1. l = n
      BY <1>1, <2>1
    <3>2. QED
      BY <1>3, <1>4, <2>1, <3>1 DEF Missing
  <2>2. CASE Right(n) # n
    BY <2>2 DEF Missing
  <2>3. QED
    BY <2>1, <2>2
<1>11. /\ request'[Right(n)].stage \in {"none", "sent"} => ~r.has_recv_recover_req
       /\ ~r.has_recv_recover_req => ~r.rec_sent_all /\ bs[n] = << >> /\ acks'[n] = 0
       /\ r.rec_sent_all => rt[Right(n)].torecover = {}
  BY <1>1, <1>2, <1>4, <1>8 DEF LinkInv
<1>12. r.has_recovered_all => r.torecover = {}
  BY <1>1, <1>4 DEF NodeInv
<1>13. request' \in [Blocks -> Request]
  BY <1>2 DEF AGInv, RecoveryTypes
<1>14. Handles(n, r, bs)
  BY <1>2, <1>4, <1>5, <1>7, <1>8, <1>9, <1>10, <1>11, <1>12, <1>13 DEF Handles
<1>15. QED
  BY <1>14, HandlerKeepsInv

LEMMA BlockSentKeepsInv ==
    ASSUME AGInv, NEW n \in Blocks, BlockSent(n)
    PROVE  AGInv'
<1> DEFINE r == [rt[n] EXCEPT !.rec_sent_all = @ \/ RecSentAll(n)]
<1>1. /\ rt[n] \in Runtime /\ NodeInv(n) /\ RequestInv(n) /\ LinkInv(n)
      /\ Right(n) \in Blocks /\ acks[n] \in Nat
  BY InvFacts, Neighbours
<1>2. /\ TryUpdateState(n, r, blocks) /\ acks[n] > 0
      /\ m_timeout_ev' = m_timeout_ev /\ request' = request
      /\ acks' = [acks EXCEPT ![n] = @ - 1]
  BY DEF BlockSent
<1>3. /\ r \in Runtime /\ r.state = rt[n].state /\ r.rec_sent = rt[n].rec_sent
      /\ r.torecover = rt[n].torecover
      /\ r.has_recovered_all = rt[n].has_recovered_all
      /\ r.has_recv_recover_req = rt[n].has_recv_recover_req
      /\ r.rec_sent_all <=> rt[n].rec_sent_all \/ rt[Right(n)].torecover = {}
  BY <1>1 DEF Runtime, RecSentAll
<1> HIDE DEF r
<1>4. /\ acks' \in [Blocks -> Nat]
      /\ \A m \in Blocks \ {n} : acks'[m] = acks[m]
  BY <1>1, <1>2 DEF AGInv, RecoveryTypes
<1>5. rt[n].has_recv_recover_req
  BY <1>1, <1>2 DEF LinkInv
<1>6. \A m \in Blocks : Missing(n, r, m) = rt[m].torecover
  BY <1>3 DEF Missing
<1>7. \A m \in Blocks :
         /\ Enumerates(blocks[m], rt[m].rec_sent \intersect Missing(n, r, Right(m)))
         /\ ~rt[m].has_recv_recover_req => blocks[m] = << >> /\ acks'[m] = 0
  <2> TAKE m \in Blocks
  <2>1. LinkInv(m) /\ Right(m) \in Blocks
    BY InvFacts, Neighbours
  <2>2. QED
    BY <1>4, <1>5, <1>6, <2>1 DEF LinkInv
<1>8. /\ request'[Right(n)].stage \in {"none", "sent"} => ~r.has_recv_recover_req
      /\ r.rec_sent_all => rt[Right(n)].torecover = {}
  BY <1>1, <1>2, <1>3 DEF LinkInv
<1>9. /\ r.has_recovered_all => r.torecover = {}
      /\ Pending(request'[n]) => ~r.has_recovered_all
  BY <1>1, <1>2, <1>3 DEF NodeInv, RequestInv
<1>10. request' \in [Blocks -> Request] /\ blocks \in [Blocks -> Seq(Blocks)]
  BY <1>2 DEF AGInv, RecoveryTypes
<1>11. rt[Right(n)].torecover \ r.rec_sent \subseteq Missing(n, r, Right(n))
  BY <1>1, <1>6
<1>12. Handles(n, r, blocks)
  BY <1>2, <1>3, <1>4, <1>5, <1>7, <1>8, <1>9, <1>10, <1>11 DEF Handles
<1>13. QED
  BY <1>12, HandlerKeepsInv

\* Nodes that leave the multicast phase, with whatever they have received.
LEMMA LeavingKeepsInv ==
    ASSUME AGInv, NEW leaving \in SUBSET Blocks, NEW now \in [Blocks -> Runtime],
           StartRecoveryPhase(leaving, now),
           \A m \in Blocks :
               /\ now[m].rec_sent = rt[m].rec_sent
               /\ now[m].has_recovered_all = rt[m].has_recovered_all
               /\ now[m].has_recv_recover_req = rt[m].has_recv_recover_req
               /\ now[m].rec_sent_all = rt[m].rec_sent_all
               /\ IF m \in leaving
                  THEN rt[m].state = "Multicast" /\ now[m].state = "Recovery"
                  ELSE now[m].state = rt[m].state /\ now[m].torecover = rt[m].torecover
    PROVE  AGInv'
<1>1. /\ rt' = now /\ m_timeout_ev' = m_timeout_ev \ leaving
      /\ request' = [n \in Blocks |->
            IF n \in leaving THEN [stage |-> "sent", empty |-> now[n].torecover = {}]
                            ELSE request[n]]
      /\ blocks' = blocks /\ acks' = acks
  BY DEF StartRecoveryPhase
<1>2. RecoveryTypes'
  BY <1>1 DEF AGInv, RecoveryTypes, Request
<1>3. ASSUME NEW m \in Blocks
      PROVE  /\ m \in leaving => /\ request'[m].stage = "sent"
                                 /\ request'[m].empty <=> now[m].torecover = {}
                                 /\ request[m].stage = "none"
             /\ m \notin leaving => request'[m] = request[m]
  <2>1. NodeInv(m)
    BY InvFacts
  <2>2. QED
    BY <1>1, <2>1 DEF NodeInv
<1>4. ASSUME NEW m \in Blocks PROVE NodeInv(m)' /\ RequestInv(m)' /\ LinkInv(m)'
  <2>1. NodeInv(m) /\ RequestInv(m) /\ LinkInv(m) /\ Right(m) \in Blocks /\ rt[m] \in Runtime
    BY InvFacts, Neighbours
  <2>2. ASSUME m \in leaving PROVE NodeInv(m)' /\ RequestInv(m)'
    <3>1. ~rt[m].has_recovered_all
      BY <1>3, <2>1, <2>2 DEF RequestInv, Pending
    <3>2. NodeInv(m)'
      BY <1>1, <1>3, <2>2, <3>1 DEF NodeInv
    <3>3. RequestInv(m)'
      BY <1>1, <1>3, <2>2, <3>1 DEF RequestInv
    <3>4. QED
      BY <3>2, <3>3
  <2>3. ASSUME m \notin leaving PROVE NodeInv(m)' /\ RequestInv(m)'
    <3>1. NodeInv(m)'
      BY <1>1, <1>3, <2>1, <2>3 DEF NodeInv
    <3>2. RequestInv(m)'
      BY <1>1, <1>3, <2>1, <2>3 DEF RequestInv
    <3>3. QED
      BY <3>1, <3>2
  <2>4. LinkInv(m)'
    <3>1. CASE Right(m) \in leaving
      <4>1. /\ ~rt[m].has_recv_recover_req /\ ~rt[m].rec_sent_all
            /\ blocks[m] = << >> /\ acks[m] = 0
        BY <1>3, <2>1, <3>1 DEF LinkInv
      <4>2. Enumerates(<< >>, rt'[m].rec_sent \intersect rt'[Right(m)].torecover)
        BY DEF Enumerates
      <4>3. QED
        BY <1>1, <4>1, <4>2 DEF LinkInv, Right, Enumerates
    <3>2. CASE Right(m) \notin leaving
      BY <1>1, <1>3, <2>1, <3>2 DEF LinkInv, Right, Enumerates
    <3>3. QED
      BY <3>1, <3>2
  <2>5. QED
    BY <2>2, <2>3, <2>4
<1>5. QED
  BY <1>2, <1>4 DEF AGInv
-----------------------------------------------------------------------------
(* The multicast phase.                                                    *)

LEMMA MinOfTwo == ASSUME NEW a \in Nat, NEW b \in Nat
                  PROVE  Min({a, b}) \in {a, b}
<1>1. \E x \in {a, b} : \A y \in {a, b} : x <= y
  <2>1. CASE a <= b
    BY <2>1
  <2>2. CASE ~(a <= b)
    BY <2>2
  <2>3. QED
    BY <2>1, <2>2
<1>2. QED
  BY <1>1 DEF Min

LEMMA ZeroDiv == ASSUME NEW k \in Nat \ {0} PROVE 0 \div k = 0
OBVIOUS

LEMMA PositiveProduct == ASSUME NEW a \in Nat \ {0}, NEW b \in Nat \ {0}
                         PROVE  a * b \in Nat \ {0}
OBVIOUS

LEMMA ChunkCounts == /\ PerBlockChunkCount \in Nat \ {0}
                     /\ 0 \in Chunks /\ 0 \in Blocks
                     /\ GetOriginalSender(0) = 0
                     /\ ChunkOfImm(ReceivedImm) = 0
<1>1. m_sdata + m_sparity \in Nat \ {0} /\ PerNodeSegmentCount \in Nat \ {0}
  BY AgConfigAssumption
<1>2. PerBlockChunkCount \in Nat \ {0}
  BY <1>1, PositiveProduct DEF PerBlockChunkCount
<1>3. PerBlockChunkCount * m_nodes \in Nat \ {0}
  BY <1>2, NodesArePositive, PositiveProduct
<1>4. 0 \in Chunks /\ 0 \in Blocks
  BY <1>3, NodesArePositive DEF Chunks, Blocks
<1>5. GetOriginalSender(0) = 0
  BY <1>2, ZeroDiv DEF GetOriginalSender
<1>6. ChunkOfImm(ReceivedImm) = 0
  BY ZeroDiv, AgConfigAssumption DEF ChunkOfImm, ReceivedImm
<1>7. QED
  BY <1>2, <1>4, <1>5, <1>6

LEMMA ProgressType ==
    ASSUME NEW p \in [chunk: Nat, pkts: Nat], NEW chunk \in Nat
    PROVE  Progress(p, chunk) \in [chunk: Nat, pkts: Nat]
<1>1. p.pkts + 1 \in Nat /\ PerChunkPacketCount + 1 \in Nat
  BY AgConfigAssumption
<1>2. Min({p.pkts + 1, PerChunkPacketCount + 1}) \in Nat
  BY <1>1, MinOfTwo
<1>3. QED
  BY <1>2 DEF Progress

\* The fields of a runtime that the multicast phase leaves alone.
SameRecovery(r, s) ==
    /\ s.rec_sent = r.rec_sent
    /\ s.has_recovered_all = r.has_recovered_all
    /\ s.has_recv_recover_req = r.has_recv_recover_req
    /\ s.rec_sent_all = r.rec_sent_all

LEMMA TransitionFacts ==
    ASSUME NEW n \in Blocks, NEW r \in Runtime
    PROVE  /\ TransitionToRecovery(n, r) \in Runtime
           /\ TransitionToRecovery(n, r).state = "Recovery"
           /\ SameRecovery(r, TransitionToRecovery(n, r))
<1> DEFINE missed == BuildToRecover(r.recv \union ChunksOf(n))
<1>1. missed \in SUBSET Blocks
  BY DEF BuildToRecover
<1>2. NoProgress \in [Blocks -> [chunk: Nat, pkts: Nat]]
  BY DEF NoProgress
<1>3. TransitionToRecovery(n, r) =
          [r EXCEPT !.state = "Recovery", !.recv = {}, !.progress = NoProgress,
                    !.torecover = missed]
  BY DEF TransitionToRecovery
<1> HIDE DEF missed
<1>4. QED
  BY <1>1, <1>2, <1>3 DEF Runtime, SameRecovery

LEMMA NotifyReceivePacketFacts ==
    ASSUME NEW n \in Blocks, NEW r \in Runtime
    PROVE  LET s == NotifyReceivePacket(n, r, ReceivedImm)
           IN  /\ s \in Runtime /\ SameRecovery(r, s)
               /\ \/ s.state = "Recovery"
                  \/ s.state = r.state /\ s.torecover = r.torecover
<1> DEFINE chunk  == ChunkOfImm(ReceivedImm)
           sender == GetOriginalSender(chunk)
           p      == Progress(r.progress[sender], chunk)
           is_new == p.pkts = PerChunkPacketCount /\ chunk \notin r.recv
           recv   == IF is_new THEN r.recv \union {chunk} ELSE r.recv
           chains == IF is_new /\ IsLastChunkOfChain(chunk)
                     THEN r.completed_chains + 1 ELSE r.completed_chains
           r1     == [r EXCEPT !.progress[sender] = p, !.recv = recv,
                               !.completed_chains = chains]
<1>1. chunk \in Chunks /\ chunk \in Nat /\ sender \in Blocks
  BY ChunkCounts
<1>2. p \in [chunk: Nat, pkts: Nat]
  BY <1>1, ProgressType DEF Runtime
<1>3. recv \in SUBSET Chunks /\ chains \in Nat
  BY <1>1 DEF Runtime
<1>4. NotifyReceivePacket(n, r, ReceivedImm) =
          IF r1.completed_chains = m_roots THEN TransitionToRecovery(n, r1) ELSE r1
  BY DEF NotifyReceivePacket
<1> HIDE DEF p, recv, chains, sender, chunk
<1>5. r1 \in Runtime /\ SameRecovery(r, r1) /\ r1.state = r.state /\ r1.torecover = r.torecover
  BY <1>1, <1>2, <1>3 DEF Runtime, SameRecovery
<1> HIDE DEF r1
<1>6. /\ TransitionToRecovery(n, r1) \in Runtime
      /\ TransitionToRecovery(n, r1).state = "Recovery"
      /\ SameRecovery(r1, TransitionToRecovery(n, r1))
  BY <1>5, TransitionFacts
<1>7. SameRecovery(r, TransitionToRecovery(n, r1))
  BY <1>5, <1>6 DEF SameRecovery
<1>8. QED
  BY <1>4, <1>5, <1>6, <1>7

LEMMA TransmitKeepsInv == ASSUME AGInv, NEW n \in Blocks, Transmit(n) PROVE AGInv'
<1> DEFINE now(receivers) == [m \in Blocks |->
               IF m \in receivers THEN NotifyReceivePacket(m, rt[m], ReceivedImm) ELSE rt[m]]
<1>1. PICK receivers \in SUBSET {m \in Blocks \ {n} : rt[m].state = "Multicast"} :
          StartRecoveryPhase({m \in receivers : now(receivers)[m].state = "Recovery"},
                             now(receivers))
  BY DEF Transmit
<1> DEFINE leaving == {m \in receivers : now(receivers)[m].state = "Recovery"}
           then    == now(receivers)
<1>2. \A m \in Blocks : rt[m] \in Runtime
  BY InvFacts
<1>3. ASSUME NEW m \in Blocks
      PROVE  /\ then[m] \in Runtime /\ SameRecovery(rt[m], then[m])
             /\ IF m \in leaving
                THEN rt[m].state = "Multicast" /\ then[m].state = "Recovery"
                ELSE then[m].state = rt[m].state /\ then[m].torecover = rt[m].torecover
  <2>1. CASE m \in receivers
    <3>1. /\ then[m] = NotifyReceivePacket(m, rt[m], ReceivedImm)
          /\ rt[m].state = "Multicast"
      BY <2>1
    <3>2. QED
      BY <1>2, <2>1, <3>1, NotifyReceivePacketFacts
  <2>2. CASE m \notin receivers
    BY <1>2, <2>2 DEF SameRecovery
  <2>3. QED
    BY <2>1, <2>2
<1>4. then \in [Blocks -> Runtime] /\ leaving \in SUBSET Blocks
  BY <1>3
<1>5. StartRecoveryPhase(leaving, then)
  BY <1>1
<1> HIDE DEF leaving, then, now
<1>6. QED
  BY <1>3, <1>4, <1>5, LeavingKeepsInv DEF SameRecovery

\* A node that leaves the phase with the chunks `recv`.
LEMMA NodeLeavesKeepsInv ==
    ASSUME AGInv, NEW n \in Blocks, rt[n].state = "Multicast",
           NEW r \in Runtime, SameRecovery(rt[n], r),
           StartRecoveryPhase({n}, [rt EXCEPT ![n] = TransitionToRecovery(n, r)])
    PROVE  AGInv'
<1> DEFINE now == [rt EXCEPT ![n] = TransitionToRecovery(n, r)]
<1>1. rt \in [Blocks -> Runtime]
  BY DEF AGInv, RecoveryTypes
<1>2. /\ TransitionToRecovery(n, r) \in Runtime
      /\ TransitionToRecovery(n, r).state = "Recovery"
      /\ SameRecovery(rt[n], TransitionToRecovery(n, r))
  BY TransitionFacts DEF SameRecovery
<1>3. now \in [Blocks -> Runtime]
  BY <1>1, <1>2
<1>4. \A m \in Blocks :
         /\ SameRecovery(rt[m], now[m])
         /\ IF m \in {n}
            THEN rt[m].state = "Multicast" /\ now[m].state = "Recovery"
            ELSE now[m].state = rt[m].state /\ now[m].torecover = rt[m].torecover
  BY <1>1, <1>2 DEF SameRecovery
<1>5. StartRecoveryPhase({n}, now)
  OBVIOUS
<1> HIDE DEF now
<1>6. QED
  BY <1>3, <1>4, <1>5, LeavingKeepsInv DEF SameRecovery

LEMMA AGInvInit == Init => AGInv
<1> SUFFICES ASSUME Init PROVE AGInv
  OBVIOUS
<1>1. RecoveryTypes
  <2>1. NoProgress \in [Blocks -> [chunk: Nat, pkts: Nat]]
    BY DEF NoProgress
  <2>2. rt \in [Blocks -> Runtime]
    BY <2>1 DEF Init, Runtime
  <2>3. request \in [Blocks -> Request]
    BY DEF Init, NoRequest, Request
  <2>4. blocks \in [Blocks -> Seq(Blocks)]
    <3>1. << >> \in Seq(Blocks)
      OBVIOUS
    <3>2. QED
      BY <3>1 DEF Init
  <2>5. acks \in [Blocks -> Nat]
    BY DEF Init
  <2>6. QED
    BY <2>2, <2>3, <2>4, <2>5 DEF RecoveryTypes
<1>2. ASSUME NEW n \in Blocks PROVE NodeInv(n) /\ RequestInv(n) /\ LinkInv(n)
  <2>1. Right(n) \in Blocks
    BY Neighbours
  <2>2. NodeInv(n)
    BY DEF Init, NodeInv, NoRequest
  <2>3. RequestInv(n)
    BY DEF Init, RequestInv, NoRequest
  <2>4. LinkInv(n)
    BY <2>1 DEF Init, LinkInv, Enumerates
  <2>5. QED
    BY <2>2, <2>3, <2>4
<1>3. QED
  BY <1>1, <1>2 DEF AGInv

LEMMA AGInvNext == AGInv /\ [Next]_vars => AGInv'
<1> SUFFICES ASSUME AGInv, [Next]_vars PROVE AGInv'
  OBVIOUS
<1>1. ASSUME UNCHANGED <<rt, m_timeout_ev, recovery_vars>> PROVE AGInv'
  BY <1>1 DEF recovery_vars, AGInv, RecoveryTypes, NodeInv, RequestInv, LinkInv,
              Enumerates, Right
<1>2. ASSUME NEW n \in Blocks, MulticastStep(n) PROVE AGInv'
  <2>1. CASE Transmit(n)
    BY <2>1, TransmitKeepsInv
  <2>2. CASE ReceiveHandOver(n)
    BY <1>1, <2>2 DEF ReceiveHandOver
  <2>3. QED
    BY <1>2, <2>1, <2>2 DEF MulticastStep
<1>3. ASSUME NEW n \in Blocks, OnCutoffTimer(n) PROVE AGInv'
  <2>1. rt[n] \in Runtime /\ NodeInv(n) /\ SameRecovery(rt[n], rt[n])
    BY InvFacts DEF SameRecovery
  <2>2. rt[n].state = "Multicast"
    BY <1>3, <2>1 DEF OnCutoffTimer, NodeInv
  <2>3. StartRecoveryPhase({n}, [rt EXCEPT ![n] = TransitionToRecovery(n, rt[n])])
    BY <1>3 DEF OnCutoffTimer
  <2>4. QED
    BY <2>1, <2>2, <2>3, NodeLeavesKeepsInv
<1>4. ASSUME NEW n \in Blocks, RunMarkovMcast(n) PROVE AGInv'
  <2>1. PICK recv \in SUBSET (Chunks \ ChunksOf(n)) :
            StartRecoveryPhase({n}, [rt EXCEPT ![n] =
                TransitionToRecovery(n, [rt[n] EXCEPT !.recv = recv])])
    BY <1>4 DEF RunMarkovMcast
  <2> DEFINE r == [rt[n] EXCEPT !.recv = recv]
  <2>2. rt[n] \in Runtime /\ rt[n].state = "Multicast"
    BY <1>4, InvFacts DEF RunMarkovMcast
  <2>3. r \in Runtime /\ SameRecovery(rt[n], r)
    BY <2>2 DEF Runtime, SameRecovery
  <2>4. QED
    BY <2>1, <2>2, <2>3, NodeLeavesKeepsInv
<1>5. ASSUME NEW n \in Blocks, RecoveryStep(n) PROVE AGInv'
  BY <1>5, RequestKeepsInv, RequestSentKeepsInv, ReceiveBlockKeepsInv, BlockSentKeepsInv
     DEF RecoveryStep
<1>6. CASE UNCHANGED vars
  BY <1>1, <1>6 DEF vars
<1>7. QED
  BY <1>2, <1>3, <1>4, <1>5, <1>6 DEF Next

\* No assertion of AgApp and AgRuntime fails: requests, their acknowledgements
\* and blocks find their node in the recovery phase, each block is one that it
\* still misses and comes once, and no cutoff timer outlives the multicast phase.
THEOREM NoAssertionFails == Spec => []NoAssertFails
<1>1. AGInv => NoAssertFails
  <2> SUFFICES ASSUME AGInv, NEW n \in Blocks
               PROVE  /\ request[n].stage = "sent" => IsInRecovery(n)
                      /\ request[n].stage = "delivered" /\ request[n].empty => IsInRecovery(n)
                      /\ \A i \in DOMAIN blocks[Left(n)] :
                            /\ IsInRecovery(n)
                            /\ blocks[Left(n)][i] \in rt[n].torecover
                            /\ \A j \in DOMAIN blocks[Left(n)] :
                                  blocks[Left(n)][i] = blocks[Left(n)][j] => i = j
                      /\ n \in m_timeout_ev => rt[n].state = "Multicast"
    BY DEF NoAssertFails
  <2>1. /\ rt[n] \in Runtime /\ NodeInv(n) /\ RequestInv(n)
        /\ Left(n) \in Blocks /\ Right(Left(n)) = n /\ LinkInv(Left(n))
    BY InvFacts, Neighbours
  <2>2. rt[n].state # "Multicast" /\ ~rt[n].has_recovered_all => IsInRecovery(n)
    BY <2>1 DEF NodeInv, Runtime, IsInRecovery
  <2>3. ASSUME NEW i \in DOMAIN blocks[Left(n)]
        PROVE  blocks[Left(n)][i] \in rt[n].torecover /\ IsInRecovery(n)
    <3>1. blocks[Left(n)][i] \in rt[n].torecover
      BY <2>1 DEF LinkInv, Enumerates
    <3>2. QED
      BY <2>1, <2>2, <3>1 DEF NodeInv
  <2>4. \A i, j \in DOMAIN blocks[Left(n)] : blocks[Left(n)][i] = blocks[Left(n)][j] => i = j
    BY <2>1 DEF LinkInv, Enumerates
  <2>5. /\ request[n].stage = "sent" => IsInRecovery(n)
        /\ request[n].stage = "delivered" /\ request[n].empty => IsInRecovery(n)
    BY <2>1, <2>2 DEF NodeInv, RequestInv, Pending
  <2>6. QED
    BY <2>1, <2>3, <2>4, <2>5 DEF NodeInv
<1>2. QED
  BY <1>1, AGInvInit, AGInvNext, PTL DEF Spec

\* A node finishes only when it has every block, and so has the neighbour that
\* it sends to, which has left the multicast phase.
THEOREM NoNodeFinishesAhead == Spec => []FinishesWithNeighbour
<1>1. AGInv => FinishesWithNeighbour
  <2> SUFFICES ASSUME AGInv, NEW n \in Blocks, rt[n].state = "Finished"
               PROVE  /\ rt[n].torecover = {}
                      /\ rt[Right(n)].state # "Multicast"
                      /\ rt[Right(n)].torecover = {}
    BY DEF FinishesWithNeighbour
  <2>1. NodeInv(n) /\ LinkInv(n) /\ Right(n) \in Blocks /\ NodeInv(Right(n))
    BY InvFacts, Neighbours
  <2>2. QED
    BY <2>1 DEF NodeInv, LinkInv
<1>2. QED
  BY <1>1, AGInvInit, AGInvNext, PTL DEF Spec
-----------------------------------------------------------------------------
(* Bounds on what is multicast and on what is acknowledged.                *)

\* The chains that are at a node: those of which it has packets to multicast,
\* and those that it has handed over.
ChainsAt(packets, handed) ==
    [n \in Blocks |-> CeilDiv(packets[n], PerBlockPacketCount) + handed[n]]

\* No more chains go round than there are.
McastInv ==
    /\ mcast_sq \in [Blocks -> Nat] /\ chain \in [Blocks -> Nat]
    /\ SumFunctionOnSet(ChainsAt(mcast_sq, chain), Blocks) <= m_roots

\* A block is sent at most once to a neighbour, and never the neighbour's own.
BoundsAt(n) ==
    /\ rt[n].completed_chains <= m_roots
    /\ rt[n].state = "Multicast" => rt[n].completed_chains < m_roots
    /\ n \notin rt[n].torecover
    /\ Right(n) \notin rt[n].rec_sent
    /\ Len(blocks[n]) + acks[n] <= Cardinality(rt[n].rec_sent)

BoundsInv ==
    /\ AGInv /\ McastInv
    /\ strategy \in Strategies
    /\ \A n \in Blocks : BoundsAt(n)

\* The division that rounds down, by what it leaves.
LEMMA QuotientIs ==
    ASSUME NEW p \in Nat \ {0}, NEW q \in Int, NEW r \in 0 .. p - 1
    PROVE  (q * p + r) \div p = q /\ (q * p + r) % p = r
<1> DEFINE a == q * p + r
           k == a \div p
           s == a % p
<1>1. a \in Int /\ q * p \in Int
  OBVIOUS
<1>2. k \in Int /\ s \in 0 .. p - 1 /\ a = k * p + s
  BY <1>1
<1> HIDE DEF k, s
<1>3. ASSUME k >= q + 1 PROVE FALSE
  <2>1. k * p >= (q + 1) * p
    BY <1>2, <1>3
  <2>2. (q + 1) * p = q * p + p
    OBVIOUS
  <2>3. QED
    BY <1>1, <1>2, <2>1, <2>2
<1>4. ASSUME q >= k + 1 PROVE FALSE
  <2>1. q * p >= (k + 1) * p
    BY <1>2, <1>4
  <2>2. (k + 1) * p = k * p + p
    BY <1>2
  <2>3. QED
    BY <1>1, <1>2, <2>1, <2>2
<1>5. k = q
  BY <1>2, <1>3, <1>4
<1>6. s = r
  BY <1>1, <1>2, <1>5
<1>7. QED
  BY <1>5, <1>6 DEF k, s

LEMMA QuotientOf ==
    ASSUME NEW a \in Nat, NEW p \in Nat \ {0}
    PROVE  /\ a \div p \in Nat /\ a % p \in 0 .. p - 1
           /\ a = (a \div p) * p + (a % p)
<1> DEFINE k == a \div p
           s == a % p
<1>1. k \in Int /\ s \in 0 .. p - 1 /\ a = k * p + s
  OBVIOUS
<1> HIDE DEF k, s
<1>2. ASSUME k <= -1 PROVE FALSE
  <2>1. k * p <= (-1) * p
    BY <1>1, <1>2
  <2>2. QED
    BY <1>1, <2>1
<1>3. QED
  BY <1>1, <1>2 DEF k, s

\* The division that rounds up counts the last, partial, block; a block that is
\* sent but for its first packet is as many blocks as before.
LEMMA CeilDivFacts ==
    ASSUME NEW a \in Nat, NEW p \in Nat \ {0}
    PROVE  /\ CeilDiv(a, p) \in Nat
           /\ a <= CeilDiv(a, p) * p
           /\ CeilDiv(a + p, p) = CeilDiv(a, p) + 1
           /\ CeilDiv(0, p) = 0
           /\ a > 0 => CeilDiv(a - 1, p) = IF (a - 1) % p = 0 THEN CeilDiv(a, p) - 1
                                           ELSE CeilDiv(a, p)
<1> DEFINE b == a + p - 1
           k == b \div p
           s == b % p
<1>1. b \in Nat /\ k \in Nat /\ s \in 0 .. p - 1 /\ b = k * p + s
  BY QuotientOf
<1>2. CeilDiv(a, p) = k
  BY DEF CeilDiv
<1> HIDE DEF k, s
<1>3. a <= k * p
  <2>1. k * p \in Int
    BY <1>1
  <2>2. QED
    BY <1>1, <2>1
<1>4. CeilDiv(a + p, p) = k + 1
  <2>1. (k + 1) * p = k * p + p /\ k * p \in Int
    BY <1>1
  <2>2. a + p + p - 1 = (k + 1) * p + s
    BY <1>1, <2>1
  <2>3. ((k + 1) * p + s) \div p = k + 1
    BY <1>1, QuotientIs
  <2>4. QED
    BY <2>2, <2>3 DEF CeilDiv
<1>5. CeilDiv(0, p) = 0
  <2>1. 0 * p + (p - 1) = p - 1 /\ p - 1 \in 0 .. p - 1 /\ 0 \in Int
    OBVIOUS
  <2>2. (0 * p + (p - 1)) \div p = 0
    BY <2>1, QuotientIs
  <2>3. 0 + p - 1 = p - 1
    OBVIOUS
  <2>4. QED
    BY <2>1, <2>2, <2>3 DEF CeilDiv
<1>6. ASSUME a > 0
      PROVE  CeilDiv(a - 1, p) = IF (a - 1) % p = 0 THEN k - 1 ELSE k
  <2> DEFINE c == (a - 1) \div p
             t == (a - 1) % p
  <2>1. a - 1 \in Nat
    BY <1>6
  <2>2. c \in Nat /\ t \in 0 .. p - 1 /\ a - 1 = c * p + t
    BY <2>1, QuotientOf
  <2> HIDE DEF c, t
  <2>3. (c + 1) * p = c * p + p /\ c * p \in Int
    BY <2>2
  <2>4. k = c + 1
    <3>1. a + p - 1 = (c + 1) * p + t
      BY <2>2, <2>3
    <3>2. ((c + 1) * p + t) \div p = c + 1
      BY <2>2, QuotientIs
    <3>3. QED
      BY <3>1, <3>2 DEF k
  <2>5. CASE t = 0
    <3>1. a - 1 + p - 1 = c * p + (p - 1)
      BY <2>2, <2>3, <2>5
    <3>2. p - 1 \in 0 .. p - 1
      OBVIOUS
    <3>3. (c * p + (p - 1)) \div p = c
      BY <2>2, <3>2, QuotientIs
    <3>4. CeilDiv(a - 1, p) = c
      BY <3>1, <3>3 DEF CeilDiv
    <3>5. QED
      BY <2>2, <2>4, <2>5, <3>4 DEF t
  <2>6. CASE t # 0
    <3>1. a - 1 + p - 1 = (c + 1) * p + (t - 1)
      BY <2>2, <2>3
    <3>2. t - 1 \in 0 .. p - 1
      BY <2>2, <2>6
    <3>3. ((c + 1) * p + (t - 1)) \div p = c + 1
      BY <2>2, <3>2, QuotientIs
    <3>4. CeilDiv(a - 1, p) = c + 1
      BY <3>1, <3>3 DEF CeilDiv
    <3>5. QED
      BY <2>2, <2>4, <2>6, <3>4 DEF t
  <2>7. QED
    BY <2>5, <2>6
<1>7. QED
  BY <1>1, <1>2, <1>3, <1>4, <1>5, <1>6

Packets == PerBlockPacketCount

LEMMA PacketsArePositive == Packets \in Nat \ {0} /\ m_roots \in Nat \ {0} /\ IsFiniteSet(Blocks)
<1>1. PerChunkPacketCount \in Nat \ {0} /\ m_roots \in Nat \ {0}
  BY AgConfigAssumption
<1>2. IsFiniteSet(Blocks)
  BY NodesArePositive, FS_Interval DEF Blocks
<1>3. QED
  BY <1>1, <1>2, ChunkCounts, PositiveProduct DEF Packets, PerBlockPacketCount

\* There are at most as many first nodes as chains: one for each k < m_roots.
LEMMA FirstsAreFew ==
    LET Firsts == {b \in Blocks : IsFirstInChain(b)}
    IN  IsFiniteSet(Firsts) /\ Cardinality(Firsts) <= m_roots
<1> DEFINE Firsts == {b \in Blocks : IsFirstInChain(b)}
           first  == [k \in 0 .. m_roots - 1 |-> (k * m_nodes) \div m_roots]
           Image  == {first[k] : k \in 0 .. m_roots - 1}
<1>1. m_roots \in Nat \ {0} /\ m_nodes \in Nat \ {0}
  BY NodesArePositive, PacketsArePositive
<1>2. IsFiniteSet(0 .. m_roots - 1) /\ Cardinality(0 .. m_roots - 1) = m_roots
  <2>1. 0 \in Int /\ m_roots - 1 \in Int /\ ~(0 > m_roots - 1) /\ m_roots - 1 - 0 + 1 = m_roots
    BY <1>1
  <2>2. QED
    BY <2>1, FS_Interval
<1>3. IsFiniteSet(Image) /\ Cardinality(Image) <= m_roots
  <2>1. first \in Surjection(0 .. m_roots - 1, Image)
    BY Fun_IsSurj
  <2>2. QED
    BY <1>2, <2>1, FS_Surjection
<1>4. ASSUME NEW b \in Firsts PROVE b \in Image
  <2> DEFINE k == CeilDiv(b * m_roots, m_nodes)
  <2>1. b \in Nat /\ b <= m_nodes - 1 /\ b * m_roots \in Nat
    BY <1>1 DEF Blocks
  <2>2. k \in Nat /\ b = (k * m_nodes) \div m_roots
    BY <1>1, <2>1, CeilDivFacts DEF IsFirstInChain, GetNearestFirstBlockHigherOrEqu
  <2> HIDE DEF k
  <2>3. ASSUME k >= m_roots PROVE FALSE
    <3>1. k * m_nodes \in Nat /\ k * m_nodes >= m_roots * m_nodes
      BY <1>1, <2>2, <2>3
    <3>2. /\ (k * m_nodes) % m_roots \in 0 .. m_roots - 1
          /\ k * m_nodes = b * m_roots + ((k * m_nodes) % m_roots)
      BY <1>1, <2>2, <3>1, QuotientOf
    <3>3. b * m_roots <= (m_nodes - 1) * m_roots
      BY <1>1, <2>1
    <3>4. (m_nodes - 1) * m_roots = m_nodes * m_roots - m_roots /\ m_nodes * m_roots = m_roots * m_nodes
      BY <1>1
    <3>5. m_nodes * m_roots \in Nat
      BY <1>1
    <3>6. QED
      BY <1>1, <2>1, <3>1, <3>2, <3>3, <3>4, <3>5
  <2>4. k \in 0 .. m_roots - 1
    BY <1>1, <2>2, <2>3
  <2>5. QED
    BY <2>2, <2>4
<1> HIDE DEF first
<1>5. Firsts \in SUBSET Image
  BY <1>4
<1> HIDE DEF Firsts, Image
<1>6. IsFiniteSet(Firsts) /\ Cardinality(Firsts) <= Cardinality(Image)
  BY <1>3, <1>5, FS_Subset
<1>7. Cardinality(Firsts) \in Nat /\ Cardinality(Image) \in Nat
  BY <1>3, <1>6, FS_CardinalityType
<1>8. QED
  BY <1>1, <1>3, <1>6, <1>7 DEF Firsts

\* Every chain is at its first node.
LEMMA McastInvInit == Init => McastInv
<1> SUFFICES ASSUME Init PROVE McastInv
  OBVIOUS
<1> DEFINE Firsts == {b \in Blocks : IsFirstInChain(b)}
           none   == [n \in Blocks |-> 0]
           at     == ChainsAt(mcast_sq, chain)
           Posted == IF strategy = "simulate" THEN Firsts ELSE {}
<1>1. Packets \in Nat \ {0} /\ m_roots \in Nat \ {0} /\ IsFiniteSet(Blocks)
  BY PacketsArePositive
<1>2. /\ mcast_sq = [n \in Blocks |-> IF n \in Posted THEN Packets ELSE 0]
      /\ chain = [n \in Blocks |-> 0]
  BY DEF Init, Packets
<1>3. mcast_sq \in [Blocks -> Nat] /\ chain \in [Blocks -> Nat]
  BY <1>1, <1>2
<1>4. CeilDiv(0, Packets) = 0 /\ CeilDiv(Packets, Packets) = 1
  <2>1. 0 \in Nat /\ 0 + Packets = Packets /\ 0 + 1 = 1
    BY <1>1
  <2>2. CeilDiv(0, Packets) = 0 /\ CeilDiv(0 + Packets, Packets) = CeilDiv(0, Packets) + 1
    BY <1>1, <2>1, CeilDivFacts
  <2>3. QED
    BY <2>1, <2>2
<1>5. \A n \in Blocks : none[n] \in Int /\ at[n] = none[n] + (IF n \in Posted THEN 1 ELSE 0)
  BY <1>2, <1>4 DEF ChainsAt, Packets
<1>6. \A n \in Blocks : none[n] = 0
  OBVIOUS
<1>7. Posted \in SUBSET Blocks /\ IsFiniteSet(Posted) /\ Cardinality(Posted) <= m_roots
  <2>1. IsFiniteSet(Firsts) /\ Cardinality(Firsts) <= m_roots
    BY FirstsAreFew
  <2>2. IsFiniteSet({}) /\ Cardinality({}) = 0
    BY FS_EmptySet
  <2>3. QED
    BY <1>1, <2>1, <2>2
<1> HIDE DEF none, at, Posted
<1>8. SumFunctionOnSet(at, Blocks) = SumFunctionOnSet(none, Blocks) + 1 * Cardinality(Posted)
  BY <1>1, <1>5, <1>7, SumRaise
<1>9. SumFunctionOnSet(none, Blocks) = 0
  BY <1>1, <1>6, SumZero
<1>10. Cardinality(Posted) \in Nat
  BY <1>7, FS_CardinalityType
<1>11. SumFunctionOnSet(at, Blocks) <= m_roots
  BY <1>1, <1>7, <1>8, <1>9, <1>10
<1>12. QED
  BY <1>3, <1>11 DEF McastInv, at

LEMMA ChainsAtType ==
    ASSUME NEW packets \in [Blocks -> Nat], NEW handed \in [Blocks -> Nat]
    PROVE  \A n \in Blocks :
              /\ CeilDiv(packets[n], Packets) \in Nat
              /\ ChainsAt(packets, handed)[n] = CeilDiv(packets[n], Packets) + handed[n]
              /\ ChainsAt(packets, handed)[n] \in Nat
<1>1. ASSUME NEW n \in Blocks PROVE CeilDiv(packets[n], Packets) \in Nat
  BY PacketsArePositive, CeilDivFacts
<1>2. QED
  BY <1>1 DEF ChainsAt, Packets

\* The last packet of a block is not lost with the chain: it is handed over.
LEMMA TransmitKeepsChains == ASSUME McastInv, NEW n \in Blocks, Transmit(n) PROVE McastInv'
<1> DEFINE m == mcast_sq[n]
           at  == ChainsAt(mcast_sq, chain)
           at2 == ChainsAt(mcast_sq', chain')
<1>1. /\ m > 0 /\ mcast_sq' = [mcast_sq EXCEPT ![n] = @ - 1]
      /\ chain' = IF (m - 1) % Packets = 0 THEN [chain EXCEPT ![n] = @ + 1] ELSE chain
  BY DEF Transmit, McastInv, Packets
<1>2. mcast_sq \in [Blocks -> Nat] /\ chain \in [Blocks -> Nat] /\ m \in Nat
  BY DEF McastInv
<1>3. mcast_sq' \in [Blocks -> Nat] /\ chain' \in [Blocks -> Nat]
  BY <1>1, <1>2
<1>4. mcast_sq'[n] = m - 1 /\ chain'[n] = IF (m - 1) % Packets = 0 THEN chain[n] + 1 ELSE chain[n]
  BY <1>1, <1>2
<1>5. /\ CeilDiv(m, Packets) \in Nat
      /\ CeilDiv(m - 1, Packets) = IF (m - 1) % Packets = 0 THEN CeilDiv(m, Packets) - 1
                                   ELSE CeilDiv(m, Packets)
  BY <1>1, <1>2, PacketsArePositive, CeilDivFacts
<1>6. \A k \in Blocks : at[k] \in Nat /\ at2[k] \in Nat
  BY <1>2, <1>3, ChainsAtType
<1>7. at2[n] = at[n]
  <2>1. at2[n] = CeilDiv(m - 1, Packets) + chain'[n] /\ at[n] = CeilDiv(m, Packets) + chain[n]
    BY <1>2, <1>3, <1>4, ChainsAtType
  <2>2. QED
    BY <1>2, <1>4, <1>5, <2>1
<1>8. \A k \in Blocks \ {n} : at2[k] = at[k]
  <2>1. \A k \in Blocks \ {n} : mcast_sq'[k] = mcast_sq[k] /\ chain'[k] = chain[k]
    BY <1>1, <1>2
  <2>2. QED
    BY <2>1 DEF ChainsAt
<1> HIDE DEF at, at2
<1>9. SumFunctionOnSet(at2, Blocks) = SumFunctionOnSet(at, Blocks)
  BY <1>7, <1>8, PacketsArePositive, SumSame
<1>10. QED
  BY <1>3, <1>9 DEF McastInv, at, at2

\* A hand-over moves a chain to the next node, or ends it there.
LEMMA HandOverKeepsChains == ASSUME McastInv, NEW n \in Blocks, ReceiveHandOver(n) PROVE McastInv'
<1> DEFINE l   == Left(n)
           at  == ChainsAt(mcast_sq, chain)
           mid == ChainsAt(mcast_sq, chain')
           at2 == ChainsAt(mcast_sq', chain')
<1>1. /\ chain[l] > 0 /\ chain' = [chain EXCEPT ![l] = @ - 1]
      /\ \/ mcast_sq' = mcast_sq
         \/ mcast_sq' = [mcast_sq EXCEPT ![n] = @ + Packets]
  BY DEF ReceiveHandOver, Packets
<1>2. /\ mcast_sq \in [Blocks -> Nat] /\ chain \in [Blocks -> Nat]
      /\ l \in Blocks /\ chain[l] \in Nat /\ mcast_sq[n] \in Nat
      /\ SumFunctionOnSet(at, Blocks) <= m_roots
      /\ Packets \in Nat \ {0} /\ m_roots \in Nat /\ IsFiniteSet(Blocks)
  BY Neighbours, PacketsArePositive DEF McastInv
<1>3. mcast_sq' \in [Blocks -> Nat] /\ chain' \in [Blocks -> Nat]
  BY <1>1, <1>2
<1>4. \A k \in Blocks : at[k] \in Nat /\ mid[k] \in Nat /\ at2[k] \in Nat
  BY <1>2, <1>3, ChainsAtType
<1>5. mid[l] = at[l] - 1 /\ \A k \in Blocks \ {l} : mid[k] = at[k]
  <2>1. chain'[l] = chain[l] - 1 /\ \A k \in Blocks \ {l} : chain'[k] = chain[k]
    BY <1>1, <1>2
  <2>2. /\ mid[l] = CeilDiv(mcast_sq[l], Packets) + chain'[l]
        /\ at[l] = CeilDiv(mcast_sq[l], Packets) + chain[l]
        /\ CeilDiv(mcast_sq[l], Packets) \in Nat
    BY <1>2, <1>3, ChainsAtType
  <2>3. mid[l] = at[l] - 1
    BY <1>2, <2>1, <2>2
  <2>4. \A k \in Blocks \ {l} : mid[k] = at[k]
    BY <2>1 DEF ChainsAt
  <2>5. QED
    BY <2>3, <2>4
<1>6. at2[n] <= mid[n] + 1 /\ \A k \in Blocks \ {n} : at2[k] = mid[k]
  <2>1. \A k \in Blocks \ {n} : mcast_sq'[k] = mcast_sq[k]
    BY <1>1, <1>2
  <2>2. \A k \in Blocks \ {n} : at2[k] = mid[k]
    BY <2>1 DEF ChainsAt
  <2>3. /\ at2[n] = CeilDiv(mcast_sq'[n], Packets) + chain'[n]
        /\ mid[n] = CeilDiv(mcast_sq[n], Packets) + chain'[n]
        /\ CeilDiv(mcast_sq[n], Packets) \in Nat /\ chain'[n] \in Nat
    BY <1>2, <1>3, ChainsAtType
  <2>4. CeilDiv(mcast_sq[n] + Packets, Packets) = CeilDiv(mcast_sq[n], Packets) + 1
    BY <1>2, CeilDivFacts
  <2>5. mcast_sq'[n] \in {mcast_sq[n], mcast_sq[n] + Packets}
    BY <1>1, <1>2
  <2>6. at2[n] <= mid[n] + 1
    BY <2>3, <2>4, <2>5
  <2>7. QED
    BY <2>2, <2>6
<1> HIDE DEF at, mid, at2
<1>7. /\ SumFunctionOnSet(at, Blocks) \in Nat /\ SumFunctionOnSet(mid, Blocks) \in Nat
      /\ SumFunctionOnSet(at2, Blocks) \in Nat
  BY <1>2, <1>4, SumNatural
<1>8. SumFunctionOnSet(mid, Blocks) = SumFunctionOnSet(at, Blocks) - at[l] + mid[l]
  BY <1>2, <1>4, <1>5, SumUpdate
<1>9. SumFunctionOnSet(at2, Blocks) = SumFunctionOnSet(mid, Blocks) - mid[n] + at2[n]
  BY <1>2, <1>4, <1>6, SumUpdate
<1>10. SumFunctionOnSet(at2, Blocks) <= SumFunctionOnSet(at, Blocks)
  BY <1>2, <1>4, <1>5, <1>6, <1>7, <1>8, <1>9
<1>11. SumFunctionOnSet(at2, Blocks) <= m_roots
  BY <1>2, <1>7, <1>10
<1>12. QED
  BY <1>3, <1>11 DEF McastInv, at2

\* What the sum says of a node.
LEMMA McastBounds ==
    ASSUME McastInv, NEW n \in Blocks
    PROVE  mcast_sq[n] \in 0 .. m_roots * Packets /\ chain[n] \in 0 .. m_roots
<1> DEFINE at == ChainsAt(mcast_sq, chain)
           c  == CeilDiv(mcast_sq[n], Packets)
<1>1. /\ mcast_sq \in [Blocks -> Nat] /\ chain \in [Blocks -> Nat]
      /\ mcast_sq[n] \in Nat /\ chain[n] \in Nat
      /\ SumFunctionOnSet(at, Blocks) <= m_roots
      /\ Packets \in Nat \ {0} /\ m_roots \in Nat /\ IsFiniteSet(Blocks)
  BY PacketsArePositive DEF McastInv
<1>2. /\ \A k \in Blocks : at[k] \in Nat
      /\ at[n] = c + chain[n]
  BY <1>1, ChainsAtType
<1>3. c \in Nat /\ mcast_sq[n] <= c * Packets
  BY <1>1, CeilDivFacts
<1> HIDE DEF at, c
<1>4. SumFunctionOnSet(at, Blocks) \in Nat /\ at[n] <= SumFunctionOnSet(at, Blocks)
  BY <1>1, <1>2, SumNatural
<1>5. c <= m_roots /\ chain[n] <= m_roots
  BY <1>1, <1>2, <1>3, <1>4
<1>6. c * Packets <= m_roots * Packets /\ c * Packets \in Nat /\ m_roots * Packets \in Nat
  BY <1>1, <1>3, <1>5
<1>7. QED
  BY <1>1, <1>3, <1>5, <1>6

\* The segments of different blocks are different.
LEMMA SegmentsOfBlock ==
    ASSUME NEW c \in Chunks, NEW d \in Chunks, GetSegmentOfChunk(c) = GetSegmentOfChunk(d)
    PROVE  GetOriginalSender(c) = GetOriginalSender(d)
<1> DEFINE s == GetOriginalSender(c)
           t == GetOriginalSender(d)
           p == PerNodeSegmentCount
<1>1. p \in Nat \ {0} /\ PerBlockChunkCount \in Nat \ {0} /\ c \in Nat /\ d \in Nat
  BY AgConfigAssumption, ChunkCounts DEF Chunks
<1>2. s \in Nat /\ t \in Nat /\ c % p \in 0 .. p - 1 /\ d % p \in 0 .. p - 1
  BY <1>1, QuotientOf DEF GetOriginalSender
<1>3. s * p + (c % p) = t * p + (d % p)
  BY DEF GetSegmentOfChunk
<1>4. (s * p + (c % p)) \div p = s /\ (t * p + (d % p)) \div p = t
  BY <1>1, <1>2, QuotientIs
<1>5. QED
  BY <1>3, <1>4

\* A node has its own block.
LEMMA OwnBlockIsKept ==
    ASSUME NEW n \in Blocks, NEW recv, ChunksOf(n) \subseteq recv
    PROVE  n \notin BuildToRecover(recv)
<1>1. SUFFICES ASSUME NEW c \in ChunksOf(n)
               PROVE  ~(Cardinality({d \in Chunks \ recv :
                            GetSegmentOfChunk(d) = GetSegmentOfChunk(c)}) > m_sparity)
  BY DEF BuildToRecover
<1>2. {d \in Chunks \ recv : GetSegmentOfChunk(d) = GetSegmentOfChunk(c)} = {}
  <2>1. SUFFICES ASSUME NEW d \in Chunks, d \notin recv, GetSegmentOfChunk(d) = GetSegmentOfChunk(c)
                 PROVE  FALSE
    OBVIOUS
  <2>2. GetOriginalSender(d) = n
    BY <2>1, SegmentsOfBlock DEF ChunksOf
  <2>3. QED
    BY <2>1, <2>2 DEF ChunksOf
<1>3. Cardinality({}) = 0 /\ m_sparity \in Nat
  BY FS_EmptySet, AgConfigAssumption
<1>4. QED
  BY <1>2, <1>3

\* What a node keeps in bounds by itself.
NodeBounds(n, r) ==
    /\ r.completed_chains <= m_roots
    /\ r.state = "Multicast" => r.completed_chains < m_roots
    /\ n \notin r.torecover

LEMMA TransitionBounds ==
    ASSUME NEW n \in Blocks, NEW r \in Runtime, r.completed_chains <= m_roots
    PROVE  NodeBounds(n, TransitionToRecovery(n, r))
<1> DEFINE missed == BuildToRecover(r.recv \union ChunksOf(n))
<1>1. n \notin missed
  BY OwnBlockIsKept
<1>2. TransitionToRecovery(n, r) =
          [r EXCEPT !.state = "Recovery", !.recv = {}, !.progress = NoProgress,
                    !.torecover = missed]
  BY DEF TransitionToRecovery
<1> HIDE DEF missed
<1>3. QED
  BY <1>1, <1>2 DEF NodeBounds, Runtime

\* The chain that completes last ends the multicast phase.
LEMMA ReceivedPacketBounds ==
    ASSUME NEW n \in Blocks, NEW r \in Runtime, r.state = "Multicast", NodeBounds(n, r)
    PROVE  NodeBounds(n, NotifyReceivePacket(n, r, ReceivedImm))
<1> DEFINE chunk  == ChunkOfImm(ReceivedImm)
           sender == GetOriginalSender(chunk)
           p      == Progress(r.progress[sender], chunk)
           is_new == p.pkts = PerChunkPacketCount /\ chunk \notin r.recv
           recv   == IF is_new THEN r.recv \union {chunk} ELSE r.recv
           chains == IF is_new /\ IsLastChunkOfChain(chunk)
                     THEN r.completed_chains + 1 ELSE r.completed_chains
           r1     == [r EXCEPT !.progress[sender] = p, !.recv = recv,
                               !.completed_chains = chains]
<1>1. chunk \in Chunks /\ chunk \in Nat /\ sender \in Blocks
  BY ChunkCounts
<1>2. p \in [chunk: Nat, pkts: Nat]
  BY <1>1, ProgressType DEF Runtime
<1>3. recv \in SUBSET Chunks /\ chains \in Nat /\ chains <= m_roots
  <2>1. r.completed_chains \in Nat /\ r.completed_chains < m_roots /\ m_roots \in Nat
    BY PacketsArePositive DEF Runtime, NodeBounds
  <2>2. QED
    BY <1>1, <2>1 DEF Runtime
<1>4. NotifyReceivePacket(n, r, ReceivedImm) =
          IF r1.completed_chains = m_roots THEN TransitionToRecovery(n, r1) ELSE r1
  BY DEF NotifyReceivePacket
<1> HIDE DEF p, recv, chains, sender, chunk
<1>5. r1 \in Runtime /\ r1.completed_chains = chains /\ r1.torecover = r.torecover
  BY <1>1, <1>2, <1>3 DEF Runtime
<1> HIDE DEF r1
<1>6. CASE r1.completed_chains = m_roots
  BY <1>3, <1>4, <1>5, <1>6, TransitionBounds
<1>7. CASE r1.completed_chains # m_roots
  <2>1. r1.completed_chains < m_roots /\ n \notin r1.torecover
    BY <1>3, <1>5, <1>7, PacketsArePositive DEF NodeBounds
  <2>2. QED
    BY <1>3, <1>4, <1>5, <1>7, <2>1 DEF NodeBounds
<1>8. QED
  BY <1>6, <1>7

\* Listing a set takes as many places as it has elements.
LEMMA AscendingLength ==
    ASSUME NEW set \in SUBSET Blocks
    PROVE  Ascending(set) \in Seq(Blocks) /\ Len(Ascending(set)) = Cardinality(set)
<1>1. Ascending(set) \in Seq(set)
  BY AscendingEnumerates
<1>2. Ascending(set) \in Seq(Blocks)
  BY <1>1
<1>3. DOMAIN Ascending(set) = 1 .. Cardinality(set) /\ Cardinality(set) \in Nat
  BY RankFacts DEF Ascending
<1>4. QED
  BY <1>2, <1>3

\* TryUpdateState sends what has not been sent, and none of it is the neighbour's own.
LEMMA SendsAreBounded ==
    ASSUME RecoveryTypes, \A m \in Blocks : BoundsAt(m),
           NEW n \in Blocks, NEW r \in Runtime, NEW bs \in [Blocks -> Seq(Blocks)],
           TryUpdateState(n, r, bs),
           r.rec_sent = rt[n].rec_sent, NodeBounds(n, r), acks' \in [Blocks -> Nat],
           \A m \in Blocks : Len(bs[m]) + acks'[m] <= Cardinality(rt[m].rec_sent)
    PROVE  \A m \in Blocks : BoundsAt(m)'
<1> DEFINE sends == IF r.state = "Recovery" THEN ToSend(r, rt[Right(n)]) ELSE {}
           sent  == rt[n].rec_sent
<1>1. /\ rt' \in [Blocks -> Runtime]
      /\ \A m \in Blocks \ {n} : rt'[m] = rt[m] /\ blocks'[m] = bs[m]
      /\ rt'[n].torecover = r.torecover
      /\ rt'[n].state = r.state \/ rt'[n].state = "Finished"
  BY TryUpdateStateFacts
<1>2. rt[Right(n)] \in Runtime /\ rt[n] \in Runtime /\ Right(n) \in Blocks
  BY Neighbours DEF RecoveryTypes
<1>3. /\ sends \in SUBSET Blocks /\ sends \intersect sent = {}
      /\ sends \subseteq rt[Right(n)].torecover
  BY <1>2 DEF ToSend, Runtime
<1>4. /\ rt'[n].rec_sent = sent \union sends
      /\ rt'[n].completed_chains = r.completed_chains
      /\ blocks'[n] = bs[n] \o Ascending(sends)
  BY <1>2 DEF TryUpdateState, RecoveryTypes, Runtime
<1> HIDE DEF sends
<1>5. sent \in SUBSET Blocks
  BY <1>2 DEF Runtime
<1> HIDE DEF sent
<1>6. Right(n) \notin sent \union sends
  <2>1. Right(n) \notin sent /\ Right(n) \notin rt[Right(n)].torecover
    BY <1>2 DEF BoundsAt, sent
  <2>2. QED
    BY <1>3, <2>1
<1>7. Len(blocks'[n]) + acks'[n] <= Cardinality(sent \union sends)
  <2>1. /\ IsFiniteSet(sent) /\ IsFiniteSet(sends)
        /\ Cardinality(sent) \in Nat /\ Cardinality(sends) \in Nat
    BY <1>3, <1>5, RankFacts
  <2>2. Cardinality(sent \union sends) = Cardinality(sent) + Cardinality(sends)
    <3>1. Cardinality(sent \union sends) =
              Cardinality(sent) + Cardinality(sends) - Cardinality(sent \intersect sends)
      BY <2>1, FS_Union
    <3>2. Cardinality(sent \intersect sends) = 0
      BY <1>3, FS_EmptySet
    <3>3. QED
      BY <2>1, <3>1, <3>2
  <2>3. /\ Ascending(sends) \in Seq(Blocks) /\ Len(Ascending(sends)) = Cardinality(sends)
    BY <1>3, AscendingLength
  <2>4. Len(blocks'[n]) = Len(bs[n]) + Cardinality(sends) /\ Len(bs[n]) \in Nat
    <3>1. \A t \in Seq(Blocks), u \in Seq(Blocks) : Len(t \o u) = Len(t) + Len(u) /\ Len(t) \in Nat
      OBVIOUS
    <3>2. bs[n] \in Seq(Blocks)
      OBVIOUS
    <3>3. Len(bs[n] \o Ascending(sends)) = Len(bs[n]) + Len(Ascending(sends)) /\ Len(bs[n]) \in Nat
      BY <2>3, <3>1, <3>2
    <3>4. QED
      BY <1>4, <2>3, <3>3
  <2>5. Len(bs[n]) + acks'[n] <= Cardinality(sent) /\ acks'[n] \in Nat
    BY DEF sent
  <2>6. QED
    BY <2>1, <2>2, <2>4, <2>5
<1>8. BoundsAt(n)'
  <2>1. /\ rt'[n].completed_chains <= m_roots
        /\ rt'[n].state = "Multicast" => rt'[n].completed_chains < m_roots
        /\ n \notin rt'[n].torecover
    BY <1>1, <1>4 DEF NodeBounds
  <2>2. Right(n)' = Right(n)
    BY DEF Right
  <2>3. QED
    BY <1>4, <1>6, <1>7, <2>1, <2>2 DEF BoundsAt
<1>9. ASSUME NEW m \in Blocks \ {n} PROVE BoundsAt(m)'
  <2>1. Right(m)' = Right(m)
    BY DEF Right
  <2>2. rt'[m] = rt[m] /\ blocks'[m] = bs[m] /\ BoundsAt(m)
    BY <1>1
  <2>3. QED
    BY <2>1, <2>2 DEF BoundsAt
<1>10. QED
  BY <1>8, <1>9

\* The four messages of the recovery phase.
LEMMA RecoveryKeepsBounds ==
    ASSUME BoundsInv, NEW n \in Blocks, RecoveryStep(n)
    PROVE  \A m \in Blocks : BoundsAt(m)'
<1>1. /\ RecoveryTypes /\ \A m \in Blocks : BoundsAt(m)
      /\ rt[n] \in Runtime /\ BoundsAt(n) /\ Left(n) \in Blocks
      /\ blocks \in [Blocks -> Seq(Blocks)] /\ acks \in [Blocks -> Nat]
  BY Neighbours DEF BoundsInv, AGInv, RecoveryTypes
<1>2. \A m \in Blocks : Len(blocks[m]) + acks[m] <= Cardinality(rt[m].rec_sent)
  BY <1>1 DEF BoundsAt
<1>3. ASSUME NEW recovered
      PROVE  LET r == NotifyRecovery(rt[n], recovered)
             IN  r \in Runtime /\ r.rec_sent = rt[n].rec_sent /\ NodeBounds(n, r)
  <2> DEFINE left == rt[n].torecover \ recovered
             has  == rt[n].has_recovered_all \/ left = {}
  <2>1. NotifyRecovery(rt[n], recovered) =
            [rt[n] EXCEPT !.torecover = left, !.has_recovered_all = has]
    BY DEF NotifyRecovery
  <2>2. left \in SUBSET Blocks /\ has \in BOOLEAN /\ n \notin left
    BY <1>1 DEF Runtime, BoundsAt
  <2> HIDE DEF left, has
  <2>3. QED
    BY <1>1, <2>1, <2>2 DEF Runtime, BoundsAt, NodeBounds
<1>4. ASSUME NEW req \in BOOLEAN, NEW all \in BOOLEAN
      PROVE  LET r == [rt[n] EXCEPT !.has_recv_recover_req = req, !.rec_sent_all = all]
             IN  r \in Runtime /\ r.rec_sent = rt[n].rec_sent /\ NodeBounds(n, r)
  BY <1>1 DEF Runtime, BoundsAt, NodeBounds
<1>5. rt[n].has_recv_recover_req \in BOOLEAN /\ rt[n].rec_sent_all \in BOOLEAN
  BY <1>1 DEF Runtime
<1>6. CASE NotifyRecvRecoveryRequest(n)
  <2> DEFINE all == rt[n].rec_sent_all \/ MissesNothing(n)
             r   == [rt[n] EXCEPT !.has_recv_recover_req = TRUE, !.rec_sent_all = all]
  <2>1. TryUpdateState(n, r, blocks) /\ acks' = acks
    BY <1>6 DEF NotifyRecvRecoveryRequest
  <2>2. all \in BOOLEAN
    BY <1>5
  <2>3. r \in Runtime /\ r.rec_sent = rt[n].rec_sent /\ NodeBounds(n, r)
    BY <1>4, <2>2
  <2> HIDE DEF r
  <2>4. QED
    BY <1>1, <1>2, <2>1, <2>3, SendsAreBounded
<1>7. CASE RequestSent(n)
  <2> DEFINE r == NotifyRecovery(rt[n], {})
  <2>1. acks' = acks /\ (TryUpdateState(n, r, blocks) \/ UNCHANGED <<rt, blocks>>)
    BY <1>7 DEF RequestSent
  <2>2. r \in Runtime /\ r.rec_sent = rt[n].rec_sent /\ NodeBounds(n, r)
    BY <1>3
  <2> HIDE DEF r
  <2>3. CASE TryUpdateState(n, r, blocks)
    BY <1>1, <1>2, <2>1, <2>2, <2>3, SendsAreBounded
  <2>4. CASE UNCHANGED <<rt, blocks>>
    BY <1>1, <2>1, <2>4 DEF BoundsAt, Right
  <2>5. QED
    BY <2>1, <2>3, <2>4
<1>8. CASE ReceiveBlock(n)
  <2> DEFINE l  == Left(n)
             r  == NotifyRecovery(rt[n], {Head(blocks[l])})
             bs == [blocks EXCEPT ![l] = Tail(@)]
  <2>1. /\ TryUpdateState(n, r, bs) /\ acks' = [acks EXCEPT ![l] = @ + 1]
        /\ blocks[l] # << >>
    BY <1>8 DEF ReceiveBlock
  <2>2. r \in Runtime /\ r.rec_sent = rt[n].rec_sent /\ NodeBounds(n, r)
    BY <1>3
  <2>3. /\ Tail(blocks[l]) \in Seq(Blocks) /\ Len(Tail(blocks[l])) = Len(blocks[l]) - 1
        /\ Len(blocks[l]) \in Nat
    <3>1. blocks[l] \in Seq(Blocks)
      BY <1>1
    <3>2. QED
      BY <2>1, <3>1
  <2>4. /\ bs \in [Blocks -> Seq(Blocks)] /\ bs[l] = Tail(blocks[l])
        /\ \A m \in Blocks \ {l} : bs[m] = blocks[m]
    BY <1>1, <2>3
  <2>5. /\ acks' \in [Blocks -> Nat] /\ acks'[l] = acks[l] + 1
        /\ \A m \in Blocks \ {l} : acks'[m] = acks[m]
        /\ acks[l] \in Nat
    BY <1>1, <2>1
  <2> HIDE DEF r, bs, l
  <2>6. ASSUME NEW m \in Blocks
        PROVE  Len(bs[m]) + acks'[m] <= Cardinality(rt[m].rec_sent)
    <3>1. CASE m = l
      <4>1. Len(bs[l]) = Len(blocks[l]) - 1 /\ acks'[l] = acks[l] + 1
        BY <2>3, <2>4, <2>5
      <4>2. Len(bs[l]) + acks'[l] = Len(blocks[l]) + acks[l]
        BY <2>3, <2>5, <4>1
      <4>3. Len(blocks[l]) + acks[l] <= Cardinality(rt[l].rec_sent)
        BY <1>2, <3>1
      <4>4. QED
        BY <3>1, <4>2, <4>3
    <3>2. CASE m # l
      BY <1>2, <2>4, <2>5, <3>2
    <3>3. QED
      BY <3>1, <3>2
  <2>7. QED
    BY <1>1, <2>1, <2>2, <2>4, <2>5, <2>6, SendsAreBounded
<1>9. CASE BlockSent(n)
  <2> DEFINE all == rt[n].rec_sent_all \/ RecSentAll(n)
             r   == [rt[n] EXCEPT !.rec_sent_all = all]
  <2>1. /\ TryUpdateState(n, r, blocks) /\ acks[n] > 0
        /\ acks' = [acks EXCEPT ![n] = @ - 1]
    BY <1>9 DEF BlockSent
  <2>2. r \in Runtime /\ r.rec_sent = rt[n].rec_sent /\ NodeBounds(n, r)
    <3>1. r = [rt[n] EXCEPT !.has_recv_recover_req = rt[n].has_recv_recover_req,
                            !.rec_sent_all = all]
      BY <1>1 DEF Runtime
    <3>2. all \in BOOLEAN
      BY <1>5
    <3> HIDE DEF r, all
    <3>3. QED
      BY <1>4, <1>5, <3>1, <3>2
  <2> HIDE DEF r
  <2>3. /\ acks' \in [Blocks -> Nat] /\ \A m \in Blocks : acks'[m] <= acks[m]
    BY <1>1, <2>1
  <2>4. \A m \in Blocks : Len(blocks[m]) + acks'[m] <= Cardinality(rt[m].rec_sent)
    <3> TAKE m \in Blocks
    <3>1. /\ blocks[m] \in Seq(Blocks) /\ acks[m] \in Nat /\ acks'[m] \in Nat
          /\ rt[m] \in Runtime
      BY <1>1, <2>3 DEF RecoveryTypes
    <3>2. Cardinality(rt[m].rec_sent) \in Nat /\ Len(blocks[m]) \in Nat
      <4>1. rt[m].rec_sent \in SUBSET Blocks
        BY <3>1 DEF Runtime
      <4>2. QED
        BY <3>1, <4>1, RankFacts
    <3>3. QED
      BY <1>2, <2>3, <3>1, <3>2
  <2>5. QED
    BY <1>1, <2>1, <2>2, <2>3, <2>4, SendsAreBounded
<1>10. QED
  BY <1>6, <1>7, <1>8, <1>9 DEF RecoveryStep

\* Leaving the multicast phase, and packets received in it.
LEMMA NowKeepsBounds ==
    ASSUME BoundsInv, NEW leaving, NEW now \in [Blocks -> Runtime],
           StartRecoveryPhase(leaving, now),
           \A m \in Blocks : NodeBounds(m, now[m]) /\ now[m].rec_sent = rt[m].rec_sent
    PROVE  \A m \in Blocks : BoundsAt(m)'
<1>1. rt' = now /\ blocks' = blocks /\ acks' = acks
  BY DEF StartRecoveryPhase
<1>2. ASSUME NEW m \in Blocks PROVE BoundsAt(m)'
  <2>1. BoundsAt(m) /\ Right(m)' = Right(m)
    BY DEF BoundsInv, Right
  <2>2. rt'[m] = now[m] /\ blocks'[m] = blocks[m] /\ acks'[m] = acks[m]
    BY <1>1
  <2>3. QED
    BY <2>1, <2>2 DEF BoundsAt, NodeBounds
<1>3. QED
  BY <1>2

LEMMA LeavingKeepsBounds ==
    ASSUME BoundsInv, NEW n \in Blocks, NEW r \in Runtime, SameRecovery(rt[n], r),
           r.completed_chains <= m_roots,
           StartRecoveryPhase({n}, [rt EXCEPT ![n] = TransitionToRecovery(n, r)])
    PROVE  \A m \in Blocks : BoundsAt(m)'
<1> DEFINE s   == TransitionToRecovery(n, r)
           now == [rt EXCEPT ![n] = s]
<1>1. s \in Runtime /\ SameRecovery(r, s) /\ NodeBounds(n, s)
  BY TransitionFacts, TransitionBounds
<1>2. rt \in [Blocks -> Runtime] /\ \A m \in Blocks : BoundsAt(m)
  BY DEF BoundsInv, AGInv, RecoveryTypes
<1>3. StartRecoveryPhase({n}, now)
  OBVIOUS
<1> HIDE DEF s
<1>4. now \in [Blocks -> Runtime] /\ now[n] = s /\ \A m \in Blocks \ {n} : now[m] = rt[m]
  BY <1>1, <1>2
<1> HIDE DEF now
<1>5. \A m \in Blocks : NodeBounds(m, now[m]) /\ now[m].rec_sent = rt[m].rec_sent
  BY <1>1, <1>2, <1>4 DEF BoundsAt, NodeBounds, SameRecovery
<1>6. QED
  BY <1>3, <1>4, <1>5, NowKeepsBounds

LEMMA TransmitKeepsBounds ==
    ASSUME BoundsInv, NEW n \in Blocks, Transmit(n)
    PROVE  \A m \in Blocks : BoundsAt(m)'
<1> DEFINE now(receivers) == [m \in Blocks |->
               IF m \in receivers THEN NotifyReceivePacket(m, rt[m], ReceivedImm) ELSE rt[m]]
<1>1. PICK receivers \in SUBSET {m \in Blocks \ {n} : rt[m].state = "Multicast"} :
          StartRecoveryPhase({m \in receivers : now(receivers)[m].state = "Recovery"},
                             now(receivers))
  BY DEF Transmit
<1>2. PICK leaving, then :
          /\ then = now(receivers)
          /\ leaving = {m \in receivers : now(receivers)[m].state = "Recovery"}
  OBVIOUS
<1>3. StartRecoveryPhase(leaving, then)
  BY <1>1, <1>2
<1>4. \A m \in Blocks : rt[m] \in Runtime /\ BoundsAt(m)
  BY InvFacts DEF BoundsInv
<1>5. ASSUME NEW m \in Blocks
      PROVE  /\ then[m] \in Runtime /\ NodeBounds(m, then[m])
             /\ then[m].rec_sent = rt[m].rec_sent
  <2>1. NodeBounds(m, rt[m])
    BY <1>4 DEF BoundsAt, NodeBounds
  <2>2. CASE m \in receivers
    <3>1. /\ then[m] = NotifyReceivePacket(m, rt[m], ReceivedImm)
          /\ rt[m].state = "Multicast"
      BY <1>2, <2>2
    <3>2. then[m] \in Runtime /\ SameRecovery(rt[m], then[m])
      BY <1>4, <3>1, NotifyReceivePacketFacts
    <3>3. NodeBounds(m, then[m])
      BY <1>4, <2>1, <3>1, ReceivedPacketBounds
    <3>4. QED
      BY <3>2, <3>3 DEF SameRecovery
  <2>3. CASE m \notin receivers
    <3>1. then[m] = rt[m]
      BY <1>2, <2>3
    <3>2. QED
      BY <1>4, <2>1, <3>1
  <2>4. QED
    BY <2>2, <2>3
<1>6. then \in [Blocks -> Runtime]
  <2>1. then = [m \in Blocks |-> then[m]]
    BY <1>2
  <2>2. QED
    BY <1>5, <2>1
<1>7. QED
  BY <1>3, <1>5, <1>6, NowKeepsBounds

LEMMA BoundsInvInit == Init => BoundsInv
<1> SUFFICES ASSUME Init PROVE BoundsInv
  OBVIOUS
<1>1. AGInv /\ McastInv
  BY AGInvInit, McastInvInit
<1>2. ASSUME NEW n \in Blocks PROVE BoundsAt(n)
  <2>1. /\ rt[n].completed_chains = 0 /\ rt[n].torecover = {} /\ rt[n].rec_sent = {}
        /\ blocks[n] = << >> /\ acks[n] = 0
    BY DEF Init
  <2>2. Cardinality({}) = 0 /\ Len(<< >>) = 0 /\ 0 < m_roots /\ 0 <= m_roots
    BY FS_EmptySet, PacketsArePositive
  <2>3. QED
    BY <2>1, <2>2 DEF BoundsAt
<1>3. QED
  BY <1>1, <1>2 DEF BoundsInv, Init

LEMMA BoundsInvNext == BoundsInv /\ [Next]_vars => BoundsInv'
<1> SUFFICES ASSUME BoundsInv, [Next]_vars PROVE BoundsInv'
  OBVIOUS
<1>1. AGInv' /\ strategy' \in Strategies
  <2>1. strategy' = strategy
    BY DEF Next, MulticastStep, Transmit, ReceiveHandOver, OnCutoffTimer, RunMarkovMcast,
           RecoveryStep, NotifyRecvRecoveryRequest, RequestSent, ReceiveBlock, BlockSent, vars
  <2>2. QED
    BY <2>1, AGInvNext DEF BoundsInv
<1>2. McastInv /\ \A m \in Blocks : BoundsAt(m) /\ rt[m] \in Runtime
  BY InvFacts DEF BoundsInv
<1>3. UNCHANGED mcast_vars => McastInv'
  BY <1>2 DEF mcast_vars, McastInv, ChainsAt
<1>4. UNCHANGED <<rt, recovery_vars>> => \A m \in Blocks : BoundsAt(m)'
  BY <1>2 DEF recovery_vars, BoundsAt, Right
<1>5. McastInv' /\ \A m \in Blocks : BoundsAt(m)'
  <2>1. ASSUME NEW n \in Blocks, Transmit(n) PROVE McastInv' /\ \A m \in Blocks : BoundsAt(m)'
    BY <1>2, <2>1, TransmitKeepsChains, TransmitKeepsBounds
  <2>2. ASSUME NEW n \in Blocks, ReceiveHandOver(n)
        PROVE  McastInv' /\ \A m \in Blocks : BoundsAt(m)'
    <3>1. UNCHANGED <<rt, recovery_vars>>
      BY <2>2 DEF ReceiveHandOver
    <3>2. QED
      BY <1>2, <1>4, <2>2, <3>1, HandOverKeepsChains
  <2>3. ASSUME NEW n \in Blocks, OnCutoffTimer(n)
        PROVE  McastInv' /\ \A m \in Blocks : BoundsAt(m)'
    <3>1. /\ StartRecoveryPhase({n}, [rt EXCEPT ![n] = TransitionToRecovery(n, rt[n])])
          /\ UNCHANGED mcast_vars
      BY <2>3 DEF OnCutoffTimer
    <3>2. SameRecovery(rt[n], rt[n]) /\ rt[n].completed_chains <= m_roots
      BY <1>2 DEF SameRecovery, BoundsAt
    <3>3. QED
      BY <1>2, <1>3, <3>1, <3>2, LeavingKeepsBounds
  <2>4. ASSUME NEW n \in Blocks, RunMarkovMcast(n)
        PROVE  McastInv' /\ \A m \in Blocks : BoundsAt(m)'
    <3>1. PICK recv \in SUBSET (Chunks \ ChunksOf(n)) :
              StartRecoveryPhase({n}, [rt EXCEPT ![n] =
                  TransitionToRecovery(n, [rt[n] EXCEPT !.recv = recv])])
      BY <1>2, <2>4 DEF RunMarkovMcast
    <3>2. PICK r : r = [rt[n] EXCEPT !.recv = recv]
      OBVIOUS
    <3>3. /\ r \in Runtime /\ SameRecovery(rt[n], r)
          /\ r.completed_chains = rt[n].completed_chains
      <4>1. rt[n] \in Runtime /\ recv \in SUBSET Chunks
        BY <1>2, <3>1
      <4>2. r \in Runtime
        BY <3>2, <4>1, Zenon DEF Runtime
      <4>3. /\ r.state = rt[n].state /\ r.progress = rt[n].progress
            /\ r.completed_chains = rt[n].completed_chains
            /\ r.torecover = rt[n].torecover /\ r.rec_sent = rt[n].rec_sent
            /\ r.has_recovered_all = rt[n].has_recovered_all
            /\ r.has_recv_recover_req = rt[n].has_recv_recover_req
            /\ r.rec_sent_all = rt[n].rec_sent_all
        BY <3>2, <4>1 DEF Runtime
      <4>4. QED
        BY <4>2, <4>3 DEF SameRecovery
    <3>4. r.completed_chains <= m_roots
      BY <1>2, <3>3 DEF BoundsAt
    <3>5. UNCHANGED mcast_vars
      BY <2>4 DEF RunMarkovMcast
    <3>6. QED
      BY <1>3, <3>1, <3>2, <3>3, <3>4, <3>5, LeavingKeepsBounds
  <2>5. ASSUME NEW n \in Blocks, RecoveryStep(n)
        PROVE  McastInv' /\ \A m \in Blocks : BoundsAt(m)'
    <3>1. UNCHANGED mcast_vars
      BY <2>5 DEF RecoveryStep, NotifyRecvRecoveryRequest, RequestSent, ReceiveBlock, BlockSent
    <3>2. QED
      BY <1>3, <2>5, <3>1, RecoveryKeepsBounds
  <2>6. CASE UNCHANGED vars
    BY <1>3, <1>4, <2>6 DEF vars
  <2>7. QED
    BY <2>1, <2>2, <2>3, <2>4, <2>5, <2>6 DEF Next, MulticastStep
<1>6. QED
  BY <1>1, <1>5 DEF BoundsInv

\* The variables keep their types: no more chains go round the ring than there
\* are, a node never misses its own block, counts each chain once, and awaits
\* the acknowledgement of every block of the others at most.
THEOREM TypesAreKept == Spec => []TypeOK
<1>1. BoundsInv => TypeOK
  <2> SUFFICES ASSUME BoundsInv, NEW n \in Blocks
               PROVE  /\ rt[n].state \in {"Multicast", "Recovery", "Finished"}
                      /\ rt[n].recv \subseteq Chunks
                      /\ rt[n].torecover \subseteq Blocks \ {n}
                      /\ rt[n].rec_sent \subseteq Blocks
                      /\ rt[n].completed_chains \in 0 .. m_roots
                      /\ mcast_sq[n] \in 0 .. m_roots * PerBlockPacketCount
                      /\ chain[n] \in 0 .. m_roots
                      /\ acks[n] \in 0 .. m_nodes - 1
    BY DEF TypeOK, BoundsInv
  <2>1. /\ rt[n] \in Runtime /\ BoundsAt(n) /\ McastInv /\ Right(n) \in Blocks
        /\ blocks[n] \in Seq(Blocks) /\ acks[n] \in Nat /\ m_roots \in Nat
    BY InvFacts, Neighbours, PacketsArePositive DEF BoundsInv
  <2>2. mcast_sq[n] \in 0 .. m_roots * PerBlockPacketCount /\ chain[n] \in 0 .. m_roots
    BY <2>1, McastBounds DEF Packets
  <2>3. acks[n] <= m_nodes - 1
    <3>1. /\ IsFiniteSet(Blocks) /\ Cardinality(Blocks) = m_nodes
      <4>1. 0 \in Int /\ m_nodes - 1 \in Int /\ ~(0 > m_nodes - 1) /\ m_nodes - 1 - 0 + 1 = m_nodes
        BY NodesArePositive
      <4>2. QED
        BY <4>1, FS_Interval DEF Blocks
    <3>2. /\ IsFiniteSet(Blocks \ {Right(n)})
          /\ Cardinality(Blocks \ {Right(n)}) = m_nodes - 1
      BY <2>1, <3>1, FS_RemoveElement
    <3>3. rt[n].rec_sent \in SUBSET (Blocks \ {Right(n)})
      BY <2>1 DEF Runtime, BoundsAt
    <3>4. Cardinality(rt[n].rec_sent) <= m_nodes - 1 /\ Cardinality(rt[n].rec_sent) \in Nat
      <4>1. Cardinality(rt[n].rec_sent) <= Cardinality(Blocks \ {Right(n)})
        BY <3>2, <3>3, FS_Subset
      <4>2. rt[n].rec_sent \in SUBSET Blocks
        BY <3>3
      <4>3. QED
        BY <3>2, <4>1, <4>2, RankFacts
    <3>5. Len(blocks[n]) \in Nat /\ Len(blocks[n]) + acks[n] <= Cardinality(rt[n].rec_sent)
      BY <2>1 DEF BoundsAt
    <3>6. QED
      BY <2>1, <3>4, <3>5, NodesArePositive
  <2>4. rt[n].torecover \subseteq Blocks \ {n} /\ rt[n].completed_chains \in 0 .. m_roots
    BY <2>1 DEF Runtime, BoundsAt
  <2>5. acks[n] \in 0 .. m_nodes - 1
    BY <2>1, <2>3, NodesArePositive
  <2>6. QED
    BY <2>1, <2>2, <2>4, <2>5 DEF Runtime
<1>2. QED
  BY <1>1, BoundsInvInit, BoundsInvNext, PTL DEF Spec
====
