------------------------ MODULE FlowSchedulerProofs ------------------------
(***************************************************************************)
(* Proofs about the flow scheduler, for every set of flows, dependencies,  *)
(* start times and chains.                                                 *)
(*                                                                         *)
(* FlowInv is the inductive invariant.  A flow that completes is counted   *)
(* out, tells its phase and resolves the flows that depend on it in nested *)
(* calls, and any of them may run another flow in between.  What is left   *)
(* to do is in the frames of the stack, so every counter equals the size   *)
(* of a set of flows that the frames determine.                            *)
(***************************************************************************)
EXTENDS FlowScheduler, FiniteSetTheorems, SequenceTheorems, TLAPS

-----------------------------------------------------------------------------
(* The invariant.  A step may change the events, the stack and the         *)
(* dependencies and then run a flow: its parts have these as parameters,   *)
(* to state what holds in between.                                         *)

Callbacks == {<< >>, <<"OnFlowFinish">>, <<"OnChainComplete">>,
              <<"OnChainComplete", "OnFlowFinish">>}

Frame == [call: {"NotifyComplete"}, flow: Flow, left: Callbacks \ {<<"OnChainComplete">>}]
             \union [call: {"OnFlowFinish"}, flow: Flow, left: SUBSET Flow]

Frames(stk) == {stk[k] : k \in DOMAIN stk}

\* What the frames F have not done yet for a flow that completed.
ToFinish(f, F) ==
    \E x \in F : x.call = "NotifyComplete" /\ x.flow = f /\ x.left # << >>
ToReport(f, F) ==
    \E x \in F : /\ x.call = "NotifyComplete" /\ x.flow = f
                 /\ x.left = <<"OnChainComplete", "OnFlowFinish">>
ToResolve(f, g, F) ==
    \E x \in F : x.call = "OnFlowFinish" /\ x.flow = f /\ g \in x.left

Finished(f, F)    == m_completed[f] /\ ~ToFinish(f, F)
Reported(f, F)    == m_completed[f] /\ ~ToReport(f, F)
Resolved(f, g, F) == Finished(f, F) /\ ~ToResolve(f, g, F)

\* The phase of a child has run.
Created(f) == f \in ListedFlow \/ \E p \in Phases : f \in ChildrenOf(p) /\ HasRun(p)

Pending(f, evs) == \E i \in DOMAIN evs : evs[i].flow = f

VarTypes ==
    /\ now \in 0 .. MaxTime
    /\ checked \in BOOLEAN
    /\ m_dependencies \in [Flow -> SUBSET Flow]
    /\ m_fg_running \in Nat
    /\ m_on_complete \in [Flow -> Callbacks]
    /\ m_completed \in [Flow -> BOOLEAN]
    /\ m_completed_chains \in [Phases -> Nat]
    /\ writes \in [Simple -> Nat]
    /\ stopped \in BOOLEAN
    /\ aborted = FALSE

\* The last flow of a chain tells its phase first.
CallbacksInv ==
    \A f \in Flow :
        /\ ~Created(f) => m_on_complete[f] = << >>
        /\ Created(f) => m_on_complete[f] \in
               IF IsLastOfChain(f)
               THEN {<<"OnChainComplete">>, <<"OnChainComplete", "OnFlowFinish">>}
               ELSE {<< >>, <<"OnFlowFinish">>}

RunsInv ==
    /\ \A f \in Flow : m_completed[f] => HasRun(f)
    /\ \A f \in Simple :
          /\ writes[f] <= Writes[f]
          /\ writes[f] > 0 => HasRun(f)
          /\ writes[f] > 0 /\ Writes[f] = 1 => ~m_completed[f]

GraphInv ==
    \A f, g \in Flow : g \in m_dependencies[f] <=> Created(g) /\ f \in Needs[g]

\* Each flow is in one call of NotifyComplete and one of OnFlowFinish at most.
DistinctCalls(stk) ==
    \A i, j \in DOMAIN stk : stk[i].call = stk[j].call /\ stk[i].flow = stk[j].flow => i = j

FrameInv(x, F) ==
    /\ m_completed[x.flow]
    /\ x.call = "NotifyComplete" /\ x.left = <<"OnChainComplete", "OnFlowFinish">>
          => IsLastOfChain(x.flow)
    /\ x.call = "OnFlowFinish"
          => ~ToFinish(x.flow, F) /\ x.left \subseteq m_dependencies[x.flow]

StackInv(stk) ==
    /\ stk \in Seq(Frame)
    /\ DistinctCalls(stk)
    /\ \A x \in Frames(stk) : FrameInv(x, Frames(stk))

Unresolved(g, F) == {f \in Needs[g] : ~Resolved(f, g, F)}
RemInv(F, rem) ==
    /\ rem \in [Flow -> Nat]
    /\ \A g \in Flow : Created(g) => rem[g] = Cardinality(Unresolved(g, F))
    /\ \A g \in Flow : HasRun(g) => rem[g] = 0

RunningFg(F) == {f \in Flow \ InBackground : HasRun(f) /\ ~Finished(f, F)}
FgInv(F) == m_fg_running = Cardinality(RunningFg(F))

ReportedChains(p, F) == {c \in DOMAIN Chains[p] : Reported(Last(Chains[p][c]), F)}
ChainsInv(F) ==
    \A p \in Phases :
        /\ m_completed_chains[p] = Cardinality(ReportedChains(p, F))
        /\ m_completed[p] => ReportedChains(p, F) = DOMAIN Chains[p]

\* Start events are in the order of the file, those of children behind.
EventsInv(evs) ==
    /\ evs \in Seq([flow: Flow, time: Nat])
    /\ \A i \in DOMAIN evs :
          /\ Created(evs[i].flow) /\ ~HasRun(evs[i].flow)
          /\ evs[i].time >= now
          /\ evs[i].flow \in ListedFlow => evs[i].time = StartTime[evs[i].flow]
          /\ evs[i].flow \in Children => evs[i].time = now
    /\ \A i, j \in DOMAIN evs : evs[i].flow = evs[j].flow => i = j
    /\ \A i, j \in DOMAIN evs, a, b \in DOMAIN Listed :
          evs[i].flow = Listed[a] /\ evs[j].flow = Listed[b] /\ i < j => a < b

\* No flow resolves one whose start event is due.
NestInv(evs, F) ==
    \A i \in DOMAIN evs, x \in F :
        /\ evs[i].flow \in ListedFlow /\ evs[i].time = now
              => x.flow \in Immediate /\ Dependencies[evs[i].flow] \intersect Immediate = {}
        /\ \A p \in Phases : evs[i].flow \in ChildrenOf(p) => x.flow \notin ChildrenOf(p)

\* A flow that has not run has a start event or a dependency; `f` is about to run.
WaitInv(evs, rem, f) ==
    /\ \A g \in Flow \ f : Created(g) /\ ~HasRun(g) /\ ~Pending(g, evs) => rem[g] > 0
    /\ \A g \in ListedFlow : now < StartTime[g] => Pending(g, evs)

CoreInv(evs, stk, rem, f) ==
    /\ CallbacksInv /\ RunsInv /\ GraphInv
    /\ StackInv(stk)
    /\ RemInv(Frames(stk), rem)
    /\ EventsInv(evs)
    /\ NestInv(evs, Frames(stk))
    /\ WaitInv(evs, rem, f)

Inv(evs, stk, rem, f) ==
    /\ VarTypes
    /\ CoreInv(evs, stk, rem, f)
    /\ FgInv(Frames(stk))
    /\ ChainsInv(Frames(stk))

FlowInv == Inv(events, stack, m_rem_dependencies, {})

-----------------------------------------------------------------------------
(* The flows.                                                              *)

LEMMA ListedOrChild ==
    /\ Flow = ListedFlow \union Children /\ ListedFlow \intersect Children = {}
    /\ Phases \subseteq ListedFlow
    /\ \A p \in Phases : ChildrenOf(p) \subseteq Children
    /\ \A f \in Children : \E p \in Phases : f \in ChildrenOf(p)
BY FlowAssumption DEF Flow, Children

\* A child is at one place of one chain.
LEMMA ChildFacts ==
    /\ \A p, r \in Phases : \A f : f \in ChildrenOf(p) /\ f \in ChildrenOf(r) => p = r
    /\ \A p \in Phases : \A c \in DOMAIN Chains[p] : Last(Chains[p][c]) \in ChildrenOf(p)
    /\ \A p, r \in Phases : \A c \in DOMAIN Chains[p], d \in DOMAIN Chains[r] :
          Last(Chains[p][c]) = Last(Chains[r][d]) => p = r /\ c = d
<1>1. \A p \in Phases : \A c \in DOMAIN Chains[p] :
         /\ Chains[p][c] \in Seq(Children)
         /\ Len(Chains[p][c]) \in DOMAIN Chains[p][c]
  <2> TAKE p \in Phases
  <2>1. Chains[p] \in Seq(Seq(Children) \ {<< >>})
    BY ChainsAssumption
  <2> TAKE c \in DOMAIN Chains[p]
  <2>2. Chains[p][c] \in Seq(Children) /\ Chains[p][c] # << >>
    BY <2>1
  <2>3. QED
    BY <2>2
<1>2. ASSUME NEW p \in Phases, NEW r \in Phases, NEW f, f \in ChildrenOf(p), f \in ChildrenOf(r)
      PROVE  p = r
  <2>1. PICK c \in DOMAIN Chains[p] : \E i \in DOMAIN Chains[p][c] : f = Chains[p][c][i]
    BY <1>2 DEF ChildrenOf, Range
  <2>2. PICK d \in DOMAIN Chains[r] : \E i \in DOMAIN Chains[r][d] : f = Chains[r][d][i]
    BY <1>2 DEF ChildrenOf, Range
  <2>3. PICK i \in DOMAIN Chains[p][c] : f = Chains[p][c][i]
    BY <2>1
  <2>4. PICK j \in DOMAIN Chains[r][d] : f = Chains[r][d][j]
    BY <2>2
  <2>5. Chains[p][c][i] = Chains[r][d][j]
    BY <2>3, <2>4
  <2>6. QED
    BY <2>5, ChainsAssumption
<1>3. \A p \in Phases : \A c \in DOMAIN Chains[p] : Last(Chains[p][c]) \in ChildrenOf(p)
  BY <1>1 DEF Last, ChildrenOf, Range
<1>4. ASSUME NEW p \in Phases, NEW r \in Phases,
             NEW c \in DOMAIN Chains[p], NEW d \in DOMAIN Chains[r],
             Last(Chains[p][c]) = Last(Chains[r][d])
      PROVE  p = r /\ c = d
  BY <1>1, <1>4, ChainsAssumption DEF Last
<1>5. QED
  BY <1>2, <1>3, <1>4

LEMMA NeedsFacts ==
    ASSUME NEW g \in Flow
    PROVE  /\ Needs[g] \subseteq Flow /\ IsFiniteSet(Needs[g])
           /\ g \in ListedFlow => Needs[g] = Dependencies[g]
           /\ g \in Children => Needs[g] = Predecessors(g)
           /\ \A f \in Predecessors(g) : \E p \in Phases : f \in ChildrenOf(p) /\ g \in ChildrenOf(p)
<1>1. \A f \in Predecessors(g) : \E p \in Phases : f \in ChildrenOf(p) /\ g \in ChildrenOf(p)
  <2> TAKE f \in Predecessors(g)
  <2>1. PICK p \in Phases : \E c \in DOMAIN Chains[p] :
           \E i \in 2 .. Len(Chains[p][c]) : g = Chains[p][c][i] /\ f = Chains[p][c][i - 1]
    BY DEF Predecessors
  <2>2. PICK c \in DOMAIN Chains[p] :
           \E i \in 2 .. Len(Chains[p][c]) : g = Chains[p][c][i] /\ f = Chains[p][c][i - 1]
    BY <2>1
  <2>3. PICK i \in 2 .. Len(Chains[p][c]) : g = Chains[p][c][i] /\ f = Chains[p][c][i - 1]
    BY <2>2
  <2>4. Chains[p][c] \in Seq(Children)
    <3>1. Chains[p] \in Seq(Seq(Children) \ {<< >>})
      BY ChainsAssumption
    <3>2. QED
      BY <3>1
  <2>5. i \in DOMAIN Chains[p][c] /\ i - 1 \in DOMAIN Chains[p][c]
    BY <2>4
  <2>6. QED
    BY <2>3, <2>5 DEF ChildrenOf, Range
<1>2. g \in ListedFlow => Needs[g] = Dependencies[g]
  BY DEF Needs
<1>3. g \in Children => Needs[g] = Predecessors(g)
  BY ListedOrChild DEF Needs
<1>4. Needs[g] \subseteq Flow
  <2>1. Predecessors(g) \subseteq Flow
    BY ListedOrChild DEF Predecessors
  <2>2. g \in ListedFlow => Dependencies[g] \subseteq Flow
    BY ListedOrChild, FlowAssumption
  <2>3. QED
    BY <1>2, <1>3, <2>1, <2>2, ListedOrChild
<1>5. IsFiniteSet(Needs[g])
  BY <1>4, FlowAssumption, FS_Subset
<1>6. QED
  BY <1>1, <1>2, <1>3, <1>4, <1>5

LEMMA SimpleFacts ==
    /\ \A f \in Simple : f \in Flow /\ f \notin Phases /\ Writes[f] \in Nat \ {0}
    /\ \A f \in Immediate : f \in Simple /\ Writes[f] = 1
    /\ Children \subseteq Simple
    /\ Phases \subseteq Flow
BY FlowAssumption, ListedOrChild DEF Simple

\* A list of callbacks shows whether its flow has run.
Ran(cb) == \E k \in DOMAIN cb : cb[k] = "OnFlowFinish"

LEMMA RanMeans ==
    ASSUME NEW cb \in Callbacks
    PROVE  Ran(cb) <=> cb \in {<<"OnFlowFinish">>, <<"OnChainComplete", "OnFlowFinish">>}
BY DEF Callbacks, Ran

LEMMA NextCallback ==
    ASSUME NEW cb \in Callbacks \ {<<"OnChainComplete">>}, cb # << >>
    PROVE  /\ Head(cb) = "OnFlowFinish" => cb = <<"OnFlowFinish">> /\ Tail(cb) = << >>
           /\ Head(cb) = "OnChainComplete"
                 => /\ cb = <<"OnChainComplete", "OnFlowFinish">>
                    /\ Tail(cb) = <<"OnFlowFinish">>
<1>1. CASE cb = <<"OnFlowFinish">>
  BY <1>1
<1>2. CASE cb = <<"OnChainComplete", "OnFlowFinish">>
  <2>1. Head(cb) = "OnChainComplete"
    BY <1>2
  <2>2. Tail(cb) = <<"OnFlowFinish">>
    BY <1>2
  <2>3. QED
    BY <1>2, <2>1, <2>2
<1>3. QED
  BY <1>1, <1>2 DEF Callbacks

LEMMA AppendTo ==
    ASSUME NEW x, NEW y
    PROVE  Append(<< >>, y) = <<y>> /\ Append(<<x>>, y) = <<x, y>>
<1>1. Append(<< >>, y) = <<y>>
  OBVIOUS
<1>2. <<x>> \in Seq({x, y}) /\ y \in {x, y} /\ Len(<<x>>) = 1
  OBVIOUS
<1>3. /\ Append(<<x>>, y) \in Seq({x, y}) /\ Len(Append(<<x>>, y)) = 2
      /\ Append(<<x>>, y)[1] = x /\ Append(<<x>>, y)[2] = y
  BY <1>2
<1>4. PICK s, t : s = Append(<<x>>, y) /\ t = <<x, y>>
  OBVIOUS
<1>5. \A r \in Seq({x, y}) : Len(r) = 2 => r \in [1 .. 2 -> {x, y}]
  OBVIOUS
<1>6. Append(<<x>>, y) \in [1 .. 2 -> {x, y}]
  BY <1>3, <1>5
<1>7. s \in [1 .. 2 -> {x, y}] /\ s[1] = x /\ s[2] = y
  BY <1>3, <1>4, <1>6
<1>8. t \in [1 .. 2 -> {x, y}] /\ t[1] = x /\ t[2] = y
  BY <1>4
<1>9. \A i \in 1 .. 2 : s[i] = t[i]
  BY <1>7, <1>8
<1>10. s = t
  BY <1>7, <1>8, <1>9
<1>11. QED
  BY <1>1, <1>4, <1>10

-----------------------------------------------------------------------------
(* The events.                                                             *)

LEMMA ElementTypes ==
    ASSUME NEW S, NEW s \in Seq(S)
    PROVE  Len(s) \in Nat /\ DOMAIN s = 1 .. Len(s) /\ \A i \in DOMAIN s : s[i] \in S
OBVIOUS

LEMMA IsSequence ==
    ASSUME NEW S, NEW n \in Nat, NEW s \in [1 .. n -> S]
    PROVE  s \in Seq(S) /\ Len(s) = n
OBVIOUS

LEMMA ConcatFacts ==
    ASSUME NEW S, NEW s \in Seq(S), NEW t \in Seq(S)
    PROVE  /\ s \o t \in Seq(S)
           /\ DOMAIN (s \o t) = 1 .. Len(s) + Len(t)
           /\ \A i \in 1 .. Len(s) : (s \o t)[i] = s[i]
           /\ \A i \in 1 .. Len(t) : (s \o t)[Len(s) + i] = t[i]
OBVIOUS

LEMMA EventTypes ==
    ASSUME NEW evs, EventsInv(evs)
    PROVE  /\ Len(evs) \in Nat /\ DOMAIN evs = 1 .. Len(evs)
           /\ \A i \in DOMAIN evs : evs[i].flow \in Flow /\ evs[i].time \in Nat
<1>1. evs \in Seq([flow: Flow, time: Nat])
  BY DEF EventsInv
<1>2. \A e \in [flow: Flow, time: Nat] : e.flow \in Flow /\ e.time \in Nat
  OBVIOUS
<1>3. /\ Len(evs) \in Nat /\ DOMAIN evs = 1 .. Len(evs)
      /\ \A i \in DOMAIN evs : evs[i] \in [flow: Flow, time: Nat]
  BY <1>1, ElementTypes
<1>4. QED
  BY <1>2, <1>3

-----------------------------------------------------------------------------
(* The stack.                                                              *)

LEMMA FrameFacts ==
    ASSUME NEW x \in Frame
    PROVE  /\ x.flow \in Flow
           /\ \/ x.call = "NotifyComplete" /\ x.left \in Callbacks \ {<<"OnChainComplete">>}
              \/ x.call = "OnFlowFinish" /\ x.left \in SUBSET Flow
           /\ x = [call |-> x.call, flow |-> x.flow, left |-> x.left]
BY DEF Frame

LEMMA PushFrame ==
    ASSUME NEW x \in Frame, NEW rest \in Seq(Frame)
    PROVE  /\ <<x>> \o rest \in Seq(Frame) /\ <<x>> \o rest # << >>
           /\ Frames(<<x>> \o rest) = {x} \union Frames(rest)
           /\ Head(<<x>> \o rest) = x /\ Tail(<<x>> \o rest) = rest
           /\ DistinctCalls(<<x>> \o rest) <=>
                 /\ DistinctCalls(rest)
                 /\ \A y \in Frames(rest) : ~(y.call = x.call /\ y.flow = x.flow)
<1> DEFINE s == <<x>> \o rest
           n == Len(rest)
<1>1. /\ s \in Seq(Frame) /\ Len(s) = n + 1 /\ n \in Nat
      /\ DOMAIN s = 1 .. n + 1 /\ DOMAIN rest = 1 .. n
      /\ s[1] = x /\ \A k \in 1 .. n : s[k + 1] = rest[k]
      /\ s # << >>
  OBVIOUS
<1>2. Head(s) = x /\ Tail(s) = rest
  OBVIOUS
<1> HIDE DEF s, n
<1>3. \A k \in 2 .. n + 1 : k - 1 \in 1 .. n /\ s[k] = rest[k - 1]
  <2> TAKE k \in 2 .. n + 1
  <2>1. k - 1 \in 1 .. n /\ (k - 1) + 1 = k
    BY <1>1
  <2>2. QED
    BY <1>1, <2>1
<1>4. Frames(s) = {x} \union Frames(rest)
  <2>1. \A y \in Frames(s) : y \in {x} \union Frames(rest)
    <3> TAKE y \in Frames(s)
    <3>1. PICK k \in DOMAIN s : y = s[k]
      BY DEF Frames
    <3>2. CASE k = 1
      BY <1>1, <3>1, <3>2
    <3>3. CASE k # 1
      <4>1. k \in 2 .. n + 1
        BY <1>1, <3>3
      <4>2. QED
        BY <1>1, <1>3, <3>1, <4>1 DEF Frames
    <3>4. QED
      BY <3>2, <3>3
  <2>2. \A y \in {x} \union Frames(rest) : y \in Frames(s)
    <3>1. x \in Frames(s)
      BY <1>1 DEF Frames
    <3>2. \A k \in DOMAIN rest : rest[k] \in Frames(s)
      <4> TAKE k \in DOMAIN rest
      <4>1. k + 1 \in DOMAIN s /\ s[k + 1] = rest[k]
        BY <1>1
      <4>2. QED
        BY <4>1 DEF Frames
    <3>3. QED
      BY <3>1, <3>2 DEF Frames
  <2>3. QED
    BY <2>1, <2>2
<1> DEFINE Same(y, z) == y.call = z.call /\ y.flow = z.flow
<1>5. DistinctCalls(s) => DistinctCalls(rest) /\ \A y \in Frames(rest) : ~Same(y, x)
  <2> HAVE DistinctCalls(s)
  <2>1. ASSUME NEW i \in DOMAIN rest, NEW j \in DOMAIN rest, Same(rest[i], rest[j])
        PROVE  i = j
    <3>1. /\ i + 1 \in DOMAIN s /\ j + 1 \in DOMAIN s
          /\ s[i + 1] = rest[i] /\ s[j + 1] = rest[j]
      BY <1>1
    <3>2. i + 1 = j + 1
      BY <2>1, <3>1 DEF DistinctCalls
    <3>3. QED
      BY <1>1, <3>2
  <2>2. ASSUME NEW i \in DOMAIN rest, Same(rest[i], x)
        PROVE  FALSE
    <3>1. i + 1 \in DOMAIN s /\ s[i + 1] = rest[i] /\ 1 \in DOMAIN s /\ i + 1 # 1
      BY <1>1
    <3>2. QED
      BY <1>1, <2>2, <3>1 DEF DistinctCalls
  <2>3. QED
    BY <2>1, <2>2 DEF DistinctCalls, Frames
<1>6. DistinctCalls(rest) /\ (\A y \in Frames(rest) : ~Same(y, x)) => DistinctCalls(s)
  <2> HAVE DistinctCalls(rest) /\ \A y \in Frames(rest) : ~Same(y, x)
  <2>1. ASSUME NEW i \in DOMAIN s, NEW j \in DOMAIN s, Same(s[i], s[j])
        PROVE  i = j
    <3>1. CASE i = 1 /\ j = 1
      BY <3>1
    <3>2. CASE i = 1 /\ j # 1
      <4>1. j \in 2 .. n + 1
        BY <1>1, <3>2
      <4>2. s[j] \in Frames(rest)
        BY <1>1, <1>3, <4>1 DEF Frames
      <4>3. QED
        BY <1>1, <2>1, <3>2, <4>2
    <3>3. CASE i # 1 /\ j = 1
      <4>1. i \in 2 .. n + 1
        BY <1>1, <3>3
      <4>2. s[i] \in Frames(rest)
        BY <1>1, <1>3, <4>1 DEF Frames
      <4>3. QED
        BY <1>1, <2>1, <3>3, <4>2
    <3>4. CASE i # 1 /\ j # 1
      <4>1. i \in 2 .. n + 1 /\ j \in 2 .. n + 1
        BY <1>1, <3>4
      <4>2. /\ i - 1 \in DOMAIN rest /\ s[i] = rest[i - 1]
            /\ j - 1 \in DOMAIN rest /\ s[j] = rest[j - 1]
        BY <1>1, <1>3, <4>1
      <4>3. Same(rest[i - 1], rest[j - 1])
        BY <2>1, <4>2
      <4>4. i - 1 = j - 1
        BY <4>2, <4>3 DEF DistinctCalls
      <4>5. QED
        BY <1>1, <4>1, <4>4
    <3>5. QED
      BY <3>1, <3>2, <3>3, <3>4
  <2>2. QED
    BY <2>1 DEF DistinctCalls
<1>7. QED
  BY <1>1, <1>2, <1>4, <1>5, <1>6 DEF s

\* The top of the stack and what is under it.
LEMMA TopFrame ==
    ASSUME NEW stk \in Seq(Frame), stk # << >>
    PROVE  /\ Head(stk) \in Frame /\ Tail(stk) \in Seq(Frame)
           /\ stk = <<Head(stk)>> \o Tail(stk)
           /\ Frames(stk) = {Head(stk)} \union Frames(Tail(stk))
           /\ DistinctCalls(stk) =>
                 /\ DistinctCalls(Tail(stk))
                 /\ \A y \in Frames(Tail(stk)) :
                       ~(y.call = Head(stk).call /\ y.flow = Head(stk).flow)
<1>1. Head(stk) \in Frame /\ Tail(stk) \in Seq(Frame)
  OBVIOUS
<1>2. stk = <<Head(stk)>> \o Tail(stk)
  OBVIOUS
<1> DEFINE x == Head(stk)
           rest == Tail(stk)
<1> HIDE DEF x, rest
<1>3. x \in Frame /\ rest \in Seq(Frame) /\ stk = <<x>> \o rest
  BY <1>1, <1>2 DEF x, rest
<1>4. /\ Frames(stk) = {x} \union Frames(rest)
      /\ DistinctCalls(stk) =>
            /\ DistinctCalls(rest)
            /\ \A y \in Frames(rest) : ~(y.call = x.call /\ y.flow = x.flow)
  BY <1>3, PushFrame
<1>5. QED
  BY <1>1, <1>2, <1>4 DEF x, rest

-----------------------------------------------------------------------------
(* Steps that change the events, the stack and the dependencies only.      *)

LEMMA KeepInv ==
    ASSUME NEW evs, NEW stk, NEW rem, CoreInv(evs, stk, rem, {}),
           VarTypes', FgInv(Frames(stk))', ChainsInv(Frames(stk))',
           UNCHANGED <<now, m_dependencies, m_on_complete, m_completed>>,
           writes' = writes \/ RunsInv',
           events' = evs, stack' = stk, m_rem_dependencies' = rem
    PROVE  FlowInv'
<1> DEFINE F == Frames(stk)
<1>1. \A f : (HasRun(f)' <=> HasRun(f)) /\ (Created(f)' <=> Created(f))
  BY DEF HasRun, Created
<1>2. \A f, g : Resolved(f, g, F)' <=> Resolved(f, g, F)
  BY DEF Finished, Resolved
<1>3. CallbacksInv' /\ RunsInv' /\ GraphInv'
  BY <1>1 DEF CoreInv, CallbacksInv, RunsInv, GraphInv
<1>4. StackInv(stk)'
  BY DEF CoreInv, StackInv, FrameInv
<1>5. RemInv(F, rem)'
  <2>1. \A g : Unresolved(g, F)' = Unresolved(g, F)
    BY <1>2 DEF Unresolved
  <2>2. QED
    BY <1>1, <2>1 DEF CoreInv, RemInv
<1>6. EventsInv(evs)' /\ NestInv(evs, F)' /\ WaitInv(evs, rem, {})'
  BY <1>1 DEF CoreInv, EventsInv, NestInv, WaitInv
<1>7. QED
  BY <1>3, <1>4, <1>5, <1>6 DEF FlowInv, Inv, CoreInv

\* The counters and the flows are unchanged.
LEMMA KeepCounts ==
    ASSUME NEW F, UNCHANGED <<m_fg_running, flow_vars>>
    PROVE  (FgInv(F) => FgInv(F)') /\ (ChainsInv(F) => ChainsInv(F)')
<1>1. UNCHANGED <<m_on_complete, m_completed, m_completed_chains, m_fg_running>>
  BY DEF flow_vars
<1>2. \A f : HasRun(f)' <=> HasRun(f)
  BY <1>1 DEF HasRun
<1>3. \A f : (Finished(f, F)' <=> Finished(f, F)) /\ (Reported(f, F)' <=> Reported(f, F))
  BY <1>1 DEF Finished, Reported
<1>4. RunningFg(F)' = RunningFg(F)
  BY <1>2, <1>3 DEF RunningFg
<1>5. \A p : ReportedChains(p, F)' = ReportedChains(p, F)
  BY <1>3 DEF ReportedChains
<1>6. QED
  BY <1>1, <1>4, <1>5 DEF FgInv, ChainsInv

\* Frames that leave the same to do for the flows that depend on a flow.
LEMMA SameDuties ==
    ASSUME NEW evs, NEW stk, NEW rem, NEW f, CoreInv(evs, stk, rem, f),
           NEW new, StackInv(new),
           \A x \in Frames(new) : \E y \in Frames(stk) : y.flow = x.flow,
           \A g : /\ ToFinish(g, Frames(new)) <=> ToFinish(g, Frames(stk))
                  /\ \A h : ToResolve(g, h, Frames(new)) <=> ToResolve(g, h, Frames(stk))
    PROVE  CoreInv(evs, new, rem, f)
<1> DEFINE F == Frames(stk)
           G == Frames(new)
<1>1. \A g, h : Resolved(g, h, G) <=> Resolved(g, h, F)
  BY DEF Finished, Resolved
<1> HIDE DEF F, G
<1>2. RemInv(G, rem)
  <2>1. \A g : Unresolved(g, G) = Unresolved(g, F)
    BY <1>1 DEF Unresolved
  <2>2. RemInv(F, rem)
    BY DEF CoreInv, F
  <2>3. QED
    BY <2>1, <2>2 DEF RemInv
<1>3. NestInv(evs, G)
  <2>1. NestInv(evs, F)
    BY DEF CoreInv, F
  <2>2. \A x \in G : \E y \in F : y.flow = x.flow
    BY DEF F, G
  <2>3. QED
    BY <2>1, <2>2 DEF NestInv
<1>4. QED
  BY <1>2, <1>3 DEF CoreInv, G

\* Frames that leave the same to do leave the same counted.
LEMMA SameCounts ==
    ASSUME NEW F, NEW G
    PROVE  /\ (\A g : ToFinish(g, G) <=> ToFinish(g, F)) => RunningFg(G) = RunningFg(F)
           /\ (\A g : ToReport(g, G) <=> ToReport(g, F))
                 => \A p : ReportedChains(p, G) = ReportedChains(p, F)
BY DEF RunningFg, Finished, ReportedChains, Reported

\* The top frame is done.
LEMMA PopInv ==
    ASSUME FlowInv, stack # << >>, VarTypes',
           \/ Top.call = "NotifyComplete" /\ Top.left = << >>
           \/ Top.call = "OnFlowFinish" /\ Top.left = {},
           stack' = Tail(stack),
           UNCHANGED <<now, events, graph_vars, m_fg_running, flow_vars>>
    PROVE  FlowInv'
<1>0. PICK x, rest, F, G : /\ x = Top /\ rest = Tail(stack)
                            /\ F = Frames(stack) /\ G = Frames(Tail(stack))
  OBVIOUS
<1>1. StackInv(stack)
  BY DEF FlowInv, Inv, CoreInv
<1>2. /\ x \in Frame /\ rest \in Seq(Frame)
      /\ F = {x} \union G /\ DistinctCalls(rest)
  BY <1>0, <1>1, TopFrame DEF StackInv, Top
<1>3. \A g : /\ ToFinish(g, G) <=> ToFinish(g, F)
             /\ ToReport(g, G) <=> ToReport(g, F)
             /\ \A h : ToResolve(g, h, G) <=> ToResolve(g, h, F)
  <2>1. CASE x.call = "NotifyComplete" /\ x.left = << >>
    <3>1. x.left # <<"OnChainComplete", "OnFlowFinish">>
      BY <2>1
    <3>2. QED
      BY <1>2, <2>1, <3>1 DEF ToFinish, ToReport, ToResolve
  <2>2. CASE x.call = "OnFlowFinish" /\ x.left = {}
    BY <1>2, <2>2 DEF ToFinish, ToReport, ToResolve
  <2>3. QED
    BY <1>0, <2>1, <2>2
<1>4. StackInv(rest)
  BY <1>0, <1>1, <1>2, <1>3 DEF StackInv, FrameInv
<1>5. CoreInv(events, rest, m_rem_dependencies, {})
  <2>1. CoreInv(events, stack, m_rem_dependencies, {})
    BY DEF FlowInv, Inv
  <2>2. \A y \in Frames(rest) : \E z \in Frames(stack) : z.flow = y.flow
    BY <1>0, <1>2
  <2>3. QED
    BY <1>0, <1>3, <1>4, <2>1, <2>2, SameDuties
<1>6. FgInv(G)' /\ ChainsInv(G)'
  <2>1. FgInv(F) /\ ChainsInv(F)
    BY <1>0 DEF FlowInv, Inv
  <2>2. FgInv(G) /\ ChainsInv(G)
    BY <1>3, <2>1, SameCounts DEF FgInv, ChainsInv
  <2>3. UNCHANGED <<m_fg_running, flow_vars>>
    OBVIOUS
  <2>4. QED
    BY <2>2, <2>3, KeepCounts
<1>7. /\ UNCHANGED <<now, m_dependencies, m_on_complete, m_completed, writes>>
      /\ events' = events /\ stack' = rest /\ m_rem_dependencies' = m_rem_dependencies
      /\ FgInv(Frames(rest))' /\ ChainsInv(Frames(rest))'
  BY <1>0, <1>6 DEF graph_vars, flow_vars
<1>8. QED
  BY <1>5, <1>7, KeepInv

\* The count of running flows has been compared with 0.
LEMMA FirstCheckInv ==
    ASSUME FlowInv, FirstCheck
    PROVE  FlowInv'
<1>1. /\ UNCHANGED <<now, events, stack, graph_vars, m_fg_running, flow_vars, aborted>>
      /\ checked' \in BOOLEAN /\ stopped' \in BOOLEAN
  BY DEF FirstCheck
<1>2. /\ Inv(events, stack, m_rem_dependencies, {})
      /\ VarTypes /\ CoreInv(events, stack, m_rem_dependencies, {})
      /\ FgInv(Frames(stack)) /\ ChainsInv(Frames(stack))
  BY DEF FlowInv, Inv
<1>3. VarTypes'
  BY <1>1, <1>2 DEF VarTypes, graph_vars, flow_vars
<1>4. PICK F, stk : stk = stack /\ F = Frames(stk)
  OBVIOUS
<1>5. FgInv(F)' /\ ChainsInv(F)'
  BY <1>1, <1>2, <1>4, KeepCounts
<1>6. /\ UNCHANGED <<now, m_dependencies, m_on_complete, m_completed, writes>>
      /\ events' = events /\ stack' = stk /\ m_rem_dependencies' = m_rem_dependencies
      /\ FgInv(Frames(stk))' /\ ChainsInv(Frames(stk))'
      /\ CoreInv(events, stk, m_rem_dependencies, {})
  BY <1>1, <1>2, <1>4, <1>5 DEF graph_vars, flow_vars
<1>7. QED
  BY <1>3, <1>6, KeepInv

\* Time passes when no event is due.
LEMMA TickInv ==
    ASSUME FlowInv, Tick
    PROVE  FlowInv'
<1>1. /\ UNCHANGED <<events, checked, stack, graph_vars, m_fg_running, flow_vars, stopped, aborted>>
      /\ now' = now + 1 /\ now < MaxTime /\ stack = << >>
      /\ \A i \in DOMAIN events : events[i].time # now
  BY DEF Tick, Idle, Due
<1>2. /\ UNCHANGED <<m_dependencies, m_rem_dependencies, m_on_complete, m_completed,
                     m_completed_chains, writes>>
      /\ UNCHANGED <<events, stack>>
  BY <1>1 DEF graph_vars, flow_vars
<1>3. /\ VarTypes /\ CoreInv(events, stack, m_rem_dependencies, {})
      /\ FgInv(Frames(stack)) /\ ChainsInv(Frames(stack))
  BY DEF FlowInv, Inv
<1>4. VarTypes'
  <2>1. now' \in 0 .. MaxTime
    BY <1>1, <1>3, FlowAssumption DEF VarTypes
  <2>2. QED
    BY <1>1, <1>2, <1>3, <2>1 DEF VarTypes
<1>5. PICK evs, stk, rem, F :
         evs = events /\ stk = stack /\ rem = m_rem_dependencies /\ F = Frames(stack)
  OBVIOUS
<1>6. F = {}
  BY <1>1, <1>5 DEF Frames
<1>7. FgInv(F)' /\ ChainsInv(F)'
  BY <1>1, <1>3, <1>5, KeepCounts
<1>8. \A f : (HasRun(f)' <=> HasRun(f)) /\ (Created(f)' <=> Created(f))
  BY <1>2 DEF HasRun, Created
<1>9. CallbacksInv' /\ RunsInv' /\ GraphInv'
  BY <1>2, <1>3, <1>8 DEF CoreInv, CallbacksInv, RunsInv, GraphInv
<1>10. StackInv(stk)'
  BY <1>2, <1>3, <1>5 DEF CoreInv, StackInv, FrameInv
<1>11. RemInv(F, rem)'
  <2>1. \A f, g : Resolved(f, g, F)' <=> Resolved(f, g, F)
    BY <1>2 DEF Finished, Resolved
  <2>2. \A g : Unresolved(g, F)' = Unresolved(g, F)
    BY <2>1 DEF Unresolved
  <2>3. QED
    BY <1>3, <1>5, <1>8, <2>2 DEF CoreInv, RemInv
<1>12. EventsInv(evs)'
  <2>1. EventsInv(evs)
    BY <1>3, <1>5 DEF CoreInv
  <2>a. now \in Nat
    BY <1>3, FlowAssumption DEF VarTypes
  <2>2. \A i \in DOMAIN evs : evs[i].time \in Nat /\ evs[i].flow \in Flow
    BY <2>1, EventTypes
  <2>3. \A i \in DOMAIN evs : evs[i].time >= now /\ evs[i].time # now
    BY <1>1, <1>5, <2>1 DEF EventsInv
  <2>4. \A i \in DOMAIN evs : evs[i].time >= now' /\ evs[i].flow \notin Children
    BY <1>1, <2>1, <2>a, <2>2, <2>3 DEF EventsInv
  <2>5. QED
    BY <1>8, <2>1, <2>4 DEF EventsInv
<1>13. NestInv(evs, F)'
  BY <1>6 DEF NestInv
<1>14. WaitInv(evs, rem, {})'
  <2>1. WaitInv(evs, rem, {})
    BY <1>3, <1>5 DEF CoreInv
  <2>2. \A g \in ListedFlow : now' < StartTime[g] => now < StartTime[g]
    BY <1>1, <1>3, FlowAssumption DEF VarTypes
  <2>3. QED
    BY <1>8, <2>1, <2>2 DEF WaitInv, Pending
<1>15. evs = events' /\ stk = stack' /\ rem = m_rem_dependencies' /\ F = Frames(stk)
  BY <1>2, <1>5
<1>16. QED
  BY <1>4, <1>7, <1>9, <1>10, <1>11, <1>12, <1>13, <1>14, <1>15 DEF FlowInv, Inv, CoreInv

\* With the stack `new` instead of `stk`, f has finished and is to be resolved.
FinishingDuties(f, stk, new) ==
    /\ StackInv(new)
    /\ \A y \in Frames(new) : \E z \in Frames(stk) : z.flow = y.flow
    /\ ToFinish(f, Frames(stk))
    /\ \A g : ToFinish(g, Frames(new)) <=> g # f /\ ToFinish(g, Frames(stk))
    /\ \A g : ToReport(g, Frames(new)) <=> ToReport(g, Frames(stk))
    /\ \A g, h : ToResolve(g, h, Frames(new)) <=>
          ToResolve(g, h, Frames(stk)) \/ (g = f /\ h \in m_dependencies[g])

\* What OnFlowFinish puts in the place of the frame x of the flow f.
LEMMA FinishingFrames ==
    ASSUME NEW stk, NEW x, NEW rest, NEW new,
           StackInv(stk), stk # << >>, x = Head(stk), rest = Tail(stk),
           x.call = "NotifyComplete", x.left = <<"OnFlowFinish">>,
           m_dependencies \in [Flow -> SUBSET Flow],
           new = <<Finishing(x.flow)>> \o (<<Completing(x.flow, << >>)>> \o rest)
    PROVE  FinishingDuties(x.flow, stk, new)
<1> DEFINE f == x.flow
<1>1. stk \in Seq(Frame) /\ rest \in Seq(Frame)
  <2>1. stk \in Seq(Frame)
    BY DEF StackInv
  <2>2. QED
    BY <2>1, TopFrame
<1>2. /\ x \in Frame /\ f \in Flow
      /\ Frames(stk) = {x} \union Frames(rest) /\ DistinctCalls(rest)
      /\ \A y \in Frames(rest) : ~(y.call = x.call /\ y.flow = x.flow)
  <2>1. Head(stk) \in Frame
    BY <1>1, TopFrame
  <2>2. Frames(stk) = {Head(stk)} \union Frames(Tail(stk))
    BY <1>1, TopFrame
  <2>3. DistinctCalls(stk)
    BY DEF StackInv
  <2>4. /\ DistinctCalls(Tail(stk))
        /\ \A y \in Frames(Tail(stk)) : ~(y.call = Head(stk).call /\ y.flow = Head(stk).flow)
    BY <1>1, <2>3, TopFrame
  <2>5. QED
    BY <1>1, <2>1, <2>2, <2>4, FrameFacts
<1>3. PICK fin, ret : fin = Finishing(f) /\ ret = Completing(f, << >>)
  OBVIOUS
<1>4. /\ fin \in Frame /\ fin.call = "OnFlowFinish" /\ fin.flow = f
      /\ fin.left = m_dependencies[f]
  <2>1. m_dependencies[f] \in SUBSET Flow
    BY <1>2
  <2>2. QED
    BY <1>2, <1>3, <2>1 DEF Frame, Finishing
<1>5. /\ ret \in Frame /\ ret.call = "NotifyComplete" /\ ret.flow = f /\ ret.left = << >>
  <2>1. << >> \in Callbacks \ {<<"OnChainComplete">>}
    BY DEF Callbacks
  <2>2. QED
    BY <1>2, <1>3, <2>1 DEF Frame, Completing
<1>6. \A y \in Frames(stk) : FrameInv(y, Frames(stk))
  BY DEF StackInv
<1>7. ToFinish(f, Frames(stk))
  <2>1. x.left # << >>
    <3>1. <<"OnFlowFinish">> # << >>
      OBVIOUS
    <3>2. QED
      BY <3>1
  <2>2. QED
    BY <1>2, <2>1 DEF ToFinish
<1>8. \A y \in Frames(rest) : ~(y.call = "OnFlowFinish" /\ y.flow = f)
  BY <1>2, <1>6, <1>7 DEF FrameInv
<1>9. PICK mid : mid = <<ret>> \o rest
  OBVIOUS
<1>10. /\ mid \in Seq(Frame) /\ Frames(mid) = {ret} \union Frames(rest)
       /\ DistinctCalls(mid)
  <2>1. /\ <<ret>> \o rest \in Seq(Frame)
        /\ Frames(<<ret>> \o rest) = {ret} \union Frames(rest)
        /\ DistinctCalls(<<ret>> \o rest) <=>
              /\ DistinctCalls(rest)
              /\ \A y \in Frames(rest) : ~(y.call = ret.call /\ y.flow = ret.flow)
    BY <1>1, <1>5, PushFrame
  <2>2. \A y \in Frames(rest) : ~(y.call = ret.call /\ y.flow = ret.flow)
    BY <1>2, <1>5
  <2>3. QED
    BY <1>2, <1>9, <2>1, <2>2
<1>11. new = <<fin>> \o mid
  BY <1>3, <1>9
<1>12. \A y \in Frames(mid) : ~(y.call = fin.call /\ y.flow = fin.flow)
  BY <1>4, <1>5, <1>8, <1>10
<1>13. /\ new \in Seq(Frame) /\ Frames(new) = {fin, ret} \union Frames(rest)
       /\ DistinctCalls(new)
  <2>1. /\ <<fin>> \o mid \in Seq(Frame)
        /\ Frames(<<fin>> \o mid) = {fin} \union Frames(mid)
        /\ DistinctCalls(<<fin>> \o mid) <=>
              /\ DistinctCalls(mid)
              /\ \A y \in Frames(mid) : ~(y.call = fin.call /\ y.flow = fin.flow)
    BY <1>4, <1>10, PushFrame
  <2>2. QED
    BY <1>10, <1>11, <1>12, <2>1
<1>14. \A g : ToFinish(g, Frames(new)) <=> g # f /\ ToFinish(g, Frames(stk))
  BY <1>2, <1>4, <1>5, <1>13 DEF ToFinish
<1>15. \A g : ToReport(g, Frames(new)) <=> ToReport(g, Frames(stk))
  <2>1. /\ x.left # <<"OnChainComplete", "OnFlowFinish">>
        /\ ret.left # <<"OnChainComplete", "OnFlowFinish">>
    BY <1>5
  <2>2. QED
    BY <1>2, <1>4, <1>5, <1>13, <2>1 DEF ToReport
<1>16. \A g, h : ToResolve(g, h, Frames(new)) <=>
          ToResolve(g, h, Frames(stk)) \/ (g = f /\ h \in m_dependencies[g])
  BY <1>2, <1>4, <1>5, <1>13 DEF ToResolve
<1>17. \A y \in Frames(new) : FrameInv(y, Frames(new))
  <2>1. m_completed[f]
    BY <1>2, <1>6 DEF FrameInv
  <2>2. FrameInv(fin, Frames(new))
    BY <1>4, <1>14, <2>1 DEF FrameInv
  <2>3. FrameInv(ret, Frames(new))
    <3>1. ret.left # <<"OnChainComplete", "OnFlowFinish">>
      BY <1>5
    <3>2. QED
      BY <1>5, <2>1, <3>1 DEF FrameInv
  <2>4. \A y \in Frames(rest) : FrameInv(y, Frames(new))
    BY <1>2, <1>6, <1>14 DEF FrameInv
  <2>5. QED
    BY <1>13, <2>2, <2>3, <2>4
<1>18. \A y \in Frames(new) : \E z \in Frames(stk) : z.flow = y.flow
  BY <1>2, <1>4, <1>5, <1>13
<1>19. QED
  BY <1>7, <1>13, <1>14, <1>15, <1>16, <1>17, <1>18 DEF StackInv, FinishingDuties

\* The sets whose sizes are counted.
LEMMA CountedSets ==
    ASSUME NEW F
    PROVE  /\ IsFiniteSet(RunningFg(F)) /\ Cardinality(RunningFg(F)) \in Nat
           /\ \A g \in Flow : /\ IsFiniteSet(Unresolved(g, F))
                              /\ Cardinality(Unresolved(g, F)) \in Nat
           /\ \A p \in Phases : /\ ReportedChains(p, F) \subseteq DOMAIN Chains[p]
                                /\ IsFiniteSet(DOMAIN Chains[p])
                                /\ Cardinality(DOMAIN Chains[p]) = Len(Chains[p])
                                /\ Len(Chains[p]) \in Nat
<1>1. IsFiniteSet(RunningFg(F))
  <2>1. RunningFg(F) \subseteq Flow
    BY DEF RunningFg
  <2>2. QED
    BY <2>1, FlowAssumption, FS_Subset
<1>2. ASSUME NEW g \in Flow PROVE IsFiniteSet(Unresolved(g, F))
  <2>1. Unresolved(g, F) \subseteq Needs[g]
    BY DEF Unresolved
  <2>2. QED
    BY <2>1, NeedsFacts, FS_Subset
<1>3. ASSUME NEW p \in Phases
      PROVE  /\ ReportedChains(p, F) \subseteq DOMAIN Chains[p]
             /\ IsFiniteSet(DOMAIN Chains[p])
             /\ Cardinality(DOMAIN Chains[p]) = Len(Chains[p])
             /\ Len(Chains[p]) \in Nat
  <2>1. Chains[p] \in Seq(Seq(Children) \ {<< >>})
    BY ChainsAssumption
  <2>2. Len(Chains[p]) \in Nat /\ DOMAIN Chains[p] = 1 .. Len(Chains[p])
    BY <2>1, ElementTypes
  <2>3. QED
    BY <2>2, FS_Interval DEF ReportedChains
<1>4. QED
  BY <1>1, <1>2, <1>3, FS_CardinalityType

LEMMA OnFlowFinishInv ==
    ASSUME FlowInv, OnFlowFinish
    PROVE  FlowInv'
<1>1. /\ VarTypes /\ CoreInv(events, stack, m_rem_dependencies, {})
      /\ FgInv(Frames(stack)) /\ ChainsInv(Frames(stack)) /\ StackInv(stack)
      /\ CallbacksInv /\ RunsInv /\ GraphInv
  BY DEF FlowInv, Inv, CoreInv
<1>2. /\ stack # << >> /\ Top.call = "NotifyComplete" /\ Top.left # << >>
      /\ Head(Top.left) = "OnFlowFinish"
  BY DEF OnFlowFinish, Calls
<1>3. PICK x, rest, stk, new :
         /\ x = Top /\ rest = Tail(stack) /\ stk = stack
         /\ new = <<Finishing(x.flow)>> \o (<<Completing(x.flow, << >>)>> \o rest)
  OBVIOUS
<1>4. stk \in Seq(Frame) /\ stk # << >> /\ Head(stk) = x /\ Tail(stk) = rest
  BY <1>1, <1>2, <1>3 DEF StackInv, Top
<1>5. x \in Frame /\ rest \in Seq(Frame) /\ stk = <<x>> \o rest
  BY <1>4, TopFrame
<1>6. x.left = <<"OnFlowFinish">> /\ Tail(x.left) = << >>
  <2>1. x.left \in Callbacks \ {<<"OnChainComplete">>}
    BY <1>2, <1>3, <1>5, FrameFacts
  <2>2. QED
    BY <1>2, <1>3, <2>1, NextCallback
<1>7. PICK f, F, G : f = x.flow /\ F = Frames(stk) /\ G = Frames(new)
  OBVIOUS
<1>8. f \in Flow /\ m_completed[f] /\ HasRun(f)
  <2>1. x \in Frames(stk)
    BY <1>4, TopFrame
  <2>2. m_completed[f]
    BY <1>1, <1>3, <1>7, <2>1 DEF StackInv, FrameInv
  <2>3. f \in Flow
    BY <1>5, <1>7, FrameFacts
  <2>4. QED
    BY <1>1, <2>2, <2>3 DEF RunsInv
<1>9. /\ StackInv(new)
      /\ \A y \in G : \E z \in F : z.flow = y.flow
      /\ \A g : ToFinish(g, G) <=> g # f /\ ToFinish(g, F)
      /\ \A g : ToReport(g, G) <=> ToReport(g, F)
      /\ \A g, h : ToResolve(g, h, G) <=> ToResolve(g, h, F) \/ (g = f /\ h \in m_dependencies[g])
      /\ ToFinish(f, F)
  <2>1. m_dependencies \in [Flow -> SUBSET Flow]
    BY <1>1 DEF VarTypes
  <2>2. StackInv(stk)
    BY <1>1, <1>3
  <2>3. x.call = "NotifyComplete"
    BY <1>2, <1>3
  <2>a. stk # << >> /\ x = Head(stk) /\ rest = Tail(stk) /\ x.left = <<"OnFlowFinish">>
    BY <1>4, <1>6
  <2>b. new = <<Finishing(x.flow)>> \o (<<Completing(x.flow, << >>)>> \o rest)
    BY <1>3
  <2>4. FinishingDuties(x.flow, stk, new)
    BY <2>1, <2>2, <2>3, <2>a, <2>b, FinishingFrames
  <2>5. QED
    BY <1>7, <2>4 DEF FinishingDuties
<1>10. f \notin InBackground => f \in RunningFg(F)
  BY <1>8, <1>9 DEF RunningFg, Finished
<1>11. RunningFg(G) = RunningFg(F) \ {f}
  BY <1>8, <1>9 DEF RunningFg, Finished
<1>12. /\ m_fg_running \in Nat
       /\ f \notin InBackground =>
             m_fg_running # 0 /\ Cardinality(RunningFg(G)) = m_fg_running - 1
       /\ f \in InBackground => Cardinality(RunningFg(G)) = m_fg_running
  <2>1. m_fg_running \in Nat /\ m_fg_running = Cardinality(RunningFg(F))
    BY <1>1, <1>3, <1>7 DEF FgInv, VarTypes
  <2>2. f \in InBackground => RunningFg(G) = RunningFg(F)
    BY <1>11 DEF RunningFg
  <2>3. f \notin InBackground => Cardinality(RunningFg(F) \ {f}) = Cardinality(RunningFg(F)) - 1
    BY <1>10, CountedSets, FS_RemoveElement
  <2>4. f \notin InBackground => Cardinality(RunningFg(F)) # 0
    BY <1>10, CountedSets, FS_EmptySet
  <2>5. QED
    BY <1>11, <2>1, <2>2, <2>3, <2>4
<1>13. /\ m_fg_running' = IF f \notin InBackground THEN m_fg_running - 1 ELSE m_fg_running
       /\ stack' = new
       /\ aborted' = aborted
       /\ UNCHANGED <<now, events, checked, graph_vars, flow_vars, stopped>>
  <2>1. ~(IsForeground(Top.flow) /\ m_fg_running = 0)
    BY <1>3, <1>7, <1>12 DEF IsForeground
  <2>2. <<Finishing(Top.flow)>> \o Returned = new
    BY <1>3, <1>6 DEF Returned
  <2>3. /\ m_fg_running' = IF IsForeground(Top.flow) THEN m_fg_running - 1 ELSE m_fg_running
        /\ stack' = <<Finishing(Top.flow)>> \o Returned
        /\ UNCHANGED aborted
        /\ UNCHANGED <<now, events, checked, graph_vars, flow_vars, stopped>>
    BY <2>1 DEF OnFlowFinish
  <2>4. QED
    BY <1>3, <1>7, <2>2, <2>3 DEF IsForeground
<1>14. VarTypes'
  <2>1. m_fg_running' \in Nat
    BY <1>12, <1>13
  <2>2. QED
    BY <1>1, <1>13, <2>1 DEF VarTypes, graph_vars, flow_vars
<1>15. /\ UNCHANGED <<now, m_dependencies, m_on_complete, m_completed, writes>>
       /\ m_rem_dependencies' = m_rem_dependencies /\ events' = events
       /\ UNCHANGED m_completed_chains
  BY <1>13 DEF graph_vars, flow_vars
<1>16. FgInv(G)'
  <2>1. \A g : HasRun(g)' <=> HasRun(g)
    BY <1>15 DEF HasRun
  <2>2. RunningFg(G)' = RunningFg(G)
    BY <1>15, <2>1 DEF RunningFg, Finished
  <2>3. QED
    BY <1>12, <1>13, <2>2 DEF FgInv
<1>17. ChainsInv(G)'
  <2>1. \A p : ReportedChains(p, G)' = ReportedChains(p, F)
    BY <1>9, <1>15 DEF ReportedChains, Reported
  <2>2. ChainsInv(F)
    BY <1>1, <1>3, <1>7
  <2>3. QED
    BY <1>15, <2>1, <2>2 DEF ChainsInv
<1>18. CoreInv(events, new, m_rem_dependencies, {})
  <2>1. CoreInv(events, stk, m_rem_dependencies, {})
    BY <1>1, <1>3
  <2>2. ASSUME NEW h \in Flow, Created(h)
        PROVE  Unresolved(h, G) = Unresolved(h, F)
    <3>1. \A g \in Needs[h] : Resolved(g, h, G) <=> Resolved(g, h, F)
      <4> TAKE g \in Needs[h]
      <4>1. CASE g # f
        BY <1>9, <4>1 DEF Resolved, Finished
      <4>2. CASE g = f
        <5>1. h \in m_dependencies[f]
          BY <1>1, <1>8, <2>2, <4>2 DEF GraphInv
        <5>2. QED
          BY <1>9, <4>2, <5>1 DEF Resolved, Finished
      <4>3. QED
        BY <4>1, <4>2
    <3>2. QED
      BY <3>1 DEF Unresolved
  <2>3. RemInv(G, m_rem_dependencies)
    BY <1>7, <2>1, <2>2 DEF CoreInv, RemInv
  <2>4. NestInv(events, G)
    BY <1>7, <1>9, <2>1 DEF CoreInv, NestInv
  <2>5. QED
    BY <1>7, <1>9, <2>1, <2>3, <2>4 DEF CoreInv
<1>19. FgInv(Frames(new))' /\ ChainsInv(Frames(new))'
  BY <1>7, <1>16, <1>17
<1>20. QED
  BY <1>13, <1>14, <1>15, <1>18, <1>19, KeepInv

-----------------------------------------------------------------------------
(* NotifyComplete and OnChainComplete.                                     *)

\* The callbacks of a flow that has run.
RunCallbacks(f) ==
    IF IsLastOfChain(f) THEN <<"OnChainComplete", "OnFlowFinish">> ELSE <<"OnFlowFinish">>

LEMMA CallbacksOfRun ==
    ASSUME CallbacksInv, m_on_complete \in [Flow -> Callbacks], NEW f \in Flow, HasRun(f)
    PROVE  Created(f) /\ m_on_complete[f] = RunCallbacks(f)
<1>1. HasRun(f) <=> Ran(m_on_complete[f])
  BY DEF HasRun, Ran
<1>2. m_on_complete[f] \in {<<"OnFlowFinish">>, <<"OnChainComplete", "OnFlowFinish">>}
  BY <1>1, RanMeans
<1>3. m_on_complete[f] # << >>
  <2>1. <<"OnFlowFinish">> # << >> /\ <<"OnChainComplete", "OnFlowFinish">> # << >>
    OBVIOUS
  <2>2. QED
    BY <1>2, <2>1
<1>4. Created(f)
  BY <1>3 DEF CallbacksInv
<1>5. <<"OnChainComplete">> # <<"OnFlowFinish">>
      /\ <<"OnChainComplete">> # <<"OnChainComplete", "OnFlowFinish">>
      /\ <<"OnFlowFinish">> # <<"OnChainComplete", "OnFlowFinish">>
      /\ << >> # <<"OnFlowFinish">>
      /\ << >> # <<"OnChainComplete", "OnFlowFinish">>
  OBVIOUS
<1>6. QED
  BY <1>2, <1>4, <1>5 DEF CallbacksInv, RunCallbacks

\* With the stack `new`, the call of NotifyComplete for f is on top of `stk`.
CompletingDuties(f, stk, new) ==
    /\ StackInv(new)'
    /\ Frames(new) = {Completing(f, RunCallbacks(f))} \union Frames(stk)
    /\ \A g \in Flow : Finished(g, Frames(new))' <=> Finished(g, Frames(stk))
    /\ \A g, h \in Flow : Resolved(g, h, Frames(new))' <=> Resolved(g, h, Frames(stk))
    /\ \A p \in Phases : ReportedChains(p, Frames(new))' = ReportedChains(p, Frames(stk))

LEMMA CompletingFrames ==
    ASSUME NEW f \in Flow, NEW stk, NEW new, StackInv(stk),
           m_completed \in [Flow -> BOOLEAN], ~m_completed[f],
           m_completed' = [m_completed EXCEPT ![f] = TRUE],
           m_dependencies' = m_dependencies,
           new = <<Completing(f, RunCallbacks(f))>> \o stk
    PROVE  CompletingDuties(f, stk, new)
<1>1. PICK x, F, G : x = Completing(f, RunCallbacks(f)) /\ F = Frames(stk) /\ G = Frames(new)
  OBVIOUS
<1>2. stk \in Seq(Frame) /\ DistinctCalls(stk) /\ \A y \in F : FrameInv(y, F)
  BY <1>1 DEF StackInv
<1>3. /\ <<"OnFlowFinish">> # << >> /\ <<"OnChainComplete", "OnFlowFinish">> # << >>
      /\ <<"OnFlowFinish">> # <<"OnChainComplete", "OnFlowFinish">>
      /\ <<"OnFlowFinish">> # <<"OnChainComplete">>
      /\ <<"OnChainComplete", "OnFlowFinish">> # <<"OnChainComplete">>
  OBVIOUS
<1>4. /\ x \in Frame /\ x.call = "NotifyComplete" /\ x.flow = f
      /\ x.left = RunCallbacks(f) /\ x.left # << >>
      /\ x.left = <<"OnChainComplete", "OnFlowFinish">> <=> IsLastOfChain(f)
  <2>1. RunCallbacks(f) \in Callbacks \ {<<"OnChainComplete">>}
    BY <1>3 DEF RunCallbacks, Callbacks
  <2>2. x = [call |-> "NotifyComplete", flow |-> f, left |-> RunCallbacks(f)]
    BY <1>1 DEF Completing
  <2>3. x \in Frame
    BY <2>1, <2>2 DEF Frame
  <2>4. x.call = "NotifyComplete" /\ x.flow = f /\ x.left = RunCallbacks(f)
    BY <2>2
  <2>5. QED
    BY <1>3, <2>3, <2>4 DEF RunCallbacks
<1>5. \A y \in F : y.flow # f /\ m_completed[y.flow] /\ y.flow \in Flow
  <2>1. \A y \in F : y \in Frame
    BY <1>1, <1>2, ElementTypes DEF Frames
  <2>2. QED
    BY <1>2, <2>1, FrameFacts DEF FrameInv
<1>6. new \in Seq(Frame) /\ G = {x} \union F /\ DistinctCalls(new)
  <2>1. /\ <<x>> \o stk \in Seq(Frame)
        /\ Frames(<<x>> \o stk) = {x} \union Frames(stk)
        /\ DistinctCalls(<<x>> \o stk) <=>
              /\ DistinctCalls(stk)
              /\ \A y \in Frames(stk) : ~(y.call = x.call /\ y.flow = x.flow)
    BY <1>2, <1>4, PushFrame
  <2>2. QED
    BY <1>1, <1>2, <1>4, <1>5, <2>1
<1>7. /\ \A g : ToFinish(g, G) <=> g = f \/ ToFinish(g, F)
      /\ \A g : ToReport(g, G) <=> (g = f /\ IsLastOfChain(f)) \/ ToReport(g, F)
      /\ \A g, h : ToResolve(g, h, G) <=> ToResolve(g, h, F)
  BY <1>4, <1>6 DEF ToFinish, ToReport, ToResolve
<1>8. \A g \in Flow : m_completed'[g] <=> g = f \/ m_completed[g]
  OBVIOUS
<1>9. \A g \in Flow : Finished(g, G)' <=> Finished(g, F)
  BY <1>7, <1>8 DEF Finished
<1>10. \A g, h \in Flow : Resolved(g, h, G)' <=> Resolved(g, h, F)
  BY <1>7, <1>9 DEF Resolved
<1>11. \A p \in Phases : ReportedChains(p, G)' = ReportedChains(p, F)
  <2>1. \A g \in Flow : (g = f => IsLastOfChain(f)) => (Reported(g, G)' <=> Reported(g, F))
    BY <1>7, <1>8 DEF Reported
  <2>2. \A p \in Phases : \A c \in DOMAIN Chains[p] :
           Last(Chains[p][c]) \in Flow /\ IsLastOfChain(Last(Chains[p][c]))
    BY ChildFacts, ListedOrChild DEF IsLastOfChain
  <2>3. \A p \in Phases : \A c \in DOMAIN Chains[p] :
           Reported(Last(Chains[p][c]), G)' <=> Reported(Last(Chains[p][c]), F)
    BY <2>1, <2>2
  <2>4. QED
    BY <2>3 DEF ReportedChains
<1>12. \A y \in G : FrameInv(y, G)'
  <2>1. FrameInv(x, G)'
    BY <1>4, <1>8 DEF FrameInv
  <2>2. ASSUME NEW y \in F PROVE FrameInv(y, G)'
    <3>1. FrameInv(y, F) /\ y.flow # f /\ m_completed'[y.flow]
      BY <1>2, <1>5, <1>8
    <3>2. ~ToFinish(y.flow, F) => ~ToFinish(y.flow, G)
      BY <1>7, <3>1
    <3>3. QED
      BY <3>1, <3>2 DEF FrameInv
  <2>3. QED
    BY <1>6, <2>1, <2>2
<1>13. StackInv(new)'
  BY <1>1, <1>6, <1>12 DEF StackInv
<1>14. QED
  BY <1>1, <1>6, <1>9, <1>10, <1>11, <1>13 DEF CompletingDuties

\* A flow that has run calls NotifyComplete; the frames under it are stk.
LEMMA CompleteInv ==
    ASSUME NEW evs, NEW stk, NEW rem, NEW f \in Flow, NEW new,
           VarTypes, CoreInv(evs, stk, rem, {}), HasRun(f),
           CompletingDuties(f, stk, new), FgInv(Frames(stk)),
           \A p \in Phases :
              /\ m_completed_chains'[p] = Cardinality(ReportedChains(p, Frames(stk)))
              /\ m_completed'[p] => ReportedChains(p, Frames(stk)) = DOMAIN Chains[p],
           NestInv(evs, Frames(new)), VarTypes', RunsInv',
           UNCHANGED <<now, m_dependencies, m_on_complete, m_fg_running>>,
           events' = evs, stack' = new, m_rem_dependencies' = rem
    PROVE  FlowInv'
<1>1. PICK F, G : F = Frames(stk) /\ G = Frames(new)
  OBVIOUS
<1>2. \A g : (HasRun(g)' <=> HasRun(g)) /\ (Created(g)' <=> Created(g))
  BY DEF HasRun, Created
<1>3. /\ StackInv(new)'
      /\ \A g \in Flow : Finished(g, G)' <=> Finished(g, F)
      /\ \A g, h \in Flow : Resolved(g, h, G)' <=> Resolved(g, h, F)
      /\ \A p \in Phases : ReportedChains(p, G)' = ReportedChains(p, F)
  BY <1>1 DEF CompletingDuties
<1>4. CallbacksInv' /\ GraphInv'
  BY <1>2 DEF CoreInv, CallbacksInv, GraphInv
<1>5. RemInv(G, rem)'
  <2>1. \A g \in Flow : Unresolved(g, G)' = Unresolved(g, F)
    BY <1>3, NeedsFacts DEF Unresolved
  <2>2. RemInv(F, rem)
    BY <1>1 DEF CoreInv
  <2>3. QED
    BY <1>2, <2>1, <2>2 DEF RemInv
<1>6. EventsInv(evs)' /\ NestInv(evs, G)' /\ WaitInv(evs, rem, {})'
  BY <1>1, <1>2 DEF CoreInv, EventsInv, NestInv, WaitInv
<1>7. FgInv(G)'
  <2>1. RunningFg(G)' = RunningFg(F)
    BY <1>2, <1>3 DEF RunningFg
  <2>2. QED
    BY <1>1, <2>1 DEF FgInv
<1>8. ChainsInv(G)'
  BY <1>1, <1>3 DEF ChainsInv
<1>9. QED
  BY <1>1, <1>3, <1>4, <1>5, <1>6, <1>7, <1>8 DEF FlowInv, Inv, CoreInv

LEMMA WriteCompletesInv ==
    ASSUME FlowInv, NEW f \in Simple, WriteCompletes(f)
    PROVE  FlowInv'
<1>1. /\ VarTypes /\ CoreInv(events, stack, m_rem_dependencies, {})
      /\ FgInv(Frames(stack)) /\ ChainsInv(Frames(stack)) /\ StackInv(stack)
      /\ CallbacksInv /\ RunsInv /\ EventsInv(events)
  BY DEF FlowInv, Inv, CoreInv
<1>2. /\ stack = << >> /\ writes[f] > 0 /\ aborted = FALSE
      /\ \A i \in DOMAIN events : Due(i) => ~ScheduledBefore(i, f)
      /\ writes' = [writes EXCEPT ![f] = @ - 1]
      /\ IF IsLastWrite(f) THEN NotifyComplete(f, m_on_complete[f], << >>)
                           ELSE UNCHANGED <<m_completed, stack, aborted>>
      /\ UNCHANGED <<now, events, checked, m_dependencies, m_rem_dependencies, m_fg_running,
                     m_on_complete, m_completed_chains, stopped>>
  BY <1>1 DEF WriteCompletes, Idle, VarTypes, graph_vars
<1>3. /\ f \in Flow /\ f \notin Phases /\ Writes[f] \in Nat \ {0}
      /\ HasRun(f) /\ m_completed[f] \in BOOLEAN
      /\ writes[f] \in Nat /\ writes[f] <= Writes[f]
  BY <1>1, <1>2, SimpleFacts DEF RunsInv, VarTypes
<1>4. writes' \in [Simple -> Nat] /\ \A g \in Simple : writes'[g] = IF g = f THEN writes[g] - 1 ELSE writes[g]
  BY <1>1, <1>2, <1>3 DEF VarTypes
<1>5. \A g : HasRun(g)' <=> HasRun(g)
  BY <1>2 DEF HasRun
<1>6. CASE ~IsLastWrite(f)
  <2>1. UNCHANGED <<m_completed, stack, aborted>> /\ Writes[f] # 1
    BY <1>2, <1>6 DEF IsLastWrite
  <2>2. VarTypes'
    BY <1>1, <1>2, <1>4, <2>1 DEF VarTypes
  <2>3. RunsInv'
    <3>1. \A g \in Simple : writes[g] \in Nat /\ Writes[g] \in Nat
      BY <1>1, SimpleFacts DEF VarTypes
    <3>2. QED
      BY <1>1, <1>3, <1>4, <1>5, <2>1, <3>1 DEF RunsInv
  <2>4. PICK F, stk : stk = stack /\ F = Frames(stk)
    OBVIOUS
  <2>5. FgInv(F)' /\ ChainsInv(F)'
    <3>1. \A g : /\ Finished(g, F)' <=> Finished(g, F)
                 /\ Reported(g, F)' <=> Reported(g, F)
      BY <2>1 DEF Finished, Reported
    <3>2. RunningFg(F)' = RunningFg(F) /\ \A p : ReportedChains(p, F)' = ReportedChains(p, F)
      BY <1>5, <3>1 DEF RunningFg, ReportedChains
    <3>3. QED
      BY <1>1, <1>2, <2>1, <2>4, <3>2 DEF FgInv, ChainsInv
  <2>6. /\ CoreInv(events, stk, m_rem_dependencies, {})
        /\ FgInv(Frames(stk))' /\ ChainsInv(Frames(stk))'
        /\ UNCHANGED <<now, m_dependencies, m_on_complete, m_completed>>
        /\ events' = events /\ stack' = stk /\ m_rem_dependencies' = m_rem_dependencies
    BY <1>1, <1>2, <2>1, <2>4, <2>5
  <2>7. QED
    BY <2>2, <2>3, <2>6, KeepInv
<1>7. CASE IsLastWrite(f)
  <2>1. Writes[f] = 1 /\ ~m_completed[f] /\ m_on_complete[f] = RunCallbacks(f)
    BY <1>1, <1>2, <1>3, <1>7, CallbacksOfRun DEF IsLastWrite, RunsInv, VarTypes
  <2>2. /\ m_completed' = [m_completed EXCEPT ![f] = TRUE]
        /\ stack' = <<Completing(f, RunCallbacks(f))>> \o << >>
        /\ UNCHANGED aborted
    BY <1>2, <1>7, <2>1 DEF NotifyComplete
  <2>3. \A g \in Flow : m_completed'[g] = IF g = f THEN TRUE ELSE m_completed[g]
    BY <1>1, <2>2 DEF VarTypes
  <2>4. VarTypes'
    BY <1>1, <1>2, <1>4, <2>2 DEF VarTypes
  <2>5. RunsInv'
    <3>1. \A g \in Simple : writes[g] \in Nat /\ Writes[g] \in Nat /\ g \in Flow
      BY <1>1, SimpleFacts DEF VarTypes
    <3>2. writes'[f] = 0
      BY <1>2, <1>3, <1>4, <2>1
    <3>3. \A g \in Flow : m_completed'[g] => HasRun(g)
      BY <1>1, <1>3, <2>3 DEF RunsInv
    <3>4. \A g \in Simple \ {f} : writes'[g] = writes[g] /\ m_completed'[g] = m_completed[g]
      BY <1>4, <2>3, <3>1
    <3>5. QED
      BY <1>1, <1>3, <1>5, <3>1, <3>2, <3>3, <3>4 DEF RunsInv
  <2>6. PICK stk, new : stk = << >> /\ new = <<Completing(f, RunCallbacks(f))>> \o stk
    OBVIOUS
  <2>7. CompletingDuties(f, stk, new)
    <3>1. StackInv(stk) /\ m_completed \in [Flow -> BOOLEAN] /\ m_dependencies' = m_dependencies
      BY <1>1, <1>2, <2>6 DEF VarTypes
    <3>2. QED
      BY <1>3, <2>1, <2>2, <2>6, <3>1, CompletingFrames
  <2>8. NestInv(events, Frames(new))
    <3>1. \A y \in Frames(new) : y.flow = f
      <4>1. Frames(stk) = {} /\ Completing(f, RunCallbacks(f)).flow = f
        BY <2>6 DEF Frames, Completing
      <4>2. QED
        BY <2>7, <4>1 DEF CompletingDuties
    <3>2. ASSUME NEW i \in DOMAIN events
          PROVE  /\ ~(events[i].flow \in ListedFlow /\ events[i].time = now)
                 /\ \A p \in Phases : events[i].flow \in ChildrenOf(p) => f \notin ChildrenOf(p)
      <4>1. \A p \in Phases : events[i].flow \in ChildrenOf(p) => events[i].time = now
        BY <1>1, ListedOrChild DEF EventsInv
      <4>2. QED
        BY <1>2, <4>1 DEF Due, ScheduledBefore
    <3>3. QED
      BY <3>1, <3>2 DEF NestInv
  <2>9. /\ CoreInv(events, stk, m_rem_dependencies, {}) /\ FgInv(Frames(stk))
        /\ \A p \in Phases :
              /\ m_completed_chains'[p] = Cardinality(ReportedChains(p, Frames(stk)))
              /\ m_completed'[p] => ReportedChains(p, Frames(stk)) = DOMAIN Chains[p]
    <3>1. stk = stack
      BY <1>2, <2>6
    <3>2. \A p \in Phases : m_completed'[p] = m_completed[p]
      BY <1>3, <2>3, SimpleFacts
    <3>3. QED
      BY <1>1, <1>2, <3>1, <3>2 DEF ChainsInv
  <2>10. /\ UNCHANGED <<now, m_dependencies, m_on_complete, m_fg_running>>
         /\ events' = events /\ stack' = new /\ m_rem_dependencies' = m_rem_dependencies
    BY <1>2, <2>2, <2>6
  <2>11. QED
    BY <1>1, <1>3, <2>4, <2>5, <2>7, <2>8, <2>9, <2>10, CompleteInv
<1>8. QED
  BY <1>6, <1>7

\* With the stack `new` instead of `stk`, f has told its phase.
ReportingDuties(f, stk, new) ==
    /\ StackInv(new)
    /\ \A y \in Frames(new) : \E z \in Frames(stk) : z.flow = y.flow
    /\ \E z \in Frames(stk) : z.flow = f
    /\ m_completed[f] /\ IsLastOfChain(f) /\ ToReport(f, Frames(stk))
    /\ \A g : ToFinish(g, Frames(new)) <=> ToFinish(g, Frames(stk))
    /\ \A g : ToReport(g, Frames(new)) <=> g # f /\ ToReport(g, Frames(stk))
    /\ \A g, h : ToResolve(g, h, Frames(new)) <=> ToResolve(g, h, Frames(stk))

LEMMA ReportingFrames ==
    ASSUME NEW stk, NEW x, NEW rest, NEW new,
           StackInv(stk), stk # << >>, x = Head(stk), rest = Tail(stk),
           x.call = "NotifyComplete", x.left = <<"OnChainComplete", "OnFlowFinish">>,
           new = <<Completing(x.flow, <<"OnFlowFinish">>)>> \o rest
    PROVE  ReportingDuties(x.flow, stk, new)
<1> DEFINE f == x.flow
<1>1. stk \in Seq(Frame) /\ rest \in Seq(Frame)
  <2>1. stk \in Seq(Frame)
    BY DEF StackInv
  <2>2. QED
    BY <2>1, TopFrame
<1>2. /\ x \in Frame /\ f \in Flow
      /\ Frames(stk) = {x} \union Frames(rest) /\ DistinctCalls(rest)
      /\ \A y \in Frames(rest) : ~(y.call = x.call /\ y.flow = x.flow)
  <2>1. Head(stk) \in Frame
    BY <1>1, TopFrame
  <2>2. Frames(stk) = {Head(stk)} \union Frames(Tail(stk))
    BY <1>1, TopFrame
  <2>3. DistinctCalls(stk)
    BY DEF StackInv
  <2>4. /\ DistinctCalls(Tail(stk))
        /\ \A y \in Frames(Tail(stk)) : ~(y.call = Head(stk).call /\ y.flow = Head(stk).flow)
    BY <1>1, <2>3, TopFrame
  <2>5. QED
    BY <1>1, <2>1, <2>2, <2>4, FrameFacts
<1>3. PICK ret : ret = Completing(f, <<"OnFlowFinish">>)
  OBVIOUS
<1>4. /\ ret \in Frame /\ ret.call = "NotifyComplete" /\ ret.flow = f
      /\ ret.left = <<"OnFlowFinish">>
  <2>1. <<"OnFlowFinish">> \in Callbacks \ {<<"OnChainComplete">>}
    BY DEF Callbacks
  <2>2. QED
    BY <1>2, <1>3, <2>1 DEF Frame, Completing
<1>5. new \in Seq(Frame) /\ Frames(new) = {ret} \union Frames(rest) /\ DistinctCalls(new)
  <2>1. /\ <<ret>> \o rest \in Seq(Frame)
        /\ Frames(<<ret>> \o rest) = {ret} \union Frames(rest)
        /\ DistinctCalls(<<ret>> \o rest) <=>
              /\ DistinctCalls(rest)
              /\ \A y \in Frames(rest) : ~(y.call = ret.call /\ y.flow = ret.flow)
    BY <1>1, <1>4, PushFrame
  <2>2. \A y \in Frames(rest) : ~(y.call = ret.call /\ y.flow = ret.flow)
    BY <1>2, <1>4
  <2>3. QED
    BY <1>2, <1>3, <2>1, <2>2
<1>6. /\ x.left # << >> /\ ret.left # << >>
      /\ ret.left # <<"OnChainComplete", "OnFlowFinish">>
  <2>1. /\ <<"OnChainComplete", "OnFlowFinish">> # << >> /\ <<"OnFlowFinish">> # << >>
        /\ <<"OnFlowFinish">> # <<"OnChainComplete", "OnFlowFinish">>
    OBVIOUS
  <2>2. QED
    BY <1>4, <2>1
<1>7. /\ \A g : ToFinish(g, Frames(new)) <=> ToFinish(g, Frames(stk))
      /\ \A g : ToReport(g, Frames(new)) <=> g # f /\ ToReport(g, Frames(stk))
      /\ \A g, h : ToResolve(g, h, Frames(new)) <=> ToResolve(g, h, Frames(stk))
      /\ ToReport(f, Frames(stk))
  BY <1>2, <1>4, <1>5, <1>6 DEF ToFinish, ToReport, ToResolve
<1>8. /\ \A y \in Frames(stk) : FrameInv(y, Frames(stk))
      /\ m_completed[f] /\ IsLastOfChain(f)
  BY <1>2 DEF StackInv, FrameInv
<1>9. \A y \in Frames(new) : FrameInv(y, Frames(new))
  <2>1. FrameInv(ret, Frames(new))
    BY <1>4, <1>6, <1>8 DEF FrameInv
  <2>2. \A y \in Frames(rest) : FrameInv(y, Frames(new))
    BY <1>2, <1>7, <1>8 DEF FrameInv
  <2>3. QED
    BY <1>5, <2>1, <2>2
<1>10. /\ \A y \in Frames(new) : \E z \in Frames(stk) : z.flow = y.flow
       /\ \E z \in Frames(stk) : z.flow = f
  BY <1>2, <1>4, <1>5
<1>11. QED
  BY <1>5, <1>7, <1>8, <1>9, <1>10 DEF StackInv, ReportingDuties

\* With the stack `new` instead of `stk`, one more chain of p has told it.
PhaseIsTold(p, stk, new) ==
    /\ HasRun(p) /\ ~m_completed[p]
    /\ m_completed_chains[p] \in Nat
    /\ m_completed_chains[p] + 1 = Cardinality(ReportedChains(p, Frames(new)))
    /\ m_completed_chains[p] + 1 <= Len(Chains[p])
    /\ m_completed_chains[p] + 1 = Len(Chains[p])
          => ReportedChains(p, Frames(new)) = DOMAIN Chains[p]
    /\ \A r \in Phases \ {p} : ReportedChains(r, Frames(new)) = ReportedChains(r, Frames(stk))

\* Telling the phase p of f is counted for the chain of f, and when all chains
\* have, the phase has not completed yet.
LEMMA ReportingCounts ==
    ASSUME CallbacksInv, RunsInv, m_on_complete \in [Flow -> Callbacks],
           NEW stk, NEW new, ChainsInv(Frames(stk)),
           NEW f \in Flow, ReportingDuties(f, stk, new), NEW p \in Phases, f \in ChildrenOf(p)
    PROVE  PhaseIsTold(p, stk, new)
<1>1. PICK F, G : F = Frames(stk) /\ G = Frames(new)
  OBVIOUS
<1>2. /\ m_completed[f] /\ IsLastOfChain(f) /\ ToReport(f, F)
      /\ \A g : ToReport(g, G) <=> g # f /\ ToReport(g, F)
  BY <1>1 DEF ReportingDuties
<1>3. HasRun(p)
  <2>1. HasRun(f)
    BY <1>2 DEF RunsInv
  <2>2. Created(f)
    BY <2>1, CallbacksOfRun
  <2>3. f \notin ListedFlow
    BY ListedOrChild
  <2>4. QED
    BY <2>2, <2>3, ChildFacts DEF Created
<1>4. PICK q \in Phases : \E c \in DOMAIN Chains[q] : f = Last(Chains[q][c])
  BY <1>2 DEF IsLastOfChain
<1>5. q = p
  BY <1>4, ChildFacts
<1>6. PICK c \in DOMAIN Chains[p] : f = Last(Chains[p][c])
  BY <1>4, <1>5
<1>7. \A r \in Phases : \A d \in DOMAIN Chains[r] :
         Last(Chains[r][d]) = f <=> r = p /\ d = c
  BY <1>6, ChildFacts
<1>8. \A g : Reported(g, G) <=> g = f \/ Reported(g, F)
  BY <1>2 DEF Reported
<1>9. ReportedChains(p, G) = ReportedChains(p, F) \union {c}
  BY <1>6, <1>7, <1>8 DEF ReportedChains
<1>10. c \notin ReportedChains(p, F)
  BY <1>2, <1>6 DEF ReportedChains, Reported
<1>11. \A r \in Phases \ {p} : ReportedChains(r, G) = ReportedChains(r, F)
  BY <1>7, <1>8 DEF ReportedChains
<1>12. /\ IsFiniteSet(ReportedChains(p, F)) /\ ReportedChains(p, G) \subseteq DOMAIN Chains[p]
       /\ IsFiniteSet(DOMAIN Chains[p]) /\ Cardinality(DOMAIN Chains[p]) = Len(Chains[p])
       /\ Len(Chains[p]) \in Nat
  <2>1. /\ ReportedChains(p, G) \subseteq DOMAIN Chains[p] /\ IsFiniteSet(DOMAIN Chains[p])
        /\ Cardinality(DOMAIN Chains[p]) = Len(Chains[p]) /\ Len(Chains[p]) \in Nat
        /\ ReportedChains(p, F) \subseteq DOMAIN Chains[p]
    BY CountedSets
  <2>2. QED
    BY <2>1, FS_Subset
<1>13. /\ m_completed_chains[p] = Cardinality(ReportedChains(p, F))
       /\ m_completed[p] => ReportedChains(p, F) = DOMAIN Chains[p]
  BY <1>1 DEF ChainsInv
<1>14. /\ Cardinality(ReportedChains(p, F)) \in Nat
       /\ Cardinality(ReportedChains(p, G)) = Cardinality(ReportedChains(p, F)) + 1
  BY <1>9, <1>10, <1>12, FS_AddElement, FS_CardinalityType
<1>15. Cardinality(ReportedChains(p, G)) <= Len(Chains[p])
       /\ (Cardinality(ReportedChains(p, G)) = Len(Chains[p])
              => ReportedChains(p, G) = DOMAIN Chains[p])
  BY <1>12, FS_Subset
<1>16. ~m_completed[p]
  BY <1>6, <1>10, <1>13
<1>17. QED
  BY <1>1, <1>3, <1>11, <1>13, <1>14, <1>15, <1>16 DEF PhaseIsTold

\* A phase is no member of a chain.
LEMMA PhaseFacts ==
    ASSUME NEW p \in Phases
    PROVE  /\ p \in Flow /\ p \in ListedFlow /\ p \notin Children /\ p \notin Immediate
           /\ ~IsLastOfChain(p) /\ RunCallbacks(p) = <<"OnFlowFinish">>
           /\ \A r \in Phases : p \notin ChildrenOf(r)
<1>1. p \in Flow /\ p \in ListedFlow /\ p \notin Children /\ p \notin Immediate
  BY ListedOrChild, SimpleFacts
<1>2. ~IsLastOfChain(p)
  BY <1>1, ChildFacts, ListedOrChild DEF IsLastOfChain
<1>3. QED
  BY <1>1, <1>2, ListedOrChild DEF RunCallbacks

LEMMA OnChainCompleteInv ==
    ASSUME StartsApart, FlowInv, OnChainComplete
    PROVE  FlowInv'
<1>1. /\ VarTypes /\ CoreInv(events, stack, m_rem_dependencies, {})
      /\ FgInv(Frames(stack)) /\ ChainsInv(Frames(stack)) /\ StackInv(stack)
      /\ CallbacksInv /\ RunsInv /\ EventsInv(events) /\ NestInv(events, Frames(stack))
  BY DEF FlowInv, Inv, CoreInv
<1>2. /\ stack # << >> /\ Top.call = "NotifyComplete" /\ Top.left # << >>
      /\ Head(Top.left) = "OnChainComplete"
  BY DEF OnChainComplete, Calls
<1>3. PICK p \in Phases :
         /\ Top.flow \in ChildrenOf(p)
         /\ m_completed_chains' = [m_completed_chains EXCEPT ![p] = @ + 1]
         /\ CASE m_completed_chains[p] + 1 > Len(Chains[p]) ->
                   aborted' = TRUE /\ UNCHANGED <<stack, m_completed>>
              [] m_completed_chains[p] + 1 = Len(Chains[p]) ->
                   NotifyComplete(p, m_on_complete[p], Returned)
              [] OTHER ->
                   stack' = Returned /\ UNCHANGED <<m_completed, aborted>>
  BY DEF OnChainComplete
<1>4. UNCHANGED <<now, events, checked, m_dependencies, m_rem_dependencies, m_fg_running,
                  m_on_complete, writes, stopped>>
  BY DEF OnChainComplete, graph_vars
<1>5. PICK x, rest, stk : x = Top /\ rest = Tail(stack) /\ stk = stack
  OBVIOUS
<1>6. stk \in Seq(Frame) /\ stk # << >> /\ x = Head(stk) /\ rest = Tail(stk) /\ StackInv(stk)
  BY <1>1, <1>2, <1>5 DEF StackInv, Top
<1>7. x \in Frame /\ x.call = "NotifyComplete" /\ x.flow \in Flow
      /\ x.left \in Callbacks \ {<<"OnChainComplete">>}
  <2>1. x \in Frame
    BY <1>6, TopFrame
  <2>2. QED
    BY <1>2, <1>5, <2>1, FrameFacts
<1>8. x.left = <<"OnChainComplete", "OnFlowFinish">> /\ Tail(x.left) = <<"OnFlowFinish">>
  BY <1>2, <1>5, <1>7, NextCallback
<1>9. PICK f, ret : f = x.flow /\ ret = <<Completing(x.flow, <<"OnFlowFinish">>)>> \o rest
  OBVIOUS
<1>10. Returned = ret
  BY <1>5, <1>8, <1>9 DEF Returned
<1>11. ReportingDuties(f, stk, ret)
  <2>1. ReportingDuties(x.flow, stk, ret)
    BY <1>6, <1>7, <1>8, <1>9, ReportingFrames
  <2>2. QED
    BY <1>9, <2>1
<1>12. f \in Flow /\ f \in ChildrenOf(p)
  BY <1>3, <1>5, <1>7, <1>9
<1>13. /\ HasRun(p) /\ ~m_completed[p]
       /\ m_completed_chains[p] \in Nat
       /\ m_completed_chains[p] + 1 = Cardinality(ReportedChains(p, Frames(ret)))
       /\ m_completed_chains[p] + 1 <= Len(Chains[p])
       /\ m_completed_chains[p] + 1 = Len(Chains[p])
             => ReportedChains(p, Frames(ret)) = DOMAIN Chains[p]
       /\ \A r \in Phases \ {p} :
             ReportedChains(r, Frames(ret)) = ReportedChains(r, Frames(stk))
  <2>1. m_on_complete \in [Flow -> Callbacks] /\ ChainsInv(Frames(stk))
    BY <1>1, <1>5 DEF VarTypes
  <2>2. PhaseIsTold(p, stk, ret)
    BY <1>1, <1>11, <1>12, <2>1, ReportingCounts
  <2>3. QED
    BY <2>2 DEF PhaseIsTold
<1>14. Len(Chains[p]) \in Nat
  BY CountedSets
<1>15. m_completed_chains' \in [Phases -> Nat]
       /\ \A r \in Phases : m_completed_chains'[r] = Cardinality(ReportedChains(r, Frames(ret)))
  <2>1. m_completed_chains \in [Phases -> Nat]
    BY <1>1 DEF VarTypes
  <2>2. \A r \in Phases : m_completed_chains[r] = Cardinality(ReportedChains(r, Frames(stk)))
    BY <1>1, <1>5 DEF ChainsInv
  <2>3. m_completed_chains[p] + 1 \in Nat
    BY <1>13
  <2>4. QED
    BY <1>3, <1>13, <2>1, <2>2, <2>3
<1>16. /\ StackInv(ret)
       /\ \A g : ToFinish(g, Frames(ret)) <=> ToFinish(g, Frames(stk))
       /\ \A g, h : ToResolve(g, h, Frames(ret)) <=> ToResolve(g, h, Frames(stk))
       /\ \A y \in Frames(ret) : \E z \in Frames(stk) : z.flow = y.flow
       /\ \E z \in Frames(stk) : z.flow = f
  BY <1>11 DEF ReportingDuties
<1>17. CoreInv(events, ret, m_rem_dependencies, {})
  <2>1. CoreInv(events, stk, m_rem_dependencies, {})
    BY <1>1, <1>5
  <2>2. QED
    BY <1>16, <2>1, SameDuties
<1>18. FgInv(Frames(ret))
  <2>1. RunningFg(Frames(ret)) = RunningFg(Frames(stk))
    BY <1>16, SameCounts
  <2>2. QED
    BY <1>1, <1>5, <2>1 DEF FgInv
<1>19. \A r \in Phases \ {p} :
          m_completed[r] => ReportedChains(r, Frames(ret)) = DOMAIN Chains[r]
  BY <1>1, <1>5, <1>13 DEF ChainsInv
<1>20. CASE m_completed_chains[p] + 1 # Len(Chains[p])
  <2>1. stack' = ret /\ UNCHANGED <<m_completed, aborted>>
    <3>1. ~(m_completed_chains[p] + 1 > Len(Chains[p]))
      BY <1>13, <1>14
    <3>2. QED
      BY <1>3, <1>10, <1>20, <3>1
  <2>2. VarTypes'
    BY <1>1, <1>4, <1>15, <2>1 DEF VarTypes
  <2>3. PICK G : G = Frames(ret)
    OBVIOUS
  <2>4. FgInv(G)' /\ ChainsInv(G)'
    <3>1. /\ \A g : HasRun(g)' <=> HasRun(g)
          /\ \A g : Finished(g, G)' <=> Finished(g, G)
          /\ \A g : Reported(g, G)' <=> Reported(g, G)
      BY <1>4, <2>1 DEF HasRun, Finished, Reported
    <3>2. RunningFg(G)' = RunningFg(G) /\ \A r : ReportedChains(r, G)' = ReportedChains(r, G)
      BY <3>1 DEF RunningFg, ReportedChains
    <3>3. FgInv(G)'
      BY <1>4, <1>18, <2>3, <3>2 DEF FgInv
    <3>4. \A r \in Phases : m_completed[r] => ReportedChains(r, G) = DOMAIN Chains[r]
      BY <1>13, <1>19, <2>3
    <3>5. QED
      BY <1>15, <2>1, <2>3, <3>2, <3>3, <3>4 DEF ChainsInv
  <2>5. /\ FgInv(Frames(ret))' /\ ChainsInv(Frames(ret))'
        /\ UNCHANGED <<now, m_dependencies, m_on_complete, m_completed>>
        /\ writes' = writes /\ events' = events /\ stack' = ret
        /\ m_rem_dependencies' = m_rem_dependencies
    BY <1>4, <2>1, <2>3, <2>4
  <2>6. QED
    BY <1>17, <2>2, <2>5, KeepInv
<1>21. CASE m_completed_chains[p] + 1 = Len(Chains[p])
  <2>1. /\ p \in Flow /\ p \in ListedFlow /\ p \notin Children
        /\ RunCallbacks(p) = <<"OnFlowFinish">> /\ m_on_complete[p] = RunCallbacks(p)
    BY <1>1, <1>13, PhaseFacts, CallbacksOfRun DEF VarTypes
  <2>2. NotifyComplete(p, m_on_complete[p], ret)
    <3>1. ~(m_completed_chains[p] + 1 > Len(Chains[p]))
      BY <1>13, <1>14
    <3>2. QED
      BY <1>3, <1>10, <1>21, <3>1
  <2>3. /\ m_completed' = [m_completed EXCEPT ![p] = TRUE]
        /\ stack' = <<Completing(p, RunCallbacks(p))>> \o ret
        /\ UNCHANGED aborted
    BY <1>13, <2>1, <2>2 DEF NotifyComplete
  <2>4. m_completed \in [Flow -> BOOLEAN]
        /\ \A g \in Flow : m_completed'[g] = IF g = p THEN TRUE ELSE m_completed[g]
    BY <1>1, <2>3 DEF VarTypes
  <2>5. VarTypes'
    BY <1>1, <1>4, <1>15, <2>3 DEF VarTypes
  <2>6. RunsInv'
    <3>1. \A g : HasRun(g)' <=> HasRun(g)
      BY <1>4 DEF HasRun
    <3>2. \A g \in Simple : m_completed'[g] = m_completed[g]
      BY <2>4, SimpleFacts
    <3>3. QED
      BY <1>1, <1>4, <1>13, <2>4, <3>1, <3>2 DEF RunsInv
  <2>7. PICK new : new = <<Completing(p, RunCallbacks(p))>> \o ret
    OBVIOUS
  <2>8. CompletingDuties(p, ret, new)
    BY <1>4, <1>13, <1>16, <2>1, <2>3, <2>4, <2>7, CompletingFrames
  <2>9. NestInv(events, Frames(new))
    <3>1. \A y \in Frames(new) : y.flow = p \/ \E z \in Frames(stk) : z.flow = y.flow
      <4>1. Completing(p, RunCallbacks(p)).flow = p
        BY DEF Completing
      <4>2. QED
        BY <1>16, <2>8, <4>1 DEF CompletingDuties
    <3>2. \A i \in DOMAIN events : ~(events[i].flow \in ListedFlow /\ events[i].time = now)
      <4>1. f \notin Immediate
        BY <1>12, ListedOrChild DEF StartsApart
      <4>2. QED
        BY <1>1, <1>5, <1>16, <4>1 DEF NestInv
    <3>3. QED
      BY <1>1, <1>5, <3>1, <3>2, PhaseFacts DEF NestInv
  <2>10. \A r \in Phases :
            /\ m_completed_chains'[r] = Cardinality(ReportedChains(r, Frames(ret)))
            /\ m_completed'[r] => ReportedChains(r, Frames(ret)) = DOMAIN Chains[r]
    <3>1. \A r \in Phases \ {p} : m_completed'[r] = m_completed[r]
      BY <2>4, SimpleFacts
    <3>2. QED
      BY <1>13, <1>15, <1>19, <1>21, <3>1
  <2>11. /\ UNCHANGED <<now, m_dependencies, m_on_complete, m_fg_running>>
         /\ events' = events /\ stack' = new /\ m_rem_dependencies' = m_rem_dependencies
    BY <1>4, <2>3, <2>7
  <2>12. QED
    BY <1>1, <1>13, <1>17, <1>18, <2>1, <2>5, <2>6, <2>8, <2>9, <2>10, <2>11, CompleteInv
<1>22. QED
  BY <1>20, <1>21

-----------------------------------------------------------------------------
(* RunFlow.                                                                *)

\* The flow f may be run now, with the events evs and the frames rest.
MayRun(evs, rest, rem, f) ==
    /\ Inv(evs, rest, rem, {f})
    /\ f \in Flow /\ Created(f) /\ ~HasRun(f) /\ ~Pending(f, evs) /\ rem[f] = 0
    /\ f \in Immediate =>
          \A i \in DOMAIN evs : evs[i].flow \in ListedFlow /\ evs[i].time = now
             => Dependencies[evs[i].flow] \intersect Immediate = {}

\* OnFlowFinish has been registered with f.
Registered(f) ==
    /\ m_on_complete' \in [Flow -> Callbacks] /\ CallbacksInv'
    /\ m_on_complete'[f] = RunCallbacks(f)
    /\ \A g \in Flow : HasRun(g)' <=> g = f \/ HasRun(g)

\* What a step that runs f does to the flows.
HasJustRun(f) ==
    /\ \A g \in Flow : HasRun(g)' <=> g = f \/ HasRun(g)
    /\ UNCHANGED m_completed \/ m_completed' = [m_completed EXCEPT ![f] = TRUE]

\* A step runs one flow that waits no more, or none.
RunsOneOrNone ==
    /\ UNCHANGED stopped
    /\ \/ UNCHANGED <<m_on_complete, m_completed>>
       \/ \E f \in Flow : /\ HasJustRun(f) /\ ~HasRun(f)
                          /\ Needs[f] \subseteq Completed
                          /\ now >= Start(f)

LEMMA MayRunFacts ==
    ASSUME NEW evs, NEW rest, NEW rem, NEW f, MayRun(evs, rest, rem, f)
    PROVE  f \in Flow /\ ~HasRun(f) /\ Needs[f] \subseteq Completed
<1>1. /\ f \in Flow /\ ~HasRun(f) /\ Created(f) /\ rem[f] = 0
      /\ RemInv(Frames(rest), rem)
  BY DEF MayRun, Inv, CoreInv
<1>2. PICK F : F = Frames(rest)
  OBVIOUS
<1>3. Cardinality(Unresolved(f, F)) = 0
  BY <1>1, <1>2 DEF RemInv
<1>4. Unresolved(f, F) = {}
  BY <1>1, <1>3, CountedSets, FS_EmptySet
<1>5. \A g \in Needs[f] : g \in Flow /\ m_completed[g]
  BY <1>1, <1>4, NeedsFacts DEF Unresolved, Resolved, Finished
<1>6. QED
  BY <1>1, <1>5 DEF Completed

LEMMA RegisterCallback ==
    ASSUME CallbacksInv, m_on_complete \in [Flow -> Callbacks],
           NEW f \in Simple, Created(f), ~HasRun(f),
           m_on_complete' = [m_on_complete EXCEPT ![f] = Append(@, "OnFlowFinish")]
    PROVE  Registered(f) /\ \A g : Created(g)' <=> Created(g)
<1>1. f \in Flow /\ f \notin Phases
  BY SimpleFacts
<1>2. PICK cb, add : cb = m_on_complete[f] /\ add = Append(cb, "OnFlowFinish")
  OBVIOUS
<1>3. cb = IF IsLastOfChain(f) THEN <<"OnChainComplete">> ELSE << >>
  <2>1. cb \in Callbacks /\ ~Ran(cb)
    BY <1>1, <1>2 DEF HasRun, Ran
  <2>2. cb \notin {<<"OnFlowFinish">>, <<"OnChainComplete", "OnFlowFinish">>}
    BY <2>1, RanMeans
  <2>3. QED
    BY <1>1, <1>2, <2>2 DEF CallbacksInv
<1>4. add = RunCallbacks(f)
  <2>1. cb = << >> => add = <<"OnFlowFinish">>
    BY <1>2, AppendTo
  <2>2. cb = <<"OnChainComplete">> => add = <<"OnChainComplete", "OnFlowFinish">>
    BY <1>2, AppendTo
  <2>3. QED
    BY <1>3, <2>1, <2>2 DEF RunCallbacks
<1>5. RunCallbacks(f) \in Callbacks /\ Ran(RunCallbacks(f))
  <2>1. RunCallbacks(f) \in Callbacks
        /\ RunCallbacks(f) \in {<<"OnFlowFinish">>, <<"OnChainComplete", "OnFlowFinish">>}
    BY DEF RunCallbacks, Callbacks
  <2>2. QED
    BY <2>1, RanMeans
<1>6. /\ m_on_complete' \in [Flow -> Callbacks]
      /\ \A g \in Flow : m_on_complete'[g] = IF g = f THEN RunCallbacks(f) ELSE m_on_complete[g]
  <2>1. m_on_complete' = [m_on_complete EXCEPT ![f] = RunCallbacks(f)]
    BY <1>2, <1>4
  <2>2. QED
    BY <1>5, <2>1
<1>7. \A g \in Flow : HasRun(g)' <=> g = f \/ HasRun(g)
  BY <1>5, <1>6 DEF HasRun, Ran
<1>8. \A g : Created(g)' <=> Created(g)
  <2>1. \A p \in Phases : HasRun(p)' <=> HasRun(p)
    BY <1>1, <1>7, SimpleFacts
  <2>2. QED
    BY <2>1 DEF Created
<1>9. CallbacksInv'
  BY <1>1, <1>6, <1>8 DEF CallbacksInv, RunCallbacks
<1>10. QED
  BY <1>1, <1>6, <1>7, <1>8, <1>9 DEF Registered

\* A flow that posts writes, sets a timer or completes at once.
LEMMA SimpleRunInv ==
    ASSUME NEW evs, NEW rest, NEW rem, NEW f, NEW new,
           MayRun(evs, rest, rem, f), f \notin Phases,
           Registered(f), \A g : Created(g)' <=> Created(g),
           StackInv(new)',
           \A g \in Flow : Finished(g, Frames(new))' <=> Finished(g, Frames(rest)),
           \A g, h \in Flow : Resolved(g, h, Frames(new))' <=> Resolved(g, h, Frames(rest)),
           \A p \in Phases : ReportedChains(p, Frames(new))' = ReportedChains(p, Frames(rest)),
           NestInv(evs, Frames(new)), VarTypes', RunsInv',
           UNCHANGED <<now, m_dependencies, m_completed_chains>>,
           \A p \in Phases : m_completed'[p] = m_completed[p],
           m_fg_running' = IF IsForeground(f) THEN m_fg_running + 1 ELSE m_fg_running,
           events' = evs, stack' = new, m_rem_dependencies' = rem
    PROVE  FlowInv'
<1>1. PICK F, G : F = Frames(rest) /\ G = Frames(new)
  OBVIOUS
<1>2. /\ VarTypes /\ CoreInv(evs, rest, rem, {f}) /\ FgInv(F) /\ ChainsInv(F)
      /\ f \in Flow /\ Created(f) /\ ~HasRun(f) /\ ~Pending(f, evs) /\ rem[f] = 0
      /\ RunsInv /\ GraphInv /\ RemInv(F, rem) /\ EventsInv(evs) /\ WaitInv(evs, rem, {f})
  BY <1>1 DEF MayRun, Inv, CoreInv
<1>3. /\ CallbacksInv' /\ \A g \in Flow : HasRun(g)' <=> g = f \/ HasRun(g)
  BY DEF Registered
<1>4. GraphInv'
  BY <1>2 DEF GraphInv
<1>5. RemInv(G, rem)'
  <2>1. \A g \in Flow : Unresolved(g, G)' = Unresolved(g, F)
    BY <1>1, NeedsFacts DEF Unresolved
  <2>2. QED
    BY <1>2, <1>3, <2>1 DEF RemInv
<1>6. EventsInv(evs)'
  <2>1. \A i \in DOMAIN evs : evs[i].flow \in Flow /\ evs[i].flow # f
    BY <1>2, EventTypes DEF Pending
  <2>2. QED
    BY <1>2, <1>3, <2>1 DEF EventsInv
<1>7. NestInv(evs, G)'
  BY <1>1 DEF NestInv
<1>8. WaitInv(evs, rem, {})'
  BY <1>2, <1>3 DEF WaitInv, Pending
<1>9. FgInv(G)'
  <2>1. ~m_completed[f] /\ ~Finished(f, F)
    BY <1>2 DEF RunsInv, Finished
  <2>2. RunningFg(G)' = IF IsForeground(f) THEN RunningFg(F) \union {f} ELSE RunningFg(F)
    BY <1>1, <1>2, <1>3, <2>1 DEF RunningFg, IsForeground
  <2>3. f \notin RunningFg(F)
    BY <1>2 DEF RunningFg
  <2>4. Cardinality(RunningFg(F) \union {f}) = Cardinality(RunningFg(F)) + 1
    BY <2>3, CountedSets, FS_AddElement
  <2>5. QED
    BY <1>2, <2>2, <2>4 DEF FgInv
<1>10. ChainsInv(G)'
  BY <1>1, <1>2 DEF ChainsInv
<1>11. QED
  BY <1>1, <1>3, <1>4, <1>5, <1>6, <1>7, <1>8, <1>9, <1>10 DEF FlowInv, Inv, CoreInv

\* A flow posts its writes.
LEMMA StartWritesInv ==
    ASSUME NEW evs, NEW rest, NEW rem, NEW f \in Simple,
           MayRun(evs, rest, rem, f), StartWrites(f, rest),
           UNCHANGED <<now, checked, m_dependencies, m_completed_chains, stopped>>,
           m_fg_running' = IF IsForeground(f) THEN m_fg_running + 1 ELSE m_fg_running,
           events' = evs, m_rem_dependencies' = rem
    PROVE  FlowInv' /\ HasJustRun(f)
<1>1. PICK F : F = Frames(rest)
  OBVIOUS
<1>2. /\ VarTypes /\ CoreInv(evs, rest, rem, {f}) /\ CallbacksInv /\ RunsInv
      /\ StackInv(rest) /\ NestInv(evs, Frames(rest))
      /\ Created(f) /\ ~HasRun(f) /\ f \in Flow
  BY DEF MayRun, Inv, CoreInv
<1>3. /\ writes' = [writes EXCEPT ![f] = @ + Writes[f]]
      /\ m_on_complete' = [m_on_complete EXCEPT ![f] = Append(@, "OnFlowFinish")]
      /\ stack' = rest
      /\ UNCHANGED <<m_completed, aborted>>
  BY DEF StartWrites
<1>4. Registered(f) /\ \A g : Created(g)' <=> Created(g)
  BY <1>2, <1>3, RegisterCallback DEF VarTypes
<1>5. /\ m_on_complete' \in [Flow -> Callbacks]
      /\ \A g \in Flow : HasRun(g)' <=> g = f \/ HasRun(g)
  BY <1>4 DEF Registered
<1>6. writes[f] = 0 /\ ~m_completed[f] /\ Writes[f] \in Nat \ {0} /\ f \notin Phases
  BY <1>2, SimpleFacts DEF RunsInv, VarTypes
<1>7. /\ writes' \in [Simple -> Nat]
      /\ \A g \in Simple : writes'[g] = IF g = f THEN Writes[f] ELSE writes[g]
  <2>1. writes \in [Simple -> Nat] /\ writes[f] + Writes[f] = Writes[f]
    BY <1>2, <1>6 DEF VarTypes
  <2>2. QED
    BY <1>3, <1>6, <2>1
<1>8. VarTypes'
  <2>1. m_fg_running' \in Nat
    BY <1>2 DEF VarTypes
  <2>2. QED
    BY <1>2, <1>3, <1>5, <1>7, <2>1 DEF VarTypes
<1>9. RunsInv'
  <2>1. \A g \in Simple : g \in Flow /\ Writes[g] \in Nat
    BY SimpleFacts
  <2>2. QED
    BY <1>2, <1>3, <1>5, <1>6, <1>7, <2>1 DEF RunsInv
<1>10. StackInv(rest)'
  BY <1>2, <1>3 DEF StackInv, FrameInv
<1>11. /\ \A g : Finished(g, F)' <=> Finished(g, F)
       /\ \A g, h : Resolved(g, h, F)' <=> Resolved(g, h, F)
       /\ \A p : ReportedChains(p, F)' = ReportedChains(p, F)
  <2>1. \A g : (Finished(g, F)' <=> Finished(g, F)) /\ (Reported(g, F)' <=> Reported(g, F))
    BY <1>3 DEF Finished, Reported
  <2>2. QED
    BY <2>1 DEF Resolved, ReportedChains
<1>12. /\ \A g \in Flow : Finished(g, Frames(rest))' <=> Finished(g, Frames(rest))
       /\ \A g, h \in Flow : Resolved(g, h, Frames(rest))' <=> Resolved(g, h, Frames(rest))
       /\ \A p \in Phases : ReportedChains(p, Frames(rest))' = ReportedChains(p, Frames(rest))
  BY <1>1, <1>11
<1>13. /\ UNCHANGED <<now, m_dependencies, m_completed_chains>>
       /\ \A p \in Phases : m_completed'[p] = m_completed[p]
  BY <1>3
<1>14. HasJustRun(f)
  BY <1>3, <1>5 DEF HasJustRun
<1>15. QED
  BY <1>14, <1>2, <1>3, <1>4, <1>6, <1>8, <1>9, <1>10, <1>12, <1>13, SimpleRunInv

\* A flow completes while it is started.
LEMMA StartImmediateInv ==
    ASSUME StartsApart, NEW evs, NEW rest, NEW rem, NEW f \in Immediate,
           MayRun(evs, rest, rem, f), StartImmediate(f, rest),
           UNCHANGED <<now, checked, m_dependencies, m_completed_chains, stopped>>,
           m_fg_running' = IF IsForeground(f) THEN m_fg_running + 1 ELSE m_fg_running,
           events' = evs, m_rem_dependencies' = rem
    PROVE  FlowInv' /\ HasJustRun(f)
<1>1. f \in Simple /\ f \in Flow /\ f \notin Phases /\ f \notin Children
  BY SimpleFacts DEF StartsApart
<1>2. /\ VarTypes /\ CoreInv(evs, rest, rem, {f}) /\ CallbacksInv /\ RunsInv
      /\ StackInv(rest) /\ NestInv(evs, Frames(rest)) /\ EventsInv(evs)
      /\ Created(f) /\ ~HasRun(f)
      /\ \A i \in DOMAIN evs : evs[i].flow \in ListedFlow /\ evs[i].time = now
            => Dependencies[evs[i].flow] \intersect Immediate = {}
  BY DEF MayRun, Inv, CoreInv
<1>3. writes[f] = 0 /\ ~m_completed[f]
  BY <1>1, <1>2 DEF RunsInv, VarTypes
<1>4. /\ m_on_complete' = [m_on_complete EXCEPT ![f] = Append(@, "OnFlowFinish")]
      /\ m_completed' = [m_completed EXCEPT ![f] = TRUE]
      /\ stack' = <<Completing(f, Append(m_on_complete[f], "OnFlowFinish"))>> \o rest
      /\ UNCHANGED <<aborted, writes>>
  BY <1>3 DEF StartImmediate, NotifyComplete
<1>5. Registered(f) /\ \A g : Created(g)' <=> Created(g)
  BY <1>1, <1>2, <1>4, RegisterCallback DEF VarTypes
<1>6. /\ m_on_complete' \in [Flow -> Callbacks]
      /\ m_on_complete'[f] = RunCallbacks(f)
      /\ \A g \in Flow : HasRun(g)' <=> g = f \/ HasRun(g)
  BY <1>5 DEF Registered
<1>7. Append(m_on_complete[f], "OnFlowFinish") = RunCallbacks(f)
  <2>1. m_on_complete \in [Flow -> Callbacks]
    BY <1>2 DEF VarTypes
  <2>2. m_on_complete'[f] = Append(m_on_complete[f], "OnFlowFinish")
    BY <1>1, <1>4, <2>1
  <2>3. QED
    BY <1>6, <2>2
<1>8. PICK new : new = <<Completing(f, RunCallbacks(f))>> \o rest
  OBVIOUS
<1>9. stack' = new
  BY <1>4, <1>7, <1>8
<1>10. m_completed \in [Flow -> BOOLEAN]
       /\ \A g \in Flow : m_completed'[g] = IF g = f THEN TRUE ELSE m_completed[g]
  BY <1>2, <1>4 DEF VarTypes
<1>11. CompletingDuties(f, rest, new)
  BY <1>1, <1>2, <1>3, <1>4, <1>8, <1>10, CompletingFrames
<1>12. VarTypes'
  <2>1. m_fg_running' \in Nat
    BY <1>2 DEF VarTypes
  <2>2. QED
    BY <1>2, <1>4, <1>6, <2>1 DEF VarTypes
<1>13. RunsInv'
  <2>1. \A g \in Simple : g \in Flow
    BY SimpleFacts
  <2>2. \A g \in Flow : m_completed'[g] => HasRun(g)'
    BY <1>2, <1>6, <1>10 DEF RunsInv
  <2>3. QED
    BY <1>2, <1>3, <1>4, <1>6, <1>10, <2>1, <2>2 DEF RunsInv
<1>14. NestInv(evs, Frames(new))
  <2>1. \A y \in Frames(new) : y.flow = f \/ y \in Frames(rest)
    <3>1. Completing(f, RunCallbacks(f)).flow = f
      BY DEF Completing
    <3>2. QED
      BY <1>11, <3>1 DEF CompletingDuties
  <2>2. \A p \in Phases : f \notin ChildrenOf(p)
    BY <1>1, ListedOrChild
  <2>3. QED
    BY <1>2, <2>1, <2>2 DEF NestInv
<1>15. /\ StackInv(new)'
       /\ \A g \in Flow : Finished(g, Frames(new))' <=> Finished(g, Frames(rest))
       /\ \A g, h \in Flow : Resolved(g, h, Frames(new))' <=> Resolved(g, h, Frames(rest))
       /\ \A p \in Phases : ReportedChains(p, Frames(new))' = ReportedChains(p, Frames(rest))
  BY <1>11 DEF CompletingDuties
<1>16. /\ UNCHANGED <<now, m_dependencies, m_completed_chains>>
       /\ \A p \in Phases : m_completed'[p] = m_completed[p]
  BY <1>1, <1>10, SimpleFacts
<1>17. HasJustRun(f)
  BY <1>4, <1>6 DEF HasJustRun
<1>18. QED
  BY <1>17, <1>1, <1>5, <1>9, <1>12, <1>13, <1>14, <1>15, <1>16, SimpleRunInv

\* The start events of the multicasts and waits that a phase adds.
ChildEvents(p) == [i \in DOMAIN Added[p] |-> [flow |-> Added[p][i], time |-> now]]

\* The events `new` are evs and one event for each child of p, which is due.
AddsChildren(p, evs, new) ==
    /\ new \in Seq([flow: Flow, time: Nat])
    /\ DOMAIN evs \subseteq DOMAIN new
    /\ \A i \in DOMAIN evs : new[i] = evs[i]
    /\ \A i \in DOMAIN new \ DOMAIN evs : new[i].flow \in ChildrenOf(p) /\ new[i].time = now
    /\ \A f \in ChildrenOf(p) : Pending(f, new)
    /\ \A i, j \in DOMAIN new \ DOMAIN evs : new[i].flow = new[j].flow => i = j

LEMMA PhaseEvents ==
    ASSUME NEW evs, EventsInv(evs), NEW p \in Phases, NEW new,
           new = evs \o ChildEvents(p), now \in Nat
    PROVE  AddsChildren(p, evs, new)
<1>1. /\ Added[p] \in Seq(Children) /\ IsInjective(Added[p])
      /\ Range(Added[p]) = ChildrenOf(p)
  BY ChainsAssumption
<1>2. PICK add, n, m : /\ add = Added[p] /\ n = Len(evs) /\ m = Len(Added[p])
  OBVIOUS
<1>3. /\ m \in Nat /\ DOMAIN add = 1 .. m /\ \A i \in 1 .. m : add[i] \in Children
  BY <1>1, <1>2, ElementTypes
<1>4. /\ n \in Nat /\ DOMAIN evs = 1 .. n
  BY <1>2, EventTypes
<1>5. PICK tail : tail = [i \in 1 .. m |-> [flow |-> add[i], time |-> now]]
  OBVIOUS
<1>6. /\ \A i \in 1 .. m : tail[i] = [flow |-> add[i], time |-> now]
      /\ tail \in Seq([flow: Flow, time: Nat]) /\ Len(tail) = m
  <2>1. \A i \in 1 .. m : [flow |-> add[i], time |-> now] \in [flow: Flow, time: Nat]
    BY <1>3, ListedOrChild
  <2>2. tail \in [1 .. m -> [flow: Flow, time: Nat]]
    BY <1>5, <2>1
  <2>3. tail \in Seq([flow: Flow, time: Nat]) /\ Len(tail) = m
    BY <1>3, <2>2, IsSequence
  <2>4. QED
    BY <1>5, <2>3
<1>7. new = evs \o tail /\ evs \in Seq([flow: Flow, time: Nat])
  BY <1>2, <1>3, <1>5 DEF EventsInv, ChildEvents
<1>8. /\ new \in Seq([flow: Flow, time: Nat])
      /\ DOMAIN new = 1 .. n + m
      /\ \A i \in 1 .. n : new[i] = evs[i]
      /\ \A i \in 1 .. m : new[n + i] = tail[i]
  <2>1. PICK S : S = [flow: Flow, time: Nat]
    OBVIOUS
  <2>2. evs \in Seq(S) /\ tail \in Seq(S)
    BY <1>6, <1>7, <2>1
  <2>3. /\ evs \o tail \in Seq(S)
        /\ DOMAIN (evs \o tail) = 1 .. Len(evs) + Len(tail)
        /\ \A i \in 1 .. Len(evs) : (evs \o tail)[i] = evs[i]
        /\ \A i \in 1 .. Len(tail) : (evs \o tail)[Len(evs) + i] = tail[i]
    BY <2>2, ConcatFacts
  <2>4. QED
    BY <1>2, <1>6, <1>7, <2>1, <2>3
<1>9. \A i \in DOMAIN new \ DOMAIN evs :
         /\ i - n \in 1 .. m /\ new[i].flow = add[i - n] /\ new[i].time = now
  <2> TAKE i \in DOMAIN new \ DOMAIN evs
  <2>1. i - n \in 1 .. m /\ n + (i - n) = i
    <3>1. n \in Nat /\ m \in Nat /\ i \in 1 .. n + m /\ i \notin 1 .. n
      BY <1>3, <1>4, <1>8
    <3>2. QED
      BY <3>1
  <2>2. new[i] = tail[i - n]
    BY <1>8, <2>1
  <2>3. QED
    BY <1>6, <2>1, <2>2
<1>10. \A i \in 1 .. m : add[i] \in ChildrenOf(p)
  BY <1>1, <1>2, <1>3 DEF Range
<1>11. \A f \in ChildrenOf(p) : Pending(f, new)
  <2> TAKE f \in ChildrenOf(p)
  <2>1. PICK i \in 1 .. m : f = add[i]
    BY <1>1, <1>2, <1>3 DEF Range
  <2>2. n + i \in DOMAIN new /\ new[n + i].flow = f
    BY <1>3, <1>4, <1>6, <1>8, <2>1
  <2>3. QED
    BY <2>2 DEF Pending
<1>12. \A i, j \in DOMAIN new \ DOMAIN evs : new[i].flow = new[j].flow => i = j
  <2> TAKE i, j \in DOMAIN new \ DOMAIN evs
  <2> HAVE new[i].flow = new[j].flow
  <2>1. add[i - n] = add[j - n] /\ i - n \in 1 .. m /\ j - n \in 1 .. m
    BY <1>9
  <2>2. i - n = j - n
    BY <1>1, <1>2, <1>3, <2>1 DEF IsInjective
  <2>3. i \in Nat /\ j \in Nat
    BY <1>3, <1>4, <1>8
  <2>4. QED
    BY <1>4, <2>2, <2>3
<1>13. DOMAIN evs \subseteq DOMAIN new
  BY <1>3, <1>4, <1>8
<1>14. \A i \in DOMAIN evs : new[i] = evs[i]
  BY <1>4, <1>8
<1>15. \A i \in DOMAIN new \ DOMAIN evs : new[i].flow \in ChildrenOf(p) /\ new[i].time = now
  BY <1>9, <1>10
<1>16. QED
  BY <1>8, <1>11, <1>12, <1>13, <1>14, <1>15 DEF AddsChildren

\* A phase hands its multicasts and waits over to the scheduler.
LEMMA StartPhaseInv ==
    ASSUME NEW evs, NEW rest, NEW rem, NEW p \in Phases,
           MayRun(evs, rest, rem, p), StartPhase(p, rest, evs, rem),
           UNCHANGED <<now, checked, m_completed_chains, stopped>>,
           m_fg_running' = IF IsForeground(p) THEN m_fg_running + 1 ELSE m_fg_running
    PROVE  FlowInv' /\ HasJustRun(p)
<1>1. PICK F : F = Frames(rest)
  OBVIOUS
<1>2. /\ VarTypes /\ CallbacksInv /\ RunsInv /\ GraphInv /\ StackInv(rest)
      /\ RemInv(F, rem) /\ EventsInv(evs) /\ NestInv(evs, F) /\ WaitInv(evs, rem, {p})
      /\ FgInv(F) /\ ChainsInv(F)
      /\ Created(p) /\ ~HasRun(p) /\ ~Pending(p, evs) /\ rem[p] = 0
  BY <1>1 DEF MayRun, Inv, CoreInv
<1>3. p \in Flow /\ p \in ListedFlow /\ p \notin Children /\ ~IsLastOfChain(p)
  BY PhaseFacts
<1>4. /\ Range(Added[p]) = ChildrenOf(p) /\ ChildrenOf(p) \subseteq Children
      /\ ChildrenOf(p) \subseteq Flow /\ p \notin ChildrenOf(p)
  BY <1>3, ChainsAssumption, ListedOrChild
<1>5. PICK evs2, rem2 :
         /\ evs2 = evs \o ChildEvents(p)
         /\ rem2 = [f \in Flow |-> IF f \in ChildrenOf(p) THEN Cardinality(Predecessors(f))
                                                          ELSE rem[f]]
  OBVIOUS
<1>6. /\ events' = evs2 /\ m_rem_dependencies' = rem2 /\ stack' = rest
      /\ m_dependencies' = [f \in Flow |->
            m_dependencies[f] \union {g \in ChildrenOf(p) : f \in Predecessors(g)}]
      /\ m_on_complete' = [f \in Flow |->
            IF f = p THEN Append(m_on_complete[p], "OnFlowFinish")
            ELSE IF f \in ChildrenOf(p) /\ IsLastOfChain(f) THEN <<"OnChainComplete">>
            ELSE m_on_complete[f]]
      /\ UNCHANGED <<m_completed, writes, aborted>>
  BY <1>4, <1>5 DEF StartPhase, ChildEvents
\* The children have not been created before.
<1>7. \A g \in ChildrenOf(p) :
         ~Created(g) /\ m_on_complete[g] = << >> /\ ~HasRun(g) /\ ~m_completed[g]
  <2> TAKE g \in ChildrenOf(p)
  <2>1. ~Created(g)
    BY <1>2, <1>4, ListedOrChild, ChildFacts DEF Created
  <2>2. m_on_complete[g] = << >>
    BY <1>2, <1>4, <2>1 DEF CallbacksInv
  <2>3. ~HasRun(g)
    BY <2>2 DEF HasRun
  <2>4. QED
    BY <1>2, <1>4, <2>1, <2>2, <2>3 DEF RunsInv
<1>8. m_on_complete[p] = << >>
  <2>1. m_on_complete[p] \in {<< >>, <<"OnFlowFinish">>}
    BY <1>2, <1>3 DEF CallbacksInv
  <2>2. Ran(<<"OnFlowFinish">>)
    BY RanMeans DEF Callbacks
  <2>3. QED
    BY <1>2, <2>1, <2>2 DEF HasRun, Ran
<1>9. \A f \in Flow : m_on_complete'[f] =
         IF f = p THEN <<"OnFlowFinish">>
         ELSE IF f \in ChildrenOf(p) /\ IsLastOfChain(f) THEN <<"OnChainComplete">>
         ELSE m_on_complete[f]
  BY <1>3, <1>6, <1>8, AppendTo
<1>10. Ran(<<"OnFlowFinish">>) /\ ~Ran(<<"OnChainComplete">>)
  <2>1. <<"OnFlowFinish">> \in Callbacks /\ <<"OnChainComplete">> \in Callbacks
    BY DEF Callbacks
  <2>2. <<"OnChainComplete">> \notin {<<"OnFlowFinish">>, <<"OnChainComplete", "OnFlowFinish">>}
    OBVIOUS
  <2>3. QED
    BY <2>1, <2>2, RanMeans
<1>11. \A f \in Flow : HasRun(f)' <=> f = p \/ HasRun(f)
  BY <1>7, <1>9, <1>10 DEF HasRun, Ran
<1>12. \A f : Created(f)' <=> f \in ChildrenOf(p) \/ Created(f)
  <2>1. \A r \in Phases : HasRun(r)' <=> r = p \/ HasRun(r)
    BY <1>11, SimpleFacts
  <2>2. QED
    BY <2>1 DEF Created
<1>13. m_on_complete' \in [Flow -> Callbacks]
  <2>1. m_on_complete \in [Flow -> Callbacks]
    BY <1>2 DEF VarTypes
  <2>2. \A f \in Flow : m_on_complete'[f] \in Callbacks
    BY <1>9, <2>1 DEF Callbacks
  <2>3. QED
    BY <1>6, <2>2
<1>14. VarTypes'
  <2>1. m_dependencies' \in [Flow -> SUBSET Flow]
    BY <1>2, <1>4, <1>6 DEF VarTypes
  <2>2. m_fg_running' \in Nat
    BY <1>2 DEF VarTypes
  <2>3. QED
    BY <1>2, <1>6, <1>13, <2>1, <2>2 DEF VarTypes
<1>15. CallbacksInv'
  BY <1>2, <1>3, <1>7, <1>9, <1>12 DEF CallbacksInv
<1>16. RunsInv'
  BY <1>2, <1>6, <1>11, SimpleFacts DEF RunsInv
<1>17. GraphInv'
  <2>1. ASSUME NEW f \in Flow, NEW g \in Flow
        PROVE  g \in m_dependencies'[f] <=> Created(g)' /\ f \in Needs[g]
    <3>1. g \in m_dependencies'[f] <=>
             g \in m_dependencies[f] \/ (g \in ChildrenOf(p) /\ f \in Predecessors(g))
      BY <1>6
    <3>2. g \in ChildrenOf(p) => Needs[g] = Predecessors(g)
      BY <1>4, NeedsFacts
    <3>3. QED
      BY <1>2, <1>12, <3>1, <3>2 DEF GraphInv
  <2>2. QED
    BY <2>1 DEF GraphInv
<1>18. StackInv(rest)'
  <2>1. \A x \in F : x.flow \in Flow
    <3>1. rest \in Seq(Frame)
      BY <1>2 DEF StackInv
    <3>2. QED
      BY <1>1, <3>1, ElementTypes, FrameFacts DEF Frames
  <2>2. \A f \in Flow : m_dependencies[f] \subseteq m_dependencies'[f]
    BY <1>6
  <2>3. \A x \in F : FrameInv(x, F)'
    BY <1>1, <1>2, <1>6, <2>1, <2>2 DEF StackInv, FrameInv
  <2>4. QED
    BY <1>1, <1>2, <2>3 DEF StackInv
<1>19. /\ \A g : Finished(g, F)' <=> Finished(g, F)
       /\ \A g, h : Resolved(g, h, F)' <=> Resolved(g, h, F)
       /\ \A r : ReportedChains(r, F)' = ReportedChains(r, F)
  <2>1. \A g : (Finished(g, F)' <=> Finished(g, F)) /\ (Reported(g, F)' <=> Reported(g, F))
    BY <1>6 DEF Finished, Reported
  <2>2. QED
    BY <2>1 DEF Resolved, ReportedChains
<1>20. RemInv(F, rem2)'
  <2>1. \A g \in Flow : Unresolved(g, F)' = Unresolved(g, F)
    BY <1>19 DEF Unresolved
  <2>2. ASSUME NEW g \in ChildrenOf(p)
        PROVE  Unresolved(g, F) = Predecessors(g) /\ Cardinality(Predecessors(g)) \in Nat
    <3>1. g \in Flow /\ Needs[g] = Predecessors(g) /\ IsFiniteSet(Needs[g])
      BY <1>4, NeedsFacts
    <3>2. \A f \in Predecessors(g) : f \in ChildrenOf(p)
      BY <3>1, NeedsFacts, ChildFacts
    <3>3. \A f \in Predecessors(g) : ~Resolved(f, g, F)
      BY <1>7, <3>2 DEF Resolved, Finished
    <3>4. QED
      BY <3>1, <3>3, FS_CardinalityType DEF Unresolved
  <2>3. \A g \in Flow : rem2[g] = IF g \in ChildrenOf(p) THEN Cardinality(Predecessors(g))
                                                         ELSE rem[g]
    BY <1>5
  <2>4. rem2 \in [Flow -> Nat]
    <3>1. rem \in [Flow -> Nat]
      BY <1>2 DEF RemInv
    <3>2. \A g \in Flow : rem2[g] \in Nat
      BY <2>2, <2>3, <3>1
    <3>3. QED
      BY <1>5, <3>2
  <2>5. \A g \in Flow : Created(g)' => rem2[g] = Cardinality(Unresolved(g, F))
    BY <1>2, <1>12, <2>2, <2>3 DEF RemInv
  <2>6. \A g \in Flow : HasRun(g)' => rem2[g] = 0
    BY <1>2, <1>4, <1>7, <1>11, <2>3 DEF RemInv
  <2>7. QED
    BY <2>1, <2>4, <2>5, <2>6 DEF RemInv
<1>21. /\ evs2 \in Seq([flow: Flow, time: Nat])
       /\ DOMAIN evs \subseteq DOMAIN evs2
       /\ \A i \in DOMAIN evs : evs2[i] = evs[i]
       /\ \A i \in DOMAIN evs2 \ DOMAIN evs :
             evs2[i].flow \in ChildrenOf(p) /\ evs2[i].time = now
       /\ \A f \in ChildrenOf(p) : Pending(f, evs2)
       /\ \A i, j \in DOMAIN evs2 \ DOMAIN evs : evs2[i].flow = evs2[j].flow => i = j
  <2>1. now \in Nat
    BY <1>2, FlowAssumption DEF VarTypes
  <2>2. EventsInv(evs) /\ evs2 = evs \o ChildEvents(p)
    BY <1>2, <1>5
  <2>3. AddsChildren(p, evs, evs2)
    BY <2>1, <2>2, PhaseEvents
  <2>4. QED
    BY <2>3 DEF AddsChildren
<1>22. \A i \in DOMAIN evs : /\ evs[i].flow \in Flow /\ evs[i].flow # p
                             /\ evs[i].flow \notin ChildrenOf(p)
  BY <1>2, <1>7, EventTypes DEF EventsInv, Pending
<1>23. EventsInv(evs2)'
  <2>1. ASSUME NEW i \in DOMAIN evs2
        PROVE  /\ Created(evs2[i].flow)' /\ ~HasRun(evs2[i].flow)'
               /\ evs2[i].time >= now
               /\ evs2[i].flow \in ListedFlow => evs2[i].time = StartTime[evs2[i].flow]
               /\ evs2[i].flow \in Children => evs2[i].time = now
    <3>1. CASE i \in DOMAIN evs
      BY <1>2, <1>11, <1>12, <1>21, <1>22, <3>1 DEF EventsInv
    <3>2. CASE i \notin DOMAIN evs
      <4>1. evs2[i].flow \in ChildrenOf(p) /\ evs2[i].time = now
        BY <1>21, <3>2
      <4>2. evs2[i].flow \in Flow /\ evs2[i].flow # p /\ evs2[i].flow \notin ListedFlow
        BY <1>4, <4>1, ListedOrChild
      <4>3. now >= now
        BY <1>2, FlowAssumption DEF VarTypes
      <4>4. QED
        BY <1>7, <1>11, <1>12, <4>1, <4>2, <4>3
    <3>3. QED
      BY <3>1, <3>2
  <2>2. \A i, j \in DOMAIN evs2 : evs2[i].flow = evs2[j].flow => i = j
    BY <1>2, <1>21, <1>22 DEF EventsInv
  <2>3. \A i, j \in DOMAIN evs2, a, b \in DOMAIN Listed :
           evs2[i].flow = Listed[a] /\ evs2[j].flow = Listed[b] /\ i < j => a < b
    <3>1. \A i \in DOMAIN evs2 : evs2[i].flow \in ListedFlow => i \in DOMAIN evs
      BY <1>4, <1>21, ListedOrChild
    <3>2. \A a \in DOMAIN Listed : Listed[a] \in ListedFlow
      BY DEF ListedFlow, Range
    <3>3. QED
      BY <1>2, <1>21, <3>1, <3>2 DEF EventsInv
  <2>4. QED
    BY <1>21, <2>1, <2>2, <2>3 DEF EventsInv
<1>24. NestInv(evs2, F)'
  <2>1. \A x \in F : m_completed[x.flow]
    BY <1>1, <1>2 DEF StackInv, FrameInv
  <2>2. ASSUME NEW i \in DOMAIN evs2, NEW x \in F
        PROVE  /\ evs2[i].flow \in ListedFlow /\ evs2[i].time = now
                     => x.flow \in Immediate /\ Dependencies[evs2[i].flow] \intersect Immediate = {}
               /\ \A r \in Phases : evs2[i].flow \in ChildrenOf(r) => x.flow \notin ChildrenOf(r)
    <3>1. CASE i \in DOMAIN evs
      BY <1>2, <1>21, <3>1 DEF NestInv
    <3>2. CASE i \notin DOMAIN evs
      <4>1. evs2[i].flow \in ChildrenOf(p) /\ evs2[i].flow \notin ListedFlow
        BY <1>4, <1>21, <3>2, ListedOrChild
      <4>2. \A r \in Phases : evs2[i].flow \in ChildrenOf(r) => r = p
        BY <4>1, ChildFacts
      <4>3. x.flow \notin ChildrenOf(p)
        BY <1>7, <2>1
      <4>4. QED
        BY <4>1, <4>2, <4>3
    <3>3. QED
      BY <3>1, <3>2
  <2>3. QED
    BY <2>2 DEF NestInv
<1>25. WaitInv(evs2, rem2, {})'
  <2>1. \A g : Pending(g, evs) => Pending(g, evs2)
    BY <1>21 DEF Pending
  <2>2. \A g \in Flow \ ChildrenOf(p) : rem2[g] = rem[g]
    BY <1>5
  <2>3. QED
    BY <1>2, <1>11, <1>12, <1>21, <2>1, <2>2 DEF WaitInv
<1>26. FgInv(F)'
  <2>1. ~m_completed[p] /\ ~Finished(p, F)
    BY <1>2, <1>3 DEF RunsInv, Finished
  <2>2. RunningFg(F)' = IF IsForeground(p) THEN RunningFg(F) \union {p} ELSE RunningFg(F)
    BY <1>3, <1>11, <1>19, <2>1 DEF RunningFg, IsForeground
  <2>3. p \notin RunningFg(F)
    BY <1>2 DEF RunningFg
  <2>4. Cardinality(RunningFg(F) \union {p}) = Cardinality(RunningFg(F)) + 1
    BY <2>3, CountedSets, FS_AddElement
  <2>5. QED
    BY <1>2, <2>2, <2>4 DEF FgInv
<1>27. ChainsInv(F)'
  BY <1>2, <1>6, <1>19 DEF ChainsInv
<1>28. HasJustRun(p)
  BY <1>6, <1>11 DEF HasJustRun
<1>29. QED
  BY <1>28, <1>1, <1>6, <1>14, <1>15, <1>16, <1>17, <1>18, <1>20, <1>23, <1>24, <1>25, <1>26, <1>27
  DEF FlowInv, Inv, CoreInv

\* Any flow.
LEMMA RunFlowInv ==
    ASSUME StartsApart, NEW evs, NEW rest, NEW rem, NEW f,
           MayRun(evs, rest, rem, f), RunFlow(f, rest, evs, rem),
           UNCHANGED <<now, checked, stopped>>
    PROVE  FlowInv' /\ HasJustRun(f)
<1>1. /\ m_fg_running' = IF IsForeground(f) THEN m_fg_running + 1 ELSE m_fg_running
      /\ StartFlow(f, rest, evs, rem)
      /\ UNCHANGED m_completed_chains
  BY DEF RunFlow
<1>2. CASE f \in Phases /\ StartPhase(f, rest, evs, rem)
  BY <1>1, <1>2, StartPhaseInv
<1>3. CASE /\ f \in Simple
           /\ StartWrites(f, rest) \/ (f \in Immediate /\ StartImmediate(f, rest))
           /\ events' = evs
           /\ m_rem_dependencies' = rem
           /\ UNCHANGED m_dependencies
  <2>1. CASE StartWrites(f, rest)
    BY <1>1, <1>3, <2>1, StartWritesInv
  <2>2. CASE f \in Immediate /\ StartImmediate(f, rest)
    BY <1>1, <1>3, <2>2, StartImmediateInv
  <2>3. QED
    BY <1>3, <2>1, <2>2
<1>4. QED
  BY <1>1, <1>2, <1>3 DEF StartFlow

-----------------------------------------------------------------------------
(* The start events.                                                       *)

\* The events `new` are evs without the one at i.
RemovesEvent(i, evs, new) ==
    /\ new \in Seq([flow: Flow, time: Nat])
    /\ \A k \in DOMAIN new : \E j \in DOMAIN evs : j # i /\ new[k] = evs[j]
    /\ \A j \in DOMAIN evs \ {i} : \E k \in DOMAIN new : new[k] = evs[j]
    /\ \A k, l \in DOMAIN new : \E j, m \in DOMAIN evs \ {i} :
          /\ new[k] = evs[j] /\ new[l] = evs[m]
          /\ j = m => k = l
          /\ k < l => j < m

LEMMA EventRemoved ==
    ASSUME NEW evs, EventsInv(evs), NEW i \in DOMAIN evs, NEW new, new = RemoveAt(evs, i)
    PROVE  RemovesEvent(i, evs, new)
<1>1. PICK S, n : S = [flow: Flow, time: Nat] /\ n = Len(evs)
  OBVIOUS
<1>2. evs \in Seq(S) /\ n \in Nat /\ i \in 1 .. n /\ DOMAIN evs = 1 .. n
  BY <1>1, EventTypes DEF EventsInv
<1>3. PICK s, t : s = SubSeq(evs, 1, i - 1) /\ t = SubSeq(evs, i + 1, n)
  OBVIOUS
<1>4. /\ s \in Seq(S) /\ Len(s) = i - 1
      /\ \A k \in 1 .. i - 1 : s[k] = evs[k]
  <2>1. /\ \A k \in 1 .. i - 1 : evs[k] \in S
        /\ 1 \in Int /\ i - 1 \in Int
    BY <1>2
  <2>2. /\ s \in Seq(S)
        /\ Len(s) = IF 1 <= i - 1 THEN i - 1 - 1 + 1 ELSE 0
        /\ \A k \in 1 .. i - 1 - 1 + 1 : s[k] = evs[1 + k - 1]
    BY <1>3, <2>1, SubSeqProperties
  <2>3. QED
    BY <1>2, <2>2
<1>5. /\ t \in Seq(S) /\ Len(t) = n - i
      /\ \A k \in 1 .. n - i : t[k] = evs[i + k]
  <2>1. /\ \A k \in i + 1 .. n : evs[k] \in S
        /\ i + 1 \in Int /\ n \in Int
    BY <1>2
  <2>2. /\ t \in Seq(S)
        /\ Len(t) = IF i + 1 <= n THEN n - (i + 1) + 1 ELSE 0
        /\ \A k \in 1 .. n - (i + 1) + 1 : t[k] = evs[i + 1 + k - 1]
    BY <1>3, <2>1, SubSeqProperties
  <2>3. Len(t) = n - i
    BY <1>2, <2>2
  <2>4. ASSUME NEW k \in 1 .. n - i PROVE t[k] = evs[i + k]
    <3>1. k \in 1 .. n - (i + 1) + 1 /\ i + 1 + k - 1 = i + k
      BY <1>2
    <3>2. QED
      BY <2>2, <3>1
  <2>5. QED
    BY <2>2, <2>3, <2>4
<1>6. new = s \o t
  BY <1>1, <1>3 DEF RemoveAt
<1>7. /\ new \in Seq(S)
      /\ DOMAIN new = 1 .. (i - 1) + (n - i)
      /\ \A k \in 1 .. i - 1 : new[k] = evs[k]
      /\ \A k \in 1 .. n - i : new[(i - 1) + k] = evs[i + k]
  <2>1. /\ s \o t \in Seq(S)
        /\ DOMAIN (s \o t) = 1 .. Len(s) + Len(t)
        /\ \A k \in 1 .. Len(s) : (s \o t)[k] = s[k]
        /\ \A k \in 1 .. Len(t) : (s \o t)[Len(s) + k] = t[k]
    <3>1. s \in Seq(S) /\ t \in Seq(S)
      BY <1>4, <1>5
    <3>2. QED
      BY ONLY <3>1, ConcatFacts
  <2>2. QED
    BY <1>4, <1>5, <1>6, <2>1
<1> DEFINE At(k) == IF k < i THEN k ELSE k + 1
<1>8. DOMAIN new = 1 .. n - 1
  <2>1. (i - 1) + (n - i) = n - 1
    BY <1>2
  <2>2. QED
    BY <1>7, <2>1
<1>9. \A k \in DOMAIN new : At(k) \in DOMAIN evs \ {i} /\ new[k] = evs[At(k)]
  <2> TAKE k \in DOMAIN new
  <2>1. k \in 1 .. n - 1 /\ k \in Int
    BY <1>8
  <2>2. CASE k < i
    <3>1. k \in 1 .. i - 1 /\ k \in 1 .. n /\ k # i
      BY <1>2, <2>1, <2>2
    <3>2. QED
      BY <1>2, <1>7, <2>2, <3>1
  <2>3. CASE ~(k < i)
    <3>1. k - (i - 1) \in 1 .. n - i /\ (i - 1) + (k - (i - 1)) = k /\ i + (k - (i - 1)) = k + 1
          /\ k + 1 \in 1 .. n /\ k + 1 # i
      BY <1>2, <2>1, <2>3
    <3>2. new[(i - 1) + (k - (i - 1))] = evs[i + (k - (i - 1))]
      BY <1>7, <3>1
    <3>3. new[k] = evs[k + 1]
      BY <3>1, <3>2
    <3>4. QED
      BY <1>2, <2>3, <3>1, <3>3
  <2>4. QED
    BY <2>2, <2>3
<1>10. \A j \in DOMAIN evs \ {i} : \E k \in DOMAIN new : At(k) = j
  <2> TAKE j \in DOMAIN evs \ {i}
  <2>1. j \in 1 .. n /\ j # i
    BY <1>2
  <2>2. CASE j < i
    <3>1. j \in 1 .. n - 1
      BY <1>2, <2>1, <2>2
    <3>2. QED
      BY <1>8, <2>2, <3>1
  <2>3. CASE ~(j < i)
    <3>1. j - 1 \in 1 .. n - 1 /\ ~(j - 1 < i) /\ (j - 1) + 1 = j
      BY <1>2, <2>1, <2>3
    <3>2. QED
      BY <1>8, <3>1
  <2>4. QED
    BY <2>2, <2>3
<1>11. \A k, l \in DOMAIN new : (At(k) = At(l) => k = l) /\ (k < l => At(k) < At(l))
  <2> TAKE k, l \in DOMAIN new
  <2>1. k \in Int /\ l \in Int /\ i \in Int
    BY <1>2, <1>8
  <2>2. QED
    BY <2>1
<1> HIDE DEF At
<1>12. \A k \in DOMAIN new : \E j \in DOMAIN evs : j # i /\ new[k] = evs[j]
  BY <1>9
<1>13. \A j \in DOMAIN evs \ {i} : \E k \in DOMAIN new : new[k] = evs[j]
  BY <1>9, <1>10
<1>14. \A k, l \in DOMAIN new : \E j, m \in DOMAIN evs \ {i} :
          /\ new[k] = evs[j] /\ new[l] = evs[m]
          /\ j = m => k = l
          /\ k < l => j < m
  <2> TAKE k, l \in DOMAIN new
  <2>1. At(k) \in DOMAIN evs \ {i} /\ At(l) \in DOMAIN evs \ {i}
    BY <1>9
  <2>2. QED
    BY <1>9, <1>11, <2>1
<1>15. QED
  BY <1>1, <1>7, <1>12, <1>13, <1>14 DEF RemovesEvent

LEMMA StartEventInv ==
    ASSUME StartsApart, FlowInv, NEW i \in DOMAIN events, StartEvent(i)
    PROVE  FlowInv' /\ RunsOneOrNone
<1>1. PICK evs, rem, f, new :
         /\ evs = events /\ rem = m_rem_dependencies /\ f = events[i].flow
         /\ new = RemoveAt(events, i)
  OBVIOUS
<1>2. /\ stack = << >> /\ evs[i].time = now
      /\ \A j \in 1 .. (i - 1) : evs[j].time # now
      /\ \/ MayStart(f) /\ RunFlow(f, << >>, new, rem)
         \/ /\ ~MayStart(f)
            /\ events' = new
            /\ UNCHANGED <<stack, graph_vars, m_fg_running, flow_vars, aborted>>
      /\ UNCHANGED <<now, checked, stopped>>
  BY <1>1 DEF StartEvent, Idle, Due
<1>3. /\ VarTypes /\ CoreInv(evs, << >>, rem, {}) /\ FgInv(Frames(<< >>))
      /\ ChainsInv(Frames(<< >>)) /\ EventsInv(evs) /\ WaitInv(evs, rem, {})
      /\ RemInv(Frames(<< >>), rem)
  BY <1>1, <1>2 DEF FlowInv, Inv, CoreInv
<1>4. i \in DOMAIN evs /\ DOMAIN evs = 1 .. Len(evs) /\ Len(evs) \in Nat
      /\ \A j \in DOMAIN evs : evs[j].flow \in Flow /\ evs[j].time \in Nat
  BY <1>1, <1>3, EventTypes
<1>5. RemovesEvent(i, evs, new)
  BY <1>1, <1>3, <1>4, EventRemoved
<1>6. /\ new \in Seq([flow: Flow, time: Nat])
      /\ \A k \in DOMAIN new : \E j \in DOMAIN evs : j # i /\ new[k] = evs[j]
      /\ \A j \in DOMAIN evs \ {i} : \E k \in DOMAIN new : new[k] = evs[j]
      /\ \A k, l \in DOMAIN new : \E j, m \in DOMAIN evs \ {i} :
            /\ new[k] = evs[j] /\ new[l] = evs[m]
            /\ j = m => k = l
            /\ k < l => j < m
  BY <1>5 DEF RemovesEvent
<1>7. /\ f \in Flow /\ Created(f) /\ ~HasRun(f) /\ f = evs[i].flow
      /\ f \in ListedFlow => StartTime[f] = now
  BY <1>1, <1>2, <1>3, <1>4 DEF EventsInv
<1>8. ~Pending(f, new)
  <2>1. ASSUME NEW k \in DOMAIN new PROVE new[k].flow # f
    <3>1. PICK j \in DOMAIN evs : j # i /\ new[k] = evs[j]
      BY <1>6
    <3>2. evs[j].flow = evs[i].flow => j = i
      BY <1>3, <1>4 DEF EventsInv
    <3>3. QED
      BY <1>7, <3>1, <3>2
  <2>2. QED
    BY <2>1 DEF Pending
<1>9. \A g : Pending(g, evs) /\ g # f => Pending(g, new)
  BY <1>6, <1>7 DEF Pending
<1>10. EventsInv(new)
  <2>1. \A k \in DOMAIN new :
           /\ Created(new[k].flow) /\ ~HasRun(new[k].flow)
           /\ new[k].time >= now
           /\ new[k].flow \in ListedFlow => new[k].time = StartTime[new[k].flow]
           /\ new[k].flow \in Children => new[k].time = now
    <3> TAKE k \in DOMAIN new
    <3>1. PICK j \in DOMAIN evs : j # i /\ new[k] = evs[j]
      BY <1>6
    <3>2. /\ Created(evs[j].flow) /\ ~HasRun(evs[j].flow)
          /\ evs[j].time >= now
          /\ evs[j].flow \in ListedFlow => evs[j].time = StartTime[evs[j].flow]
          /\ evs[j].flow \in Children => evs[j].time = now
      BY <1>3 DEF EventsInv
    <3>3. QED
      BY <3>1, <3>2
  <2>2. ASSUME NEW k \in DOMAIN new, NEW l \in DOMAIN new
        PROVE  /\ new[k].flow = new[l].flow => k = l
               /\ \A a, b \in DOMAIN Listed :
                     new[k].flow = Listed[a] /\ new[l].flow = Listed[b] /\ k < l => a < b
    <3>1. PICK j \in DOMAIN evs \ {i}, m \in DOMAIN evs \ {i} :
             /\ new[k] = evs[j] /\ new[l] = evs[m]
             /\ j = m => k = l
             /\ k < l => j < m
      BY <1>6
    <3>2. evs[j].flow = evs[m].flow => j = m
      BY <1>3 DEF EventsInv
    <3>3. \A a, b \in DOMAIN Listed :
             evs[j].flow = Listed[a] /\ evs[m].flow = Listed[b] /\ j < m => a < b
      BY <1>3 DEF EventsInv
    <3>4. QED
      BY <3>1, <3>2, <3>3
  <2>3. QED
    BY <1>6, <2>1, <2>2 DEF EventsInv
<1>11. Frames(<< >>) = {}
  BY DEF Frames
<1>12. NestInv(new, Frames(<< >>))
  BY <1>11 DEF NestInv
<1>13. WaitInv(new, rem, {f})
  <2>1. \A g \in Flow \ {f} : Created(g) /\ ~HasRun(g) /\ ~Pending(g, new) => rem[g] > 0
    BY <1>3, <1>9 DEF WaitInv
  <2>2. ASSUME NEW g \in ListedFlow, now < StartTime[g]
        PROVE  Pending(g, new)
    <3>1. g # f
      <4>1. now \in Nat
        BY <1>3, FlowAssumption DEF VarTypes
      <4>2. QED
        BY <1>7, <2>2, <4>1
    <3>2. QED
      BY <1>3, <1>9, <2>2, <3>1 DEF WaitInv
  <2>3. QED
    BY <2>1, <2>2 DEF WaitInv
<1>14. CoreInv(new, << >>, rem, {f})
  BY <1>3, <1>10, <1>12, <1>13 DEF CoreInv
<1>15. CASE MayStart(f) /\ RunFlow(f, << >>, new, rem)
  <2>1. rem[f] = 0
    BY <1>1, <1>15 DEF MayStart
  <2>2. ASSUME f \in Immediate, NEW k \in DOMAIN new,
               new[k].flow \in ListedFlow, new[k].time = now
        PROVE  Dependencies[new[k].flow] \intersect Immediate = {}
    <3>1. PICK j \in DOMAIN evs : j # i /\ new[k] = evs[j]
      BY <1>6
    <3>2. i < j
      <4>1. i \in Int /\ j \in Int /\ j >= 1 /\ j \notin 1 .. (i - 1)
        BY <1>2, <1>4, <2>2, <3>1
      <4>2. QED
        BY <3>1, <4>1
    <3>3. f \in ListedFlow
      BY <1>7, <2>2, ListedOrChild DEF StartsApart
    <3>4. PICK a \in DOMAIN Listed : f = Listed[a]
      BY <3>3 DEF ListedFlow, Range
    <3>5. PICK b \in DOMAIN Listed : new[k].flow = Listed[b]
      BY <2>2 DEF ListedFlow, Range
    <3>6. a < b
      <4>1. i \in DOMAIN evs /\ evs[i].flow = Listed[a] /\ evs[j].flow = Listed[b]
        BY <1>4, <1>7, <3>1, <3>4, <3>5
      <4>2. \A u, v \in DOMAIN evs, c, d \in DOMAIN Listed :
               evs[u].flow = Listed[c] /\ evs[v].flow = Listed[d] /\ u < v => c < d
        BY <1>3 DEF EventsInv
      <4>3. QED
        BY <3>2, <4>1, <4>2
    <3>7. StartTime[Listed[a]] = StartTime[Listed[b]]
      <4>1. StartTime[new[k].flow] = new[k].time
        BY <1>3, <2>2, <3>1 DEF EventsInv
      <4>2. QED
        BY <1>7, <2>2, <3>3, <3>4, <3>5, <4>1
    <3>8. QED
      BY <2>2, <3>4, <3>5, <3>6, <3>7 DEF StartsApart
  <2>3. MayRun(new, << >>, rem, f)
    BY <1>3, <1>7, <1>8, <1>14, <2>1, <2>2 DEF MayRun, Inv
  <2>4. FlowInv' /\ HasJustRun(f)
    BY <1>2, <1>15, <2>3, RunFlowInv
  <2>5. ~HasRun(f) /\ Needs[f] \subseteq Completed
    BY <2>3, MayRunFacts
  <2>6. now >= Start(f)
    <3>1. now \in Nat
      BY <1>3, FlowAssumption DEF VarTypes
    <3>2. QED
      BY <1>7, <3>1 DEF Start
  <2>7. QED
    BY <1>2, <1>7, <2>4, <2>5, <2>6 DEF RunsOneOrNone
<1>16. CASE /\ ~MayStart(f)
            /\ events' = new
            /\ UNCHANGED <<stack, graph_vars, m_fg_running, flow_vars, aborted>>
  <2>1. rem[f] # 0 /\ rem[f] \in Nat
    BY <1>1, <1>3, <1>7, <1>16 DEF MayStart, RemInv
  <2>2. WaitInv(new, rem, {})
    <3>1. rem[f] > 0
      BY <2>1
    <3>2. QED
      BY <1>13, <3>1 DEF WaitInv
  <2>3. CoreInv(new, << >>, rem, {})
    BY <1>14, <2>2 DEF CoreInv
  <2>4. UNCHANGED <<now, m_dependencies, m_on_complete, m_completed>>
        /\ writes' = writes /\ stack' = << >> /\ m_rem_dependencies' = rem
        /\ UNCHANGED m_completed_chains
    BY <1>1, <1>2, <1>16 DEF graph_vars, flow_vars
  <2>5. VarTypes'
    BY <1>2, <1>3, <1>16, <2>4 DEF VarTypes
  <2>6. PICK F : F = Frames(<< >>)
    OBVIOUS
  <2>7. FgInv(F)' /\ ChainsInv(F)'
    BY <1>3, <1>16, <2>6, KeepCounts
  <2>8. FgInv(Frames(<< >>))' /\ ChainsInv(Frames(<< >>))'
    BY <2>6, <2>7
  <2>9. FlowInv'
    BY <1>16, <2>3, <2>4, <2>5, <2>8, KeepInv
  <2>10. QED
    BY <1>2, <2>4, <2>9 DEF RunsOneOrNone
<1>17. QED
  BY <1>2, <1>15, <1>16

-----------------------------------------------------------------------------
(* The loop of OnFlowFinish.                                               *)

\* With the stack `new` instead of `stk`, f has resolved its dependent g.
ResolvingDuties(f, g, stk, new) ==
    /\ StackInv(new)
    /\ \A y \in Frames(new) : \E z \in Frames(stk) : z.flow = y.flow
    /\ \E z \in Frames(stk) : z.flow = f
    /\ f \in Flow /\ m_completed[f] /\ ~ToFinish(f, Frames(stk))
    /\ ToResolve(f, g, Frames(stk)) /\ g \in m_dependencies[f]
    /\ \A a : ToFinish(a, Frames(new)) <=> ToFinish(a, Frames(stk))
    /\ \A a : ToReport(a, Frames(new)) <=> ToReport(a, Frames(stk))
    /\ \A a, b : ToResolve(a, b, Frames(new)) <=>
          ToResolve(a, b, Frames(stk)) /\ ~(a = f /\ b = g)

LEMMA ResolvingFrames ==
    ASSUME NEW stk, NEW x, NEW rest, NEW g, NEW new,
           StackInv(stk), stk # << >>, x = Head(stk), rest = Tail(stk),
           x.call = "OnFlowFinish", g \in x.left,
           new = <<[x EXCEPT !.left = @ \ {g}]>> \o rest
    PROVE  ResolvingDuties(x.flow, g, stk, new)
<1> DEFINE f == x.flow
<1>1. stk \in Seq(Frame) /\ rest \in Seq(Frame)
  <2>1. stk \in Seq(Frame)
    BY DEF StackInv
  <2>2. QED
    BY <2>1, TopFrame
<1>2. /\ x \in Frame /\ f \in Flow
      /\ Frames(stk) = {x} \union Frames(rest) /\ DistinctCalls(rest)
      /\ \A y \in Frames(rest) : ~(y.call = x.call /\ y.flow = x.flow)
  <2>1. Head(stk) \in Frame
    BY <1>1, TopFrame
  <2>2. Frames(stk) = {Head(stk)} \union Frames(Tail(stk))
    BY <1>1, TopFrame
  <2>3. DistinctCalls(stk)
    BY DEF StackInv
  <2>4. /\ DistinctCalls(Tail(stk))
        /\ \A y \in Frames(Tail(stk)) : ~(y.call = Head(stk).call /\ y.flow = Head(stk).flow)
    BY <1>1, <2>3, TopFrame
  <2>5. QED
    BY <1>1, <2>1, <2>2, <2>4, FrameFacts
<1>3. PICK top : top = [x EXCEPT !.left = @ \ {g}]
  OBVIOUS
<1>4. /\ top \in Frame /\ top.call = "OnFlowFinish" /\ top.flow = f
      /\ top.left = x.left \ {g}
  <2>1. x \in [call: {"OnFlowFinish"}, flow: Flow, left: SUBSET Flow]
    BY <1>2 DEF Frame
  <2>2. /\ top \in [call: {"OnFlowFinish"}, flow: Flow, left: SUBSET Flow]
        /\ top.flow = f /\ top.left = x.left \ {g}
    BY <1>3, <2>1
  <2>3. QED
    BY <2>2 DEF Frame
<1>5. new \in Seq(Frame) /\ Frames(new) = {top} \union Frames(rest) /\ DistinctCalls(new)
  <2>1. /\ <<top>> \o rest \in Seq(Frame)
        /\ Frames(<<top>> \o rest) = {top} \union Frames(rest)
        /\ DistinctCalls(<<top>> \o rest) <=>
              /\ DistinctCalls(rest)
              /\ \A y \in Frames(rest) : ~(y.call = top.call /\ y.flow = top.flow)
    BY <1>1, <1>4, PushFrame
  <2>2. \A y \in Frames(rest) : ~(y.call = top.call /\ y.flow = top.flow)
    BY <1>2, <1>4
  <2>3. QED
    BY <1>2, <1>3, <2>1, <2>2
<1>6. \A y \in Frames(stk) : FrameInv(y, Frames(stk))
  BY DEF StackInv
<1>7. FrameInv(x, Frames(stk))
  BY <1>2, <1>6
<1>8. /\ m_completed[f] /\ ~ToFinish(f, Frames(stk))
      /\ x.left \subseteq m_dependencies[f]
  BY <1>7 DEF FrameInv
<1>9. /\ \A a : ToFinish(a, Frames(new)) <=> ToFinish(a, Frames(stk))
      /\ \A a : ToReport(a, Frames(new)) <=> ToReport(a, Frames(stk))
  BY <1>2, <1>4, <1>5 DEF ToFinish, ToReport
<1>10. \A a, b : ToResolve(a, b, Frames(new)) <=>
          ToResolve(a, b, Frames(stk)) /\ ~(a = f /\ b = g)
  BY <1>2, <1>4, <1>5 DEF ToResolve
<1>11. ToResolve(f, g, Frames(stk))
  BY <1>2 DEF ToResolve
<1>12. \A y \in Frames(new) : FrameInv(y, Frames(new))
  <2>1. FrameInv(top, Frames(new))
    BY <1>4, <1>8, <1>9 DEF FrameInv
  <2>2. \A y \in Frames(rest) : FrameInv(y, Frames(new))
    BY <1>2, <1>6, <1>9 DEF FrameInv
  <2>3. QED
    BY <1>5, <2>1, <2>2
<1>13. /\ \A y \in Frames(new) : \E z \in Frames(stk) : z.flow = y.flow
       /\ \E z \in Frames(stk) : z.flow = f
  BY <1>2, <1>4, <1>5
<1>14. QED
  BY <1>2, <1>5, <1>8, <1>9, <1>10, <1>11, <1>12, <1>13 DEF StackInv, ResolvingDuties

\* One dependency less of g is left, and what it waits for is to be decided.
OneLess(f, g, evs, rem, new, rem2) ==
    /\ Created(g) /\ ~HasRun(g) /\ f \in Needs[g]
    /\ rem[g] \in Nat /\ rem[g] > 0 /\ rem2[g] = rem[g] - 1
    /\ CoreInv(evs, new, rem2, {g})

\* What is left when f has resolved g: the dependencies are those that are still
\* unresolved, and g is the only flow that may be forgotten.
LEMMA ResolvedInv ==
    ASSUME NEW evs, NEW stk, NEW rem, NEW f, NEW g \in Flow, NEW new, NEW rem2,
           CoreInv(evs, stk, rem, {}), ResolvingDuties(f, g, stk, new),
           rem2 = [rem EXCEPT ![g] = @ - 1]
    PROVE  OneLess(f, g, evs, rem, new, rem2)
<1>1. PICK F, G : F = Frames(stk) /\ G = Frames(new)
  OBVIOUS
<1>2. /\ GraphInv /\ RemInv(F, rem) /\ NestInv(evs, F) /\ WaitInv(evs, rem, {})
  BY <1>1 DEF CoreInv
<1>3. /\ StackInv(new)
      /\ \A y \in G : \E z \in F : z.flow = y.flow
      /\ f \in Flow /\ m_completed[f] /\ ~ToFinish(f, F)
      /\ ToResolve(f, g, F) /\ g \in m_dependencies[f]
      /\ \A a : ToFinish(a, G) <=> ToFinish(a, F)
      /\ \A a, b : ToResolve(a, b, G) <=> ToResolve(a, b, F) /\ ~(a = f /\ b = g)
  BY <1>1 DEF ResolvingDuties
<1>4. Created(g) /\ f \in Needs[g]
  BY <1>2, <1>3 DEF GraphInv
<1>5. f \in Unresolved(g, F)
  BY <1>3, <1>4 DEF Unresolved, Resolved
<1>6. rem[g] = Cardinality(Unresolved(g, F)) /\ rem[g] \in Nat /\ rem[g] > 0
  <2>1. rem[g] = Cardinality(Unresolved(g, F)) /\ rem[g] \in Nat
    BY <1>2, <1>4 DEF RemInv
  <2>2. rem[g] # 0
    BY <1>5, <2>1, CountedSets, FS_EmptySet
  <2>3. QED
    BY <2>1, <2>2
<1>7. ~HasRun(g)
  BY <1>2, <1>6 DEF RemInv
<1>8. /\ rem2 \in [Flow -> Nat] /\ rem2[g] = rem[g] - 1
      /\ \A h \in Flow \ {g} : rem2[h] = rem[h]
  <2>1. rem \in [Flow -> Nat] /\ rem[g] - 1 \in Nat
    BY <1>2, <1>6 DEF RemInv
  <2>2. QED
    BY <2>1
<1>9. \A a, b : Resolved(a, b, G) <=> Resolved(a, b, F) \/ (a = f /\ b = g)
  BY <1>3 DEF Resolved, Finished
<1>10. Unresolved(g, G) = Unresolved(g, F) \ {f}
  BY <1>9 DEF Unresolved
<1>11. \A h \in Flow \ {g} : Unresolved(h, G) = Unresolved(h, F)
  BY <1>9 DEF Unresolved
<1>12. Cardinality(Unresolved(g, G)) = Cardinality(Unresolved(g, F)) - 1
  BY <1>5, <1>10, CountedSets, FS_RemoveElement
<1>13. RemInv(G, rem2)
  <2>1. \A h \in Flow : Created(h) => rem2[h] = Cardinality(Unresolved(h, G))
    BY <1>2, <1>6, <1>8, <1>11, <1>12 DEF RemInv
  <2>2. \A h \in Flow : HasRun(h) => rem2[h] = 0
    BY <1>2, <1>7, <1>8 DEF RemInv
  <2>3. QED
    BY <1>8, <2>1, <2>2 DEF RemInv
<1>14. NestInv(evs, G)
  BY <1>2, <1>3 DEF NestInv
<1>15. WaitInv(evs, rem2, {g})
  BY <1>2, <1>8 DEF WaitInv
<1>16. CoreInv(evs, new, rem2, {g})
  BY <1>1, <1>3, <1>13, <1>14, <1>15 DEF CoreInv
<1>17. QED
  BY <1>4, <1>6, <1>7, <1>8, <1>16 DEF OneLess

LEMMA ResolveDependencyInv ==
    ASSUME StartsApart, FlowInv, NEW g \in Flow, ResolveDependency(g)
    PROVE  FlowInv' /\ RunsOneOrNone
<1>1. PICK evs, stk, rem, x, rest, new, rem2, f :
         /\ evs = events /\ stk = stack /\ rem = m_rem_dependencies
         /\ x = Top /\ rest = Tail(stack) /\ f = Top.flow
         /\ new = <<[Top EXCEPT !.left = @ \ {g}]>> \o Tail(stack)
         /\ rem2 = [m_rem_dependencies EXCEPT ![g] = @ - 1]
  OBVIOUS
<1>2. /\ stk # << >> /\ x = Head(stk) /\ rest = Tail(stk) /\ x.call = "OnFlowFinish"
      /\ g \in x.left
      /\ IF rem[g] = 0
         THEN /\ aborted' = TRUE
              /\ UNCHANGED <<events, stack, graph_vars, m_fg_running, flow_vars>>
         ELSE IF IsLastDependency(g) /\ IsPastStart(g)
         THEN RunFlow(g, new, evs, rem2)
         ELSE /\ m_rem_dependencies' = rem2
              /\ stack' = new
              /\ UNCHANGED <<events, m_dependencies, m_fg_running, flow_vars, aborted>>
      /\ UNCHANGED <<now, checked, stopped>>
  BY <1>1 DEF ResolveDependency, InOnFlowFinish, Top
<1>3. /\ VarTypes /\ CoreInv(evs, stk, rem, {}) /\ FgInv(Frames(stk)) /\ ChainsInv(Frames(stk))
      /\ StackInv(stk) /\ EventsInv(evs) /\ NestInv(evs, Frames(stk)) /\ WaitInv(evs, rem, {})
  BY <1>1 DEF FlowInv, Inv, CoreInv
<1>4. ResolvingDuties(f, g, stk, new)
  <2>1. new = <<[x EXCEPT !.left = @ \ {g}]>> \o rest
    BY <1>1
  <2>2. ResolvingDuties(x.flow, g, stk, new)
    BY <1>2, <1>3, <2>1, ResolvingFrames
  <2>3. QED
    BY <1>1, <2>2
<1>5. /\ Created(g) /\ ~HasRun(g) /\ f \in Needs[g]
      /\ rem[g] \in Nat /\ rem[g] > 0 /\ rem2[g] = rem[g] - 1
      /\ CoreInv(evs, new, rem2, {g})
  <2>1. rem2 = [rem EXCEPT ![g] = @ - 1]
    BY <1>1
  <2>2. OneLess(f, g, evs, rem, new, rem2)
    BY <1>3, <1>4, <2>1, ResolvedInv
  <2>3. QED
    BY <2>2 DEF OneLess
<1>6. /\ StackInv(new)
      /\ \E z \in Frames(stk) : z.flow = f
      /\ \A a : ToFinish(a, Frames(new)) <=> ToFinish(a, Frames(stk))
      /\ \A a : ToReport(a, Frames(new)) <=> ToReport(a, Frames(stk))
  BY <1>4 DEF ResolvingDuties
<1>7. FgInv(Frames(new)) /\ ChainsInv(Frames(new))
  <2>1. RunningFg(Frames(new)) = RunningFg(Frames(stk))
    BY <1>6, SameCounts
  <2>2. \A p : ReportedChains(p, Frames(new)) = ReportedChains(p, Frames(stk))
    BY <1>6, SameCounts
  <2>3. QED
    BY <1>3, <2>1, <2>2 DEF FgInv, ChainsInv
<1>8. IsLastDependency(g) <=> rem[g] = 1
  BY <1>1 DEF IsLastDependency
<1>9. \A i \in DOMAIN evs : evs[i].flow \in ListedFlow /\ evs[i].time = now
         => f \in Immediate /\ Dependencies[evs[i].flow] \intersect Immediate = {}
  BY <1>3, <1>6 DEF NestInv
<1>10. now \in Nat
  BY <1>3, FlowAssumption DEF VarTypes
<1>11. CASE IsLastDependency(g) /\ IsPastStart(g)
  <2>1. RunFlow(g, new, evs, rem2)
    BY <1>2, <1>5, <1>11
  <2>2. rem2[g] = 0
    BY <1>5, <1>8, <1>11
  <2>3. ~Pending(g, evs)
    <3>1. SUFFICES ASSUME NEW i \in DOMAIN evs, evs[i].flow = g
                   PROVE  FALSE
      BY DEF Pending
    <3>2. CASE g \in ListedFlow
      <4>1. evs[i].time = StartTime[g] /\ evs[i].time >= now /\ evs[i].time \in Nat
        BY <1>3, <3>1, <3>2, EventTypes DEF EventsInv
      <4>2. now >= StartTime[g]
        BY <1>11, <3>2 DEF IsPastStart, Start
      <4>3. evs[i].time = now
        BY <1>10, <4>1, <4>2
      <4>4. f \in Immediate /\ Dependencies[g] \intersect Immediate = {}
        BY <1>9, <3>1, <3>2, <4>3
      <4>5. f \in Dependencies[g]
        BY <1>5, <3>2, NeedsFacts
      <4>6. QED
        BY <4>4, <4>5
    <3>3. CASE g \in Children
      <4>1. f \in Predecessors(g)
        BY <1>5, <3>3, NeedsFacts
      <4>2. PICK p \in Phases : f \in ChildrenOf(p) /\ g \in ChildrenOf(p)
        BY <4>1, NeedsFacts
      <4>3. f \notin ChildrenOf(p)
        BY <1>3, <1>6, <3>1, <4>2 DEF NestInv
      <4>4. QED
        BY <4>2, <4>3
    <3>4. QED
      BY <3>2, <3>3, ListedOrChild
  <2>4. Inv(evs, new, rem2, {g})
    BY <1>3, <1>5, <1>7 DEF Inv
  <2>5. MayRun(evs, new, rem2, g)
    BY <1>5, <1>9, <2>2, <2>3, <2>4 DEF MayRun
  <2>6. UNCHANGED <<now, checked, stopped>>
    BY <1>2
  <2>7. FlowInv' /\ HasJustRun(g)
    BY <2>1, <2>5, <2>6, RunFlowInv
  <2>8. ~HasRun(g) /\ Needs[g] \subseteq Completed
    BY <2>5, MayRunFacts
  <2>9. QED
    BY <1>11, <2>6, <2>7, <2>8 DEF RunsOneOrNone, IsPastStart
<1>12. CASE ~(IsLastDependency(g) /\ IsPastStart(g))
  <2>1. /\ m_rem_dependencies' = rem2 /\ stack' = new
        /\ UNCHANGED <<events, m_dependencies, m_fg_running, flow_vars, aborted>>
        /\ UNCHANGED <<now, checked, stopped>>
    BY <1>2, <1>5, <1>12
  <2>2. WaitInv(evs, rem2, {})
    <3>1. WaitInv(evs, rem2, {g})
      BY <1>5 DEF CoreInv
    <3>2. ASSUME ~Pending(g, evs)
          PROVE  rem2[g] > 0
      <4>1. ASSUME rem[g] = 1
            PROVE  FALSE
        <5>1. ~IsPastStart(g)
          BY <1>8, <1>12, <4>1
        <5>2. g \in ListedFlow /\ now < StartTime[g]
          <6>1. g \in ListedFlow => StartTime[g] \in Nat
            BY FlowAssumption
          <6>2. QED
            BY <1>10, <5>1, <6>1 DEF IsPastStart, Start
        <5>3. QED
          BY <1>3, <3>2, <5>2 DEF WaitInv
      <4>2. QED
        BY <1>5, <4>1
    <3>3. QED
      BY <3>1, <3>2 DEF WaitInv
  <2>3. CoreInv(evs, new, rem2, {})
    BY <1>5, <2>2 DEF CoreInv
  <2>4. /\ UNCHANGED <<now, m_dependencies, m_on_complete, m_completed, m_fg_running, flow_vars>>
        /\ writes' = writes /\ events' = evs
    BY <1>1, <2>1 DEF flow_vars
  <2>5. VarTypes'
    BY <1>3, <2>1 DEF VarTypes, flow_vars
  <2>6. PICK G : G = Frames(new)
    OBVIOUS
  <2>7. FgInv(G)' /\ ChainsInv(G)'
    BY <1>7, <2>4, <2>6, KeepCounts
  <2>8. FgInv(Frames(new))' /\ ChainsInv(Frames(new))'
    BY <2>6, <2>7
  <2>9. FlowInv'
    BY <2>1, <2>3, <2>4, <2>5, <2>8, KeepInv
  <2>10. QED
    BY <2>1, <2>4, <2>9 DEF RunsOneOrNone
<1>13. QED
  BY <1>11, <1>12

-----------------------------------------------------------------------------
(* The other returns, the start and the step.                              *)

LEMMA AnnounceEndInv ==
    ASSUME FlowInv, AnnounceEnd
    PROVE  FlowInv'
<1>1. /\ stack # << >> /\ Top.call = "OnFlowFinish" /\ Top.left = {}
      /\ stopped' = (stopped \/ m_fg_running = 0) /\ stack' = Tail(stack)
      /\ UNCHANGED <<now, events, checked, graph_vars, m_fg_running, flow_vars, aborted>>
  BY DEF AnnounceEnd, InOnFlowFinish
<1>2. VarTypes'
  BY <1>1 DEF FlowInv, Inv, VarTypes, graph_vars, flow_vars
<1>3. QED
  BY <1>1, <1>2, PopInv

LEMMA NotifyCompleteReturnsInv ==
    ASSUME FlowInv, NotifyCompleteReturns
    PROVE  FlowInv'
<1>1. /\ stack # << >> /\ Top.call = "NotifyComplete" /\ Top.left = << >>
      /\ stack' = Tail(stack)
      /\ UNCHANGED <<now, events, checked, graph_vars, m_fg_running, flow_vars, stopped, aborted>>
  BY DEF NotifyCompleteReturns
<1>2. VarTypes'
  BY <1>1 DEF FlowInv, Inv, VarTypes, graph_vars, flow_vars
<1>3. QED
  BY <1>1, <1>2, PopInv

LEMMA StutterInv ==
    ASSUME FlowInv, UNCHANGED vars
    PROVE  FlowInv'
<1>1. PICK evs, stk, rem, F :
         evs = events /\ stk = stack /\ rem = m_rem_dependencies /\ F = Frames(stack)
  OBVIOUS
<1>2. /\ VarTypes /\ CoreInv(evs, stk, rem, {}) /\ FgInv(F) /\ ChainsInv(F)
      /\ F = Frames(stk)
  BY <1>1 DEF FlowInv, Inv
<1>3. UNCHANGED <<now, events, checked, stack, graph_vars, m_fg_running, flow_vars, stopped, aborted>>
  BY DEF vars, graph_vars, flow_vars
<1>4. VarTypes'
  BY <1>2, <1>3 DEF VarTypes, graph_vars, flow_vars
<1>5. FgInv(F)' /\ ChainsInv(F)'
  BY <1>2, <1>3, KeepCounts
<1>6. /\ FgInv(Frames(stk))' /\ ChainsInv(Frames(stk))'
      /\ UNCHANGED <<now, m_dependencies, m_on_complete, m_completed>>
      /\ writes' = writes /\ events' = evs /\ stack' = stk /\ m_rem_dependencies' = rem
  BY <1>1, <1>2, <1>3, <1>5 DEF graph_vars, flow_vars
<1>7. QED
  BY <1>2, <1>4, <1>6, KeepInv

LEMMA FlowInvStep ==
    ASSUME StartsApart, FlowInv, [Next]_vars
    PROVE  FlowInv'
<1>1. CASE Tick
  BY <1>1, TickInv
<1>2. CASE FirstCheck
  BY <1>2, FirstCheckInv
<1>3. CASE \E i \in DOMAIN events : StartEvent(i)
  BY <1>3, StartEventInv
<1>4. CASE \E f \in Simple : WriteCompletes(f)
  BY <1>4, WriteCompletesInv
<1>5. CASE OnChainComplete
  BY <1>5, OnChainCompleteInv
<1>6. CASE OnFlowFinish
  BY <1>6, OnFlowFinishInv
<1>7. CASE \E f \in Flow : ResolveDependency(f)
  BY <1>7, ResolveDependencyInv
<1>8. CASE AnnounceEnd
  BY <1>8, AnnounceEndInv
<1>9. CASE NotifyCompleteReturns
  BY <1>9, NotifyCompleteReturnsInv
<1>10. CASE UNCHANGED vars
  BY <1>10, StutterInv
<1>11. QED
  BY <1>1, <1>2, <1>3, <1>4, <1>5, <1>6, <1>7, <1>8, <1>9, <1>10 DEF Next

LEMMA FlowInvInit ==
    ASSUME Init
    PROVE  FlowInv
<1>1. PICK evs, rem : evs = events /\ rem = m_rem_dependencies
  OBVIOUS
<1>2. /\ now = 0 /\ checked = FALSE /\ stack = << >>
      /\ evs = [i \in DOMAIN Listed |-> [flow |-> Listed[i], time |-> StartTime[Listed[i]]]]
      /\ m_dependencies = [f \in Flow |-> {g \in ListedFlow : f \in Dependencies[g]}]
      /\ rem = [f \in Flow |-> IF f \in ListedFlow THEN Cardinality(Dependencies[f]) ELSE 0]
      /\ m_fg_running = 0
      /\ m_on_complete = [f \in Flow |-> << >>]
      /\ m_completed = [f \in Flow |-> FALSE]
      /\ m_completed_chains = [p \in Phases |-> 0]
      /\ writes = [f \in Simple |-> 0]
      /\ stopped = FALSE /\ aborted = FALSE
  BY <1>1 DEF Init
<1>3. \A f \in Flow : m_on_complete[f] = << >> /\ ~HasRun(f) /\ ~m_completed[f]
  BY <1>2 DEF HasRun
<1>4. \A f \in Flow : Created(f) <=> f \in ListedFlow
  BY <1>3, SimpleFacts DEF Created
<1>5. \A f \in ListedFlow : f \in Flow /\ Dependencies[f] \subseteq ListedFlow
                            /\ Needs[f] = Dependencies[f] /\ StartTime[f] \in Nat
                            /\ Cardinality(Dependencies[f]) \in Nat
  <2> TAKE f \in ListedFlow
  <2>1. f \in Flow /\ Dependencies[f] \subseteq ListedFlow /\ StartTime[f] \in Nat
    BY FlowAssumption, ListedOrChild
  <2>2. Needs[f] = Dependencies[f] /\ IsFiniteSet(Needs[f])
    BY <2>1, NeedsFacts
  <2>3. QED
    BY <2>1, <2>2, FS_CardinalityType
<1>6. VarTypes
  <2>1. m_dependencies \in [Flow -> SUBSET Flow]
    BY <1>2, ListedOrChild
  <2>2. m_on_complete \in [Flow -> Callbacks]
    BY <1>2 DEF Callbacks
  <2>3. now \in 0 .. MaxTime
    BY <1>2, FlowAssumption
  <2>4. QED
    BY <1>2, <2>1, <2>2, <2>3 DEF VarTypes
<1>7. CallbacksInv
  <2>1. \A f \in ListedFlow : ~IsLastOfChain(f)
    BY ListedOrChild, ChildFacts DEF IsLastOfChain
  <2>2. QED
    BY <1>3, <1>4, <2>1 DEF CallbacksInv
<1>8. RunsInv
  <2>1. \A f \in Simple : writes[f] = 0 /\ 0 <= Writes[f] /\ f \in Flow
    BY <1>2, SimpleFacts
  <2>2. QED
    BY <1>3, <2>1 DEF RunsInv
<1>9. GraphInv
  <2>1. ASSUME NEW f \in Flow, NEW g \in Flow
        PROVE  g \in m_dependencies[f] <=> Created(g) /\ f \in Needs[g]
    <3>1. g \in m_dependencies[f] <=> g \in ListedFlow /\ f \in Dependencies[g]
      BY <1>2
    <3>2. QED
      BY <1>4, <1>5, <3>1
  <2>2. QED
    BY <2>1 DEF GraphInv
<1>10. Frames(<< >>) = {} /\ << >> \in Seq(Frame) /\ DistinctCalls(<< >>)
  BY DEF Frames, DistinctCalls
<1>11. StackInv(<< >>)
  BY <1>10 DEF StackInv
<1>12. PICK F : F = {}
  OBVIOUS
<1>13. \A f \in Flow : ~Finished(f, F) /\ ~Reported(f, F) /\ \A g : ~Resolved(f, g, F)
  BY <1>3 DEF Finished, Reported, Resolved
<1>14. RemInv(F, rem)
  <2>1. \A g \in Flow : Unresolved(g, F) = Needs[g]
    BY <1>13, NeedsFacts DEF Unresolved
  <2>2. \A g \in Flow : rem[g] = IF g \in ListedFlow THEN Cardinality(Dependencies[g]) ELSE 0
    BY <1>2
  <2>3. rem \in [Flow -> Nat]
    <3>1. \A g \in Flow : (IF g \in ListedFlow THEN Cardinality(Dependencies[g]) ELSE 0) \in Nat
      BY <1>5
    <3>2. QED
      BY <1>2, <3>1
  <2>4. \A g \in Flow : Created(g) => rem[g] = Cardinality(Unresolved(g, F))
    BY <1>4, <1>5, <2>1, <2>2
  <2>5. QED
    BY <1>3, <2>3, <2>4 DEF RemInv
<1>15. /\ DOMAIN evs = DOMAIN Listed
       /\ \A i \in DOMAIN evs : /\ evs[i].flow = Listed[i] /\ evs[i].flow \in ListedFlow
                                /\ evs[i].time = StartTime[evs[i].flow]
       /\ evs \in Seq([flow: Flow, time: Nat])
  <2>1. Len(Listed) \in Nat /\ DOMAIN Listed = 1 .. Len(Listed)
        /\ \A i \in DOMAIN Listed : Listed[i] \in ListedFlow
    BY FlowAssumption, ElementTypes
  <2>2. \A i \in DOMAIN Listed :
           [flow |-> Listed[i], time |-> StartTime[Listed[i]]] \in [flow: Flow, time: Nat]
    BY <1>5, <2>1
  <2>3. evs \in [1 .. Len(Listed) -> [flow: Flow, time: Nat]]
    BY <1>2, <2>1, <2>2
  <2>4. evs \in Seq([flow: Flow, time: Nat])
    BY <2>1, <2>3, IsSequence
  <2>5. \A i \in DOMAIN evs : evs[i] = [flow |-> Listed[i], time |-> StartTime[Listed[i]]]
    BY <1>2
  <2>6. QED
    BY <1>2, <2>1, <2>4, <2>5
<1>16. EventsInv(evs)
  <2>1. IsInjective(Listed)
    BY FlowAssumption
  <2>2. \A i \in DOMAIN evs : /\ Created(evs[i].flow) /\ ~HasRun(evs[i].flow)
                              /\ evs[i].time >= now /\ evs[i].flow \notin Children
    BY <1>2, <1>3, <1>4, <1>5, <1>15, ListedOrChild
  <2>3. \A i, j \in DOMAIN evs : evs[i].flow = evs[j].flow => i = j
    BY <1>15, <2>1 DEF IsInjective
  <2>4. \A i, j \in DOMAIN evs, a, b \in DOMAIN Listed :
           evs[i].flow = Listed[a] /\ evs[j].flow = Listed[b] /\ i < j => a < b
    BY <1>15, <2>1 DEF IsInjective
  <2>5. QED
    BY <1>15, <2>2, <2>3, <2>4 DEF EventsInv
<1>17. NestInv(evs, F)
  BY <1>12 DEF NestInv
<1>18. WaitInv(evs, rem, {})
  <2>1. ASSUME NEW g \in ListedFlow PROVE Pending(g, evs)
    <3>1. PICK i \in DOMAIN Listed : g = Listed[i]
      BY DEF ListedFlow, Range
    <3>2. QED
      BY <1>15, <3>1 DEF Pending
  <2>2. QED
    BY <1>4, <2>1 DEF WaitInv
<1>19. FgInv(F)
  <2>1. RunningFg(F) = {}
    BY <1>3 DEF RunningFg
  <2>2. QED
    BY <1>2, <2>1, FS_EmptySet DEF FgInv
<1>20. ChainsInv(F)
  <2>1. \A p \in Phases : ReportedChains(p, F) = {}
    BY <1>13, ChildFacts, ListedOrChild DEF ReportedChains
  <2>2. \A p \in Phases : m_completed_chains[p] = 0 /\ ~m_completed[p]
    BY <1>2, <1>3, SimpleFacts
  <2>3. QED
    BY <2>1, <2>2, FS_EmptySet DEF ChainsInv
<1>21. CoreInv(evs, << >>, rem, {})
  BY <1>7, <1>8, <1>9, <1>10, <1>11, <1>12, <1>14, <1>16, <1>17, <1>18 DEF CoreInv
<1>22. QED
  BY <1>1, <1>2, <1>6, <1>10, <1>12, <1>19, <1>20, <1>21 DEF FlowInv, Inv

LEMMA FlowInvHolds ==
    ASSUME StartsApart
    PROVE  Spec => []FlowInv
<1>1. Init => FlowInv
  BY FlowInvInit
<1>2. FlowInv /\ [Next]_vars => FlowInv'
  BY FlowInvStep
<1>3. QED
  BY <1>1, <1>2, PTL DEF Spec

-----------------------------------------------------------------------------
(* The theorems.                                                           *)

\* The variables keep their types: no counter becomes negative, and no phase
\* counts more chains than it has.
THEOREM TypesAreKept ==
    ASSUME StartsApart
    PROVE  Spec => []TypeOK
<1>1. FlowInv => TypeOK
  <2> HAVE FlowInv
  <2>1. /\ VarTypes /\ StackInv(stack) /\ EventsInv(events) /\ RemInv(Frames(stack), m_rem_dependencies)
        /\ ChainsInv(Frames(stack))
    BY DEF FlowInv, Inv, CoreInv
  <2>2. \A k \in DOMAIN stack : \/ stack[k].call = "NotifyComplete"
                                \/ stack[k].call = "OnFlowFinish" /\ stack[k].left \subseteq Flow
    <3>1. \A k \in DOMAIN stack : stack[k] \in Frame
      BY <2>1, ElementTypes DEF StackInv
    <3>2. QED
      BY <3>1, FrameFacts
  <2>3. m_on_complete \in [Flow -> Seq({"OnFlowFinish", "OnChainComplete"})]
    <3>1. Callbacks \subseteq Seq({"OnFlowFinish", "OnChainComplete"})
      BY DEF Callbacks
    <3>2. QED
      BY <2>1, <3>1 DEF VarTypes
  <2>4. \A p \in Phases : m_completed_chains[p] \in 0 .. Len(Chains[p])
    <3> TAKE p \in Phases
    <3>1. PICK R : R = ReportedChains(p, Frames(stack))
      OBVIOUS
    <3>2. /\ R \subseteq DOMAIN Chains[p] /\ IsFiniteSet(DOMAIN Chains[p])
          /\ Cardinality(DOMAIN Chains[p]) = Len(Chains[p]) /\ Len(Chains[p]) \in Nat
      BY <3>1, CountedSets
    <3>3. Cardinality(R) \in Nat /\ Cardinality(R) <= Len(Chains[p])
      BY <3>2, FS_Subset, FS_CardinalityType
    <3>4. m_completed_chains[p] = Cardinality(R)
      BY <2>1, <3>1 DEF ChainsInv
    <3>5. QED
      BY <3>2, <3>3, <3>4
  <2>5. events \in Seq([flow : Flow, time : Nat]) /\ m_rem_dependencies \in [Flow -> Nat]
    BY <2>1 DEF EventsInv, RemInv
  <2>6. QED
    BY <2>1, <2>2, <2>3, <2>4, <2>5 DEF TypeOK, VarTypes
<1>2. QED
  BY <1>1, FlowInvHolds, PTL

\* No NS_ABORT_IF of NotifyComplete, OnFlowFinish or OnChainComplete fires,
\* whatever calls are nested: no flow completes twice, no counter is taken below
\* zero and no phase hears of a chain twice.
THEOREM NoAbort ==
    ASSUME StartsApart
    PROVE  Spec => []NeverAborts
<1>1. FlowInv => NeverAborts
  BY DEF FlowInv, Inv, VarTypes, NeverAborts
<1>2. QED
  BY <1>1, FlowInvHolds, PTL

\* Between two events m_fg_running is exactly the number of foreground flows that
\* have been run and have not completed.
THEOREM ForegroundIsCounted ==
    ASSUME StartsApart
    PROVE  Spec => []FgRunningCounts
<1>1. FlowInv => FgRunningCounts
  <2> HAVE FlowInv
  <2>1. SUFFICES ASSUME stack = << >>
                 PROVE  m_fg_running = Cardinality(
                           {f \in Flow \ InBackground : HasRun(f) /\ ~m_completed[f]})
    BY DEF FgRunningCounts
  <2>2. FgInv(Frames(stack)) /\ Frames(stack) = {}
    BY <2>1 DEF FlowInv, Inv, Frames
  <2>3. \A f : Finished(f, {}) <=> m_completed[f]
    BY DEF Finished, ToFinish
  <2>4. RunningFg({}) = {f \in Flow \ InBackground : HasRun(f) /\ ~m_completed[f]}
    BY <2>3 DEF RunningFg
  <2>5. QED
    BY <2>2, <2>4 DEF FgInv
<1>2. QED
  BY <1>1, FlowInvHolds, PTL

\* Between two events every flow whose dependencies have completed has run or has
\* its start event to come: the start event and OnFlowFinish never leave it to
\* each other.
THEOREM NoFlowIsForgotten ==
    ASSUME StartsApart
    PROVE  Spec => []NoFlowForgotten
<1>1. FlowInv => NoFlowForgotten
  <2> HAVE FlowInv
  <2>1. SUFFICES ASSUME stack = << >>, NEW g \in Flow, ~Pending(g, events),
                        ~\E p \in Phases : g \in ChildrenOf(p) /\ ~HasRun(p),
                        Needs[g] \subseteq Completed
                 PROVE  HasRun(g)
    BY DEF NoFlowForgotten, Pending
  <2>2. Frames(stack) = {}
    BY <2>1 DEF Frames
  <2>3. RemInv({}, m_rem_dependencies) /\ WaitInv(events, m_rem_dependencies, {})
    BY <2>2 DEF FlowInv, Inv, CoreInv
  <2>4. Created(g)
    BY <2>1, ListedOrChild DEF Created
  <2>5. \A f \in Needs[g] : Resolved(f, g, {})
    BY <2>1 DEF Completed, Resolved, Finished, ToFinish, ToResolve
  <2>6. Unresolved(g, {}) = {}
    BY <2>5 DEF Unresolved
  <2>7. m_rem_dependencies[g] = 0
    BY <2>3, <2>4, <2>6, FS_EmptySet DEF RemInv
  <2>8. QED
    BY <2>1, <2>3, <2>4, <2>7 DEF WaitInv
<1>2. QED
  BY <1>1, FlowInvHolds, PTL

\* Neither a start event nor OnFlowFinish runs a flow before its start time.
THEOREM NoFlowRunsEarly ==
    ASSUME StartsApart
    PROVE  Spec => RunsAfterStart
<1>1. ASSUME FlowInv, [Next]_vars
      PROVE  [\A f \in Flow : ~HasRun(f) /\ HasRun(f)' => now >= Start(f)]_vars
  <2>1. CASE UNCHANGED m_on_complete
    <3>1. \A f : HasRun(f)' <=> HasRun(f)
      BY <2>1 DEF HasRun
    <3>2. QED
      BY <3>1
  <2>2. CASE RunsOneOrNone
    BY <2>1, <2>2 DEF RunsOneOrNone, HasJustRun
  <2>3. CASE Tick \/ FirstCheck
    BY <2>1, <2>3 DEF Tick, FirstCheck, flow_vars
  <2>4. CASE \E i \in DOMAIN events : StartEvent(i)
    BY <1>1, <2>2, <2>4, StartEventInv
  <2>5. CASE \E f \in Simple : WriteCompletes(f)
    BY <2>1, <2>5 DEF WriteCompletes
  <2>6. CASE OnChainComplete \/ OnFlowFinish
    BY <2>1, <2>6 DEF OnChainComplete, OnFlowFinish, flow_vars
  <2>7. CASE \E f \in Flow : ResolveDependency(f)
    BY <1>1, <2>2, <2>7, ResolveDependencyInv
  <2>8. CASE AnnounceEnd \/ NotifyCompleteReturns
    BY <2>1, <2>8 DEF AnnounceEnd, NotifyCompleteReturns, flow_vars
  <2>9. CASE UNCHANGED vars
    BY <2>9
  <2>10. QED
    BY <1>1, <2>3, <2>4, <2>5, <2>6, <2>7, <2>8, <2>9 DEF Next
<1>2. QED
  BY <1>1, FlowInvHolds, PTL DEF Spec, RunsAfterStart

-----------------------------------------------------------------------------
(* FlowScheduler implements FlowGraph.                                     *)

Waiting == {f \in Flow : ~HasRun(f)}

LEMMA WaitingKept ==
    ASSUME UNCHANGED m_on_complete
    PROVE  UNCHANGED Waiting
<1>1. \A f : HasRun(f)' <=> HasRun(f)
  BY DEF HasRun
<1>2. QED
  BY <1>1 DEF Waiting

LEMMA CompletedKept ==
    ASSUME UNCHANGED m_completed
    PROVE  UNCHANGED Completed
BY DEF Completed

LEMMA CompletedGrows ==
    ASSUME m_completed \in [Flow -> BOOLEAN], NEW f \in Flow,
           m_completed' = [m_completed EXCEPT ![f] = TRUE]
    PROVE  Completed' = Completed \union {f}
<1>1. \A g \in Flow : m_completed'[g] <=> g = f \/ m_completed[g]
  OBVIOUS
<1>2. QED
  BY <1>1 DEF Completed

LEMMA RunStep ==
    ASSUME VarTypes, RunsOneOrNone
    PROVE  [Graph!Next]_Graph!vars
<1>1. UNCHANGED stopped
  BY DEF RunsOneOrNone
<1>2. CASE UNCHANGED <<m_on_complete, m_completed>>
  BY <1>1, <1>2, WaitingKept, CompletedKept DEF Graph!vars, Waiting
<1>3. ASSUME NEW f \in Flow, HasJustRun(f), ~HasRun(f), Needs[f] \subseteq Completed
      PROVE  Graph!Run(f) \/ Graph!RunAndComplete(f)
  <2>1. f \in Waiting /\ Waiting' = Waiting \ {f}
    BY <1>3 DEF HasJustRun, Waiting
  <2>2. UNCHANGED Completed \/ Completed' = Completed \union {f}
    BY <1>3, CompletedKept, CompletedGrows DEF HasJustRun, VarTypes
  <2>3. QED
    BY <1>1, <1>3, <2>1, <2>2 DEF Graph!Run, Graph!RunAndComplete, Waiting
<1>4. QED
  BY <1>2, <1>3 DEF RunsOneOrNone, Graph!Next

LEMMA CompleteStep ==
    ASSUME VarTypes, NEW f \in Flow, HasRun(f), ~m_completed[f],
           m_completed' = [m_completed EXCEPT ![f] = TRUE],
           UNCHANGED <<m_on_complete, stopped>>
    PROVE  [Graph!Next]_Graph!vars
<1>1. Waiting' = Waiting /\ Completed' = Completed \union {f}
  BY WaitingKept, CompletedGrows DEF VarTypes
<1>2. f \in Flow \ (Waiting \union Completed)
  BY DEF Waiting, Completed
<1>3. Graph!Complete(f)
  BY <1>1, <1>2 DEF Graph!Complete, Graph!Running, Waiting
<1>4. QED
  BY <1>3 DEF Graph!Next

\* The end may be announced when no foreground flow is counted.
LEMMA AnnounceStep ==
    ASSUME FlowInv, UNCHANGED <<m_on_complete, m_completed>>,
           stopped' = stopped \/ (stopped' = TRUE /\ m_fg_running = 0)
    PROVE  [Graph!Next]_Graph!vars
<1>1. Waiting' = Waiting /\ Completed' = Completed
  BY WaitingKept, CompletedKept
<1>2. CASE stopped' = stopped
  BY <1>1, <1>2 DEF Graph!vars, Waiting
<1>3. CASE stopped' = TRUE /\ m_fg_running = 0
  <2>1. PICK F : F = Frames(stack)
    OBVIOUS
  <2>2. RunningFg(F) = {}
    BY <1>3, <2>1, CountedSets, FS_EmptySet DEF FlowInv, Inv, FgInv
  <2>3. \A f \in Flow \ InBackground : f \in Waiting \/ f \in Completed
    BY <2>2 DEF RunningFg, Finished, Waiting, Completed
  <2>4. (Flow \ (Waiting \union Completed)) \intersect (Flow \ InBackground) = {}
    BY <2>3
  <2>5. Graph!Announce
    BY <1>1, <1>3, <2>4 DEF Graph!Announce, Graph!Running, Waiting
  <2>6. QED
    BY <2>5 DEF Graph!Next
<1>4. QED
  BY <1>2, <1>3

\* Every flow runs once, not before the flows that it depends on have completed,
\* completes once, and the end is announced only while no foreground flow runs.
THEOREM SchedulerImplementsGraph ==
    ASSUME StartsApart
    PROVE  Spec => ImplementsFlowGraph
<1>1. Init => Graph!Init
  <2> HAVE Init
  <2>1. \A f \in Flow : ~HasRun(f) /\ ~m_completed[f]
    BY DEF Init, HasRun
  <2>2. {f \in Flow : ~HasRun(f)} = Flow /\ Completed = {} /\ stopped = FALSE
    BY <2>1 DEF Completed, Init
  <2>3. QED
    BY <2>2 DEF Graph!Init
<1>2. ASSUME FlowInv, [Next]_vars
      PROVE  [Graph!Next]_Graph!vars
  <2>1. VarTypes /\ RunsInv /\ FlowInv' /\ VarTypes'
    BY <1>2, FlowInvStep DEF FlowInv, Inv, CoreInv
  <2>2. CASE Tick \/ UNCHANGED vars
    BY <1>2, <2>2, AnnounceStep DEF Tick, vars, flow_vars
  <2>3. CASE FirstCheck
    <3>1. UNCHANGED <<m_on_complete, m_completed>> /\ stopped = FALSE
          /\ stopped' = (m_fg_running = 0)
      BY <2>1, <2>3 DEF FirstCheck, Idle, flow_vars, VarTypes
    <3>2. stopped' = stopped \/ (stopped' = TRUE /\ m_fg_running = 0)
      BY <3>1
    <3>3. QED
      BY <1>2, <3>1, <3>2, AnnounceStep
  <2>4. CASE \E i \in DOMAIN events : StartEvent(i)
    BY <1>2, <2>1, <2>4, StartEventInv, RunStep
  <2>5. CASE \E f \in Simple : WriteCompletes(f)
    <3>1. PICK f \in Simple : WriteCompletes(f)
      BY <2>5
    <3>2. /\ UNCHANGED <<m_on_complete, stopped>> /\ HasRun(f) /\ f \in Flow
          /\ \/ NotifyComplete(f, m_on_complete[f], << >>)
             \/ UNCHANGED m_completed
      BY <2>1, <3>1, SimpleFacts DEF WriteCompletes, RunsInv
    <3>3. QED
      BY <1>2, <2>1, <3>2, CompleteStep, AnnounceStep DEF NotifyComplete, VarTypes
  <2>6. CASE OnChainComplete
    <3>1. UNCHANGED <<m_on_complete, stopped>>
      BY <2>6 DEF OnChainComplete
    <3>2. PICK p \in Phases :
             CASE m_completed_chains[p] + 1 > Len(Chains[p]) ->
                    aborted' = TRUE /\ UNCHANGED <<stack, m_completed>>
               [] m_completed_chains[p] + 1 = Len(Chains[p]) ->
                    NotifyComplete(p, m_on_complete[p], Returned)
               [] OTHER ->
                    stack' = Returned /\ UNCHANGED <<m_completed, aborted>>
      BY <2>6 DEF OnChainComplete
    <3>3. CASE UNCHANGED m_completed
      BY <1>2, <3>1, <3>3, AnnounceStep
    <3>4. CASE NotifyComplete(p, m_on_complete[p], Returned)
      <4>1. ~m_completed[p] /\ m_completed' = [m_completed EXCEPT ![p] = TRUE]
        BY <2>1, <3>4 DEF NotifyComplete, VarTypes
      <4>2. p \in Flow /\ m_completed'[p]
        BY <2>1, <4>1, SimpleFacts DEF VarTypes
      <4>3. HasRun(p)'
        BY <2>1, <4>2 DEF FlowInv, Inv, CoreInv, RunsInv
      <4>4. HasRun(p)
        BY <3>1, <4>3 DEF HasRun
      <4>5. QED
        BY <2>1, <3>1, <4>1, <4>2, <4>4, CompleteStep
    <3>5. QED
      BY <3>2, <3>3, <3>4
  <2>7. CASE OnFlowFinish
    BY <1>2, <2>7, AnnounceStep DEF OnFlowFinish, flow_vars
  <2>8. CASE \E f \in Flow : ResolveDependency(f)
    BY <1>2, <2>1, <2>8, ResolveDependencyInv, RunStep
  <2>9. CASE AnnounceEnd
    <3>1. UNCHANGED <<m_on_complete, m_completed>>
          /\ stopped' = (stopped \/ m_fg_running = 0) /\ stopped \in BOOLEAN
      BY <2>1, <2>9 DEF AnnounceEnd, flow_vars, VarTypes
    <3>2. stopped' = stopped \/ (stopped' = TRUE /\ m_fg_running = 0)
      BY <3>1
    <3>3. QED
      BY <1>2, <3>1, <3>2, AnnounceStep
  <2>10. CASE NotifyCompleteReturns
    BY <1>2, <2>10, AnnounceStep DEF NotifyCompleteReturns, flow_vars
  <2>11. QED
    BY <1>2, <2>2, <2>3, <2>4, <2>5, <2>6, <2>7, <2>8, <2>9, <2>10 DEF Next
<1>3. QED
  BY <1>1, <1>2, FlowInvHolds, PTL DEF Spec, ImplementsFlowGraph, Graph!Spec
=============================================================================
