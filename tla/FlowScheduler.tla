--------------------------- MODULE FlowScheduler ---------------------------
(***************************************************************************)
(* FlowScheduler: starts the flows of a simulation at their start times or *)
(* when the flows they depend on have completed, and stops the simulation  *)
(* when no foreground flow is left.  With it RdmaFlow, and what its users  *)
(* do when they are started: a unicast or multicast flow posts one write,  *)
(* a wait flow sets one timer, a bisection posts several writes, and an    *)
(* AgFlowMcastPhase hands new flows over to the scheduler.                 *)
(*                                                                         *)
(* The event loop runs the events of one time in the order in which they   *)
(* were scheduled.  One event may call NotifyComplete, whose callbacks run *)
(* other flows and may call NotifyComplete again: the nested calls are the *)
(* frames of `stack`, and no other event runs until it is empty.           *)
(***************************************************************************)
EXTENDS Naturals, FiniteSets, Sequences, SequencesExt

CONSTANTS
    Listed,         \* the enabled flows of the JSON file, in order
    Phases,         \* those that are an AgFlowMcastPhase
    Added,          \* by phase: the multicasts and waits it adds, in order
    Chains,         \* by phase: the chains that they form
    Dependencies,   \* by listed flow: the listed flows it depends on
    StartTime,      \* by listed flow
    InBackground,   \* listed flows that do not keep the simulation running
    Writes,         \* by flow: how many writes (or timers) it waits for
    Immediate,      \* flows that may complete while they are being started
    MaxTime         \* bound on time

ListedFlow == Range(Listed)
ChildrenOf(p) == UNION {Range(Chains[p][c]) : c \in DOMAIN Chains[p]}
Children == UNION {ChildrenOf(p) : p \in Phases}
Flow == ListedFlow \union Children
Simple == Flow \ Phases

ASSUME FlowAssumption ==
    /\ Listed \in Seq(ListedFlow)
    /\ IsInjective(Listed)
    /\ IsFiniteSet(Flow)
    /\ Phases \subseteq ListedFlow
    /\ ListedFlow \intersect Children = {}
    /\ Dependencies \in [ListedFlow -> SUBSET ListedFlow]
    /\ StartTime \in [ListedFlow -> Nat]
    /\ InBackground \subseteq ListedFlow
    /\ Writes \in [Simple -> Nat \ {0}]
    /\ MaxTime \in Nat
    /\ Immediate \subseteq {f \in Simple : Writes[f] = 1}

\* A phase creates every multicast and every wait anew, and no chain is empty.
ASSUME ChainsAssumption ==
    /\ Added \in [Phases -> Seq(Children)]
    /\ \A p \in Phases : IsInjective(Added[p]) /\ Range(Added[p]) = ChildrenOf(p)
    /\ Chains \in [Phases -> Seq(Seq(Children) \ {<< >>})]
    /\ \A p, r \in Phases : \A c \in DOMAIN Chains[p], d \in DOMAIN Chains[r] :
          \A i \in DOMAIN Chains[p][c], j \in DOMAIN Chains[r][d] :
             Chains[p][c][i] = Chains[r][d][j] => p = r /\ c = d /\ i = j

VARIABLES
    now,                    \* Simulator::Now()
    events,                 \* start events, in the order they were scheduled
    checked,                \* has the check at the start of time been made?
    stack,                  \* nested calls of NotifyComplete and OnFlowFinish
    m_dependencies,         \* by flow: the flows that depend on it
    m_rem_dependencies,
    m_fg_running,
    m_on_complete,          \* by flow: its callbacks
    m_completed,
    m_completed_chains,     \* by phase
    writes,                 \* by flow: writes (or timers) that have not completed
    stopped,                \* has Simulator::Stop been called?
    aborted                 \* has an NS_ABORT_IF fired?

graph_vars == <<m_dependencies, m_rem_dependencies>>
flow_vars  == <<m_on_complete, m_completed, m_completed_chains, writes>>
vars       == <<now, events, checked, stack, graph_vars, m_fg_running, flow_vars,
                stopped, aborted>>

-----------------------------------------------------------------------------
(* The event loop *)

Start(f) == IF f \in ListedFlow THEN StartTime[f] ELSE 0

\* An event runs to its end before the next one, and none after Stop.
Idle == stack = << >> /\ ~stopped /\ ~aborted

Due(i) == events[i].time = now

\* The start events of the listed flows were scheduled before anything else,
\* and those of a phase's children before any child ran.
ScheduledBefore(i, f) ==
    \/ events[i].flow \in ListedFlow
    \/ \E p \in Phases : {events[i].flow, f} \subseteq ChildrenOf(p)

Top == Head(stack)

-----------------------------------------------------------------------------
(* RdmaFlow and FlowScheduler::RunFlow.  `rest` is what is left to do in the *)
(* present event.                                                            *)

Completing(f, callbacks) == [call |-> "NotifyComplete", flow |-> f, left |-> callbacks]
Finishing(f)             == [call |-> "OnFlowFinish", flow |-> f, left |-> m_dependencies[f]]

\* `callbacks` are those registered when the flow completes.
NotifyComplete(f, callbacks, rest) ==
    IF m_completed[f]
    THEN aborted' = TRUE /\ stack' = rest /\ UNCHANGED m_completed
    ELSE /\ m_completed' = [m_completed EXCEPT ![f] = TRUE]
         /\ stack' = <<Completing(f, callbacks)>> \o rest
         /\ UNCHANGED aborted

\* A flow posts its writes, or sets its timer.
StartWrites(f, rest) ==
    /\ writes' = [writes EXCEPT ![f] = @ + Writes[f]]
    /\ m_on_complete' = [m_on_complete EXCEPT ![f] = Append(@, "OnFlowFinish")]
    /\ stack' = rest
    /\ UNCHANGED <<m_completed, aborted>>

\* A multicast of one packet whose source is in the group: the registration of
\* the receive queue of the source makes the device transmit at once.
StartImmediate(f, rest) ==
    LET callbacks == Append(m_on_complete[f], "OnFlowFinish")
    IN  /\ m_on_complete' = [m_on_complete EXCEPT ![f] = callbacks]
        /\ NotifyComplete(f, callbacks, rest)
        /\ UNCHANGED writes

\* AgFlowMcastPhase: each child depends on the one before it in its chain, and
\* the last one tells the phase.
Predecessors(f) ==
    {g \in Children : \E p \in Phases : \E c \in DOMAIN Chains[p] :
        \E i \in 2 .. Len(Chains[p][c]) : f = Chains[p][c][i] /\ g = Chains[p][c][i - 1]}

\* Faulty variant, for mutation checks only: every wait and multicast of a chain
\* tells the phase.
IsInChain(f) == f \in Children

IsLastOfChain(f) ==
    \E p \in Phases : \E c \in DOMAIN Chains[p] : f = Last(Chains[p][c])

StartPhase(p, rest, pending, rem) ==
    LET added == Added[p]
    IN  /\ events' = pending \o [i \in DOMAIN added |-> [flow |-> added[i], time |-> now]]
        /\ m_dependencies' = [f \in Flow |->
               m_dependencies[f] \union {g \in Range(added) : f \in Predecessors(g)}]
        /\ m_rem_dependencies' = [f \in Flow |->
               IF f \in Range(added) THEN Cardinality(Predecessors(f))
                                     ELSE rem[f]]
        /\ m_on_complete' = [f \in Flow |->
               IF f = p THEN Append(m_on_complete[p], "OnFlowFinish")
               ELSE IF f \in Range(added) /\ IsLastOfChain(f) THEN <<"OnChainComplete">>
               ELSE m_on_complete[f]]
        /\ stack' = rest
        /\ UNCHANGED <<m_completed, writes, aborted>>

\* `pending` and `rem` are the events and the dependencies left by what the
\* present event did before it starts the flow.
StartFlow(f, rest, pending, rem) ==
    \/ f \in Phases /\ StartPhase(f, rest, pending, rem)
    \/ /\ f \in Simple
       /\ StartWrites(f, rest) \/ (f \in Immediate /\ StartImmediate(f, rest))
       /\ events' = pending
       /\ m_rem_dependencies' = rem
       /\ UNCHANGED m_dependencies

\* Faulty variant, for mutation checks only: no flow is counted as foreground.
NeverForeground(f) == FALSE

IsForeground(f) == f \notin InBackground

RunFlow(f, rest, pending, rem) ==
    /\ m_fg_running' = IF IsForeground(f) THEN m_fg_running + 1 ELSE m_fg_running
    /\ StartFlow(f, rest, pending, rem)
    /\ UNCHANGED m_completed_chains

-----------------------------------------------------------------------------
(* FlowScheduler *)

\* The flows of the JSON file and their dependencies.
Init ==
    /\ now = 0
    /\ events = [i \in DOMAIN Listed |-> [flow |-> Listed[i], time |-> StartTime[Listed[i]]]]
    /\ checked = FALSE
    /\ stack = << >>
    /\ m_dependencies = [f \in Flow |-> {g \in ListedFlow : f \in Dependencies[g]}]
    /\ m_rem_dependencies = [f \in Flow |->
           IF f \in ListedFlow THEN Cardinality(Dependencies[f]) ELSE 0]
    /\ m_fg_running = 0
    /\ m_on_complete = [f \in Flow |-> << >>]
    /\ m_completed = [f \in Flow |-> FALSE]
    /\ m_completed_chains = [p \in Phases |-> 0]
    /\ writes = [f \in Simple |-> 0]
    /\ stopped = FALSE
    /\ aborted = FALSE

\* Nothing is left to do at the present time.
Tick ==
    /\ Idle /\ checked
    /\ now < MaxTime
    /\ \A i \in DOMAIN events : ~Due(i)
    /\ now' = now + 1
    /\ UNCHANGED <<events, checked, stack, graph_vars, m_fg_running, flow_vars, stopped, aborted>>

\* Faulty variant, for mutation checks only: the start event always runs the
\* flow.
StartsAlways(f) == TRUE

MayStart(f) == m_rem_dependencies[f] = 0

StartEvent(i) ==
    LET f       == events[i].flow
        pending == RemoveAt(events, i)
    IN  /\ Idle
        /\ Due(i)
        /\ \A j \in 1 .. (i - 1) : ~Due(j)
        /\ f \in ListedFlow \/ checked
        /\ \/ MayStart(f) /\ RunFlow(f, << >>, pending, m_rem_dependencies)
           \/ /\ ~MayStart(f)
              /\ events' = pending
              /\ UNCHANGED <<stack, graph_vars, m_fg_running, flow_vars, aborted>>
        /\ UNCHANGED <<now, checked, stopped>>

\* The check of the constructor, once the start events of time 0 have run.
FirstCheck ==
    /\ Idle /\ ~checked
    /\ \A i \in DOMAIN events : Due(i) => events[i].flow \in Children
    /\ checked' = TRUE
    /\ stopped' = (m_fg_running = 0)
    /\ UNCHANGED <<now, events, stack, graph_vars, m_fg_running, flow_vars, aborted>>

\* Faulty variant, for mutation checks only: the count is compared before it is
\* incremented.
IsLastUncounted(f) == 0 = Writes[f]

\* Each write of a bisection has its own copy of the lambda that counts them:
\* the count that it compares with Writes[f] is 1.
IsLastWrite(f) == 1 = Writes[f]

\* A write is acknowledged, or a timer elapses.
WriteCompletes(f) ==
    /\ Idle /\ checked
    /\ writes[f] > 0
    /\ \A i \in DOMAIN events : Due(i) => ~ScheduledBefore(i, f)
    /\ writes' = [writes EXCEPT ![f] = @ - 1]
    /\ IF IsLastWrite(f) THEN NotifyComplete(f, m_on_complete[f], << >>)
                         ELSE UNCHANGED <<m_completed, stack, aborted>>
    /\ UNCHANGED <<now, events, checked, graph_vars, m_fg_running, m_on_complete,
                   m_completed_chains, stopped>>

\* The next callback of a flow that completes, if there is one.
Calls(callback) ==
    /\ ~aborted
    /\ stack # << >>
    /\ Top.call = "NotifyComplete"
    /\ Top.left # << >>
    /\ Head(Top.left) = callback

Returned == <<Completing(Top.flow, Tail(Top.left))>> \o Tail(stack)

OnChainComplete ==
    /\ Calls("OnChainComplete")
    /\ \E p \in Phases :
          /\ Top.flow \in ChildrenOf(p)
          /\ m_completed_chains' = [m_completed_chains EXCEPT ![p] = @ + 1]
          /\ CASE m_completed_chains[p] + 1 > Len(Chains[p]) ->
                    aborted' = TRUE /\ UNCHANGED <<stack, m_completed>>
               [] m_completed_chains[p] + 1 = Len(Chains[p]) ->
                    NotifyComplete(p, m_on_complete[p], Returned)
               [] OTHER ->
                    stack' = Returned /\ UNCHANGED <<m_completed, aborted>>
    /\ UNCHANGED <<now, events, checked, graph_vars, m_fg_running, m_on_complete, writes,
                   stopped>>

InOnFlowFinish == ~aborted /\ stack # << >> /\ Top.call = "OnFlowFinish"

\* OnFlowFinish counts the flow out; the loop over the flows that depend on it
\* is ResolveDependency, and its end AnnounceEnd.
OnFlowFinish ==
    /\ Calls("OnFlowFinish")
    /\ IF IsForeground(Top.flow) /\ m_fg_running = 0
       THEN aborted' = TRUE /\ UNCHANGED <<stack, m_fg_running>>
       ELSE /\ m_fg_running' = IF IsForeground(Top.flow) THEN m_fg_running - 1
                                                         ELSE m_fg_running
            /\ stack' = <<Finishing(Top.flow)>> \o Returned
            /\ UNCHANGED aborted
    /\ UNCHANGED <<now, events, checked, graph_vars, flow_vars, stopped>>

\* Faulty variant, for mutation checks only: the start time is not looked at.
IsPastAnyStart(f) == TRUE

\* Faulty variant, for mutation checks only: a flow whose start event ran at the
\* present time is missed.
IsLongPastStart(f) == now > Start(f)

IsPastStart(f) == now >= Start(f)

\* Faulty variant, for mutation checks only: one dependency is enough.
IsAnyDependency(target) == TRUE

IsLastDependency(target) == m_rem_dependencies[target] = 1

ResolveDependency(target) ==
    LET rest == <<[Top EXCEPT !.left = @ \ {target}]>> \o Tail(stack)
        rem  == [m_rem_dependencies EXCEPT ![target] = @ - 1]
    IN  /\ InOnFlowFinish
        /\ target \in Top.left
        /\ IF m_rem_dependencies[target] = 0
           THEN /\ aborted' = TRUE
                /\ UNCHANGED <<events, stack, graph_vars, m_fg_running, flow_vars>>
           ELSE IF IsLastDependency(target) /\ IsPastStart(target)
           THEN RunFlow(target, rest, events, rem)
           ELSE /\ m_rem_dependencies' = rem
                /\ stack' = rest
                /\ UNCHANGED <<events, m_dependencies, m_fg_running, flow_vars, aborted>>
        /\ UNCHANGED <<now, checked, stopped>>

AnnounceEnd ==
    /\ InOnFlowFinish
    /\ Top.left = {}
    /\ stopped' = (stopped \/ m_fg_running = 0)
    /\ stack' = Tail(stack)
    /\ UNCHANGED <<now, events, checked, graph_vars, m_fg_running, flow_vars, aborted>>

\* NotifyComplete has called its last callback.
NotifyCompleteReturns ==
    /\ ~aborted
    /\ stack # << >>
    /\ Top.call = "NotifyComplete" /\ Top.left = << >>
    /\ stack' = Tail(stack)
    /\ UNCHANGED <<now, events, checked, graph_vars, m_fg_running, flow_vars, stopped, aborted>>

Next ==
    \/ Tick
    \/ FirstCheck
    \/ \E i \in DOMAIN events : StartEvent(i)
    \/ \E f \in Simple : WriteCompletes(f)
    \/ OnChainComplete
    \/ OnFlowFinish
    \/ \E f \in Flow : ResolveDependency(f)
    \/ AnnounceEnd
    \/ NotifyCompleteReturns

Spec == Init /\ [][Next]_vars

\* The event loop takes the next event as long as there is one, and the network
\* completes every write.
LiveSpec == Spec /\ WF_vars(Next)

-----------------------------------------------------------------------------
(* Properties *)

Needs == [f \in Flow |-> IF f \in ListedFlow THEN Dependencies[f] ELSE Predecessors(f)]
Completed == {f \in Flow : m_completed[f]}

\* RunFlow has been called.
HasRun(f) == \E k \in DOMAIN m_on_complete[f] : m_on_complete[f][k] = "OnFlowFinish"

TypeOK ==
    /\ now \in 0 .. MaxTime
    /\ events \in Seq([flow : Flow, time : Nat])
    /\ checked \in BOOLEAN
    /\ \A k \in DOMAIN stack : \/ stack[k].call = "NotifyComplete"
                               \/ stack[k].call = "OnFlowFinish" /\ stack[k].left \subseteq Flow
    /\ m_dependencies \in [Flow -> SUBSET Flow]
    /\ m_rem_dependencies \in [Flow -> Nat]
    /\ m_fg_running \in Nat
    /\ m_on_complete \in [Flow -> Seq({"OnFlowFinish", "OnChainComplete"})]
    /\ m_completed \in [Flow -> BOOLEAN]
    /\ \A p \in Phases : m_completed_chains[p] \in 0 .. Len(Chains[p])
    /\ writes \in [Simple -> Nat]
    /\ stopped \in BOOLEAN
    /\ aborted \in BOOLEAN

\* Between two events m_fg_running is the number of foreground flows that run:
\* whatever nesting of callbacks ended them, each was counted in and out once.
FgRunningCounts ==
    stack = << >> /\ ~aborted =>
        m_fg_running = Cardinality({f \in Flow \ InBackground : HasRun(f) /\ ~m_completed[f]})

\* No start event runs a flow that has run: between the start event of a flow
\* that completes at once and a later one at the same time, none is resolved.
\* OnFlowFinish would run a flow that the start event then runs again.
StartsApart ==
    /\ Immediate \intersect Children = {}
    /\ \A i, j \in DOMAIN Listed :
          /\ i < j
          /\ Listed[i] \in Immediate
          /\ StartTime[Listed[i]] = StartTime[Listed[j]]
          => Dependencies[Listed[j]] \intersect Immediate = {}

\* None of the assertions of NotifyComplete, OnFlowFinish and OnChainComplete
\* fails: no flow completes twice and no dependency is resolved twice.
NeverAborts == ~aborted

\* Between two events no flow was forgotten: if its start event is past and the
\* flows it depends on have completed, it has run.  The start event and
\* OnFlowFinish each decide whether the other will run the flow.
NoFlowForgotten ==
    stack = << >> /\ ~aborted =>
        \A f \in Flow :
            \/ \E i \in DOMAIN events : events[i].flow = f
            \/ \E p \in Phases : f \in ChildrenOf(p) /\ ~HasRun(p)
            \/ ~(Needs[f] \subseteq Completed)
            \/ HasRun(f)

\* OnFlowFinish does not run a flow before its start time.
RunsAfterStart ==
    [][\A f \in Flow : ~HasRun(f) /\ HasRun(f)' => now >= Start(f)]_vars

\* Every flow runs when the flows it depends on have completed, completes once,
\* and the end is announced while no foreground flow runs.
Graph == INSTANCE FlowGraph WITH
    Foreground <- Flow \ InBackground,
    waiting    <- {f \in Flow : ~HasRun(f)},
    done       <- Completed,
    announced  <- stopped
ImplementsFlowGraph == Graph!Spec

\* If every write completes, the simulation ends.
SimulationEnds == <>stopped
=============================================================================
