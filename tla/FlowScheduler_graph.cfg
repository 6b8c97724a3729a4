\* Nested completions, dependencies that resolve before and after start times.
SPECIFICATION LiveSpec
CONSTANTS
    Listed <- GraphListed
    Phases = {"p"}
    Added <- GraphAdded
    Chains <- GraphChains
    Dependencies <- GraphDependencies
    StartTime <- GraphStart
    InBackground = {"b"}
    Writes <- GraphWrites
    Immediate = {"i"}
    MaxTime = 3
INVARIANTS TypeOK FgRunningCounts NeverAborts NoFlowForgotten
PROPERTIES RunsAfterStart ImplementsFlowGraph SimulationEnds
\* The simulation stops.
CHECK_DEADLOCK FALSE
