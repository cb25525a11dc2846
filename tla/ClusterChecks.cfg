CONSTANTS
    Nodes = {n1, n2}
    Configs = {c1, c2}
    NoNode = NoNode
    NodeAgents = {n2}
    AdvancedDispatching = TRUE
    MaxChanges = 2
    MaxFaults = 1
    MaxMoves = 1
SPECIFICATION Spec
INVARIANTS
    TypeOK
    OneOwnerUntilMoved
    NothingForgotten
    StampMeansConfigs
PROPERTIES
    EventuallyRuns
