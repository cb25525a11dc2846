CONSTANTS
    Nodes = {n1, n2}
    Configs = {c1}
    NoNode = NoNode
    NodeAgents = {}
    AdvancedDispatching = TRUE
    MaxChanges = 3
    MaxFaults = 0
    MaxMoves = 0
SPECIFICATION Spec
INVARIANTS
    RemovedStaysRemoved
