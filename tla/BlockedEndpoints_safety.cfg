SPECIFICATION Spec
CONSTANTS
    Endpoints = {e1, e2}
    Requests = {r1, r2, r3, r4}
    MaxErrors = 4
    RecoveryInterval = 2
SYMMETRY Symmetry
INVARIANTS
    TypeOK
    HalfBlockedAwaitsAnswer
    CounterMatchesState
