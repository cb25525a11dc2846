CONSTANTS
    Versions = {v1, v2, v3}
    None = None
    ToStable = ToStable
    Temporary = Temporary
    HasHook = TRUE
SPECIFICATION Spec
SYMMETRY Symmetry
INVARIANTS
    TypeOK
    LinksResolve
    FailsForCause
    NoGarbage
    EntryIsStable
PROPERTIES
    ImplementsRepository
