CONSTANTS
    Versions = {v1, v2}
    None = None
    ToStable = ToStable
    Temporary = Temporary
    HasHook = TRUE
SPECIFICATION Spec
INVARIANTS
    InstallAfterPurge
