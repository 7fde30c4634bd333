SPECIFICATION Spec
CONSTANTS
    MaxEdits = 2
    Pids = {p1, p2}
    NoPid = NoPid
    NoConfig = NoConfig
SYMMETRY Interchangeable
INVARIANTS
    EditsSurvive
    SnapshotIsNative
    InjectionIsAccountedFor
CHECK_DEADLOCK FALSE
