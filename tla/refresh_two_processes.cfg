CONSTANTS
    NAccounts = 2
    c1 = c1
    c2 = c2
    c3 = c3
    p1 = p1
    p2 = p2
    Calls = {c1, c3}
    Procs = {p1, p2}
    ProcOf <- TwoProcesses
    NoCall = NoCall
    Gone = Gone
    MayAlias = FALSE
    MaxToken = 4
    MaxOperations = 2
SPECIFICATION Spec
CHECK_DEADLOCK FALSE
INVARIANTS
    OneFetchPerGrant
