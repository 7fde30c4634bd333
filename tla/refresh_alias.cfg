CONSTANTS
    NAccounts = 2
    c1 = c1
    c2 = c2
    c3 = c3
    p1 = p1
    p2 = p2
    Calls = {c1, c2}
    Procs = {p1}
    ProcOf <- OneProcess
    NoCall = NoCall
    Gone = Gone
    MayAlias = TRUE
    MaxToken = 4
    MaxOperations = 2
SPECIFICATION Spec
CHECK_DEADLOCK FALSE
INVARIANTS
    TypeOK
    DeletedStaysDeleted
    OneLeaderPerGrant
PROPERTIES
    GenerationOrdersWrites
    AnswerIsTheRecord
SYMMETRY Interchangeable
