SPECIFICATION Spec
CONSTANTS
    Accounts = {a1, a2}
    NoAccount = NoAccount
    Clients = {w1, w2}
    MaxTurns = 2
SYMMETRY Interchangeable
INVARIANTS
    DeletedIsCutOff
    RegistryIsExact
    AnswersAreCurrent
CHECK_DEADLOCK FALSE
