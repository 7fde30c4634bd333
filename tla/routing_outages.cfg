SPECIFICATION Spec
CONSTANTS
    a1 = a1  a2 = a2  t1 = t1  t2 = t2  r1 = r1  r2 = r2
    Main = Main  NoAccount = NoAccount  NoThread = NoThread
    PoolAccounts = {a1}
    Threads = {t1, t2}
    Requests = {r1, r2}
    InitialRank <- OnlyOne
    Scores = {100}
    UnknownScore = 100
    AutoSwitchThreshold = 80
    FailoverThreshold = 2
    Cooldowns = {2}
    AvoidLadder <- Ladder
    FailureWindow = 1
    IdleTTL = 1
    ReevalInterval = 0
    MaxPins = 1
    MaxGeneration = 2
    Events = {"retry", "select", "mode"}
SYMMETRY SameThreadsAndRequests
INVARIANT PinsNeverCooling
PROPERTY ServedWhileAnySelectable
PROPERTY HardCooldownHolds
INVARIANT PinsAreBounded
PROPERTY LateOutcomesSpareOthers
