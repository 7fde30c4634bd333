SPECIFICATION Spec
CONSTANTS
    a1 = a1  a2 = a2  t1 = t1  t2 = t2  r1 = r1  r2 = r2
    Main = Main  NoAccount = NoAccount  NoThread = NoThread
    PoolAccounts = {a1, a2}
    Threads = {t1, t2}
    Requests = {r1}
    InitialRank <- OneFirst
    Scores = {100}
    UnknownScore = 100
    AutoSwitchThreshold = 80
    FailoverThreshold = 2
    Cooldowns = {2}
    AvoidLadder <- Ladder
    FailureWindow = 1
    IdleTTL = 1
    ReevalInterval = 1
    MaxPins = 2
    MaxGeneration = 1
    Events = {}
SYMMETRY SameThreadsAndRequests
PROPERTY LapsedThreadIsTold
