SPECIFICATION Spec
CONSTANTS
    a1 = a1  a2 = a2  t1 = t1  t2 = t2  r1 = r1  r2 = r2
    Main = Main  NoAccount = NoAccount  NoThread = NoThread
    PoolAccounts = {a1, a2}
    Threads = {t1}
    Requests = {r1}
    InitialRank <- OneFirst
    Scores = {10}
    UnknownScore = 100
    AutoSwitchThreshold = 80
    FailoverThreshold = 0
    Cooldowns = {}
    AvoidLadder <- OneStep
    FailureWindow = 0
    IdleTTL = 1
    ReevalInterval = 1
    MaxPins = 1
    MaxGeneration = 2
    Events = {"refresh", "login", "delete", "usage", "main", "sidecar"}
INVARIANT TypeOK
INVARIANT DeletedIsForgotten
PROPERTY PinnedThreadsStay
