SPECIFICATION FairSpec
CONSTANTS
    k1 = k1  k2 = k2  k3 = k3  m1 = m1  m2 = m2
    r1 = r1  r2 = r2
    DefaultCooldown = 1
    MaxCooldown = 1
    RetryAfters = {}
    Keys = {k1, k2, k3}
    FirstPool <- ThreeKeys
    Managed = {k1}
    NoKey = NoKey
    Targets <- TwoTargets
    Weight <- Equal
    StickyLimit = 2
    RoundRobin = TRUE
    NoMember = NoMember
    Direct = Direct
    Requests = {r1, r2}
    PoolMembers = {m1}
    Payloads <- AnyOrSecond
INVARIANTS
    TypeOK
    GivenUpOnlyWhenAllCooling
    OncePerMember
PROPERTIES
    InnocentKeysStayFree
    OneRotationPerRefusal
    CoolingMembersRest
    TurnLostForCause
    EveryRequestEnds
