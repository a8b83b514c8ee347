SPECIFICATION FairSpec
CONSTANTS
    Accounts = {1, 2, 3}
    Keys = {"k1", "k2", "k3"}
    Notes = {"rent", "fee", "late"}
    Drafts <- OvertakingDrafts
    MaxUnits = 100
    Calls = {c1, c2, c3}
    NoCall = NoCall
    Instances = {1, 2}
    ClockSkew <- OneAhead
    PoolSize = 1
    MaxClock = 0
    Microsecond = 2
    FutureTolerance = 2
PROPERTY EveryCallIsAnswered
