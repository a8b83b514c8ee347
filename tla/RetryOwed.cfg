SPECIFICATION Spec
CONSTANTS
    Accounts = {1, 2, 3}
    Keys = {"k1", "k2", "k3"}
    Notes = {"rent", "fee", "late"}
    Drafts <- DateDrafts
    MaxUnits = 100
    Calls = {c1, c2}
    NoCall = NoCall
    Instances = {1}
    ClockSkew <- OneInstance
    PoolSize = 2
    MaxClock = 2
    Microsecond = 2
    FutureTolerance = 2
PROPERTY RetryOwedOriginal
