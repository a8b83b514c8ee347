SPECIFICATION Spec
CONSTANTS
    Accounts = {1, 2, 3}
    Keys = {"k1", "k2", "k3", "k4"}
    Notes = {"fund", "clash", "spend", "refund", "dip"}
    Drafts <- TransferDrafts
    MaxUnits = 2
    Calls = {c1, c2, c3, c4}
    NoCall = NoCall
    Instances = {1}
    ClockSkew <- OneInstance
    PoolSize = 4
    MaxClock = 0
    Microsecond = 2
    FutureTolerance = 2
    Dates <- ReachableDates
SYMMETRY CallsSymmetry
INVARIANTS
    RunningBalances
    AllOrNothing
    TrialBalance
    ExactlyOnce
    NoWaitCycle
    GuardHonoured
    RefusedLeavesNoTrace
    ReadsNeverFail
PROPERTY ImplementsBook
