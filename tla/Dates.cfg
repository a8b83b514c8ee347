SPECIFICATION Spec
CONSTANTS
    Accounts = {1, 2, 3}
    Keys = {"k1", "k2", "k3"}
    Notes = {"rent", "fee", "late"}
    Drafts <- DateDrafts
    MaxUnits = 100
    Calls = {c1, c2, c3}
    NoCall = NoCall
    Instances = {1, 2}
    ClockSkew <- OneAhead
    PoolSize = 3
    MaxClock = 1
    Microsecond = 2
    FutureTolerance = 2
    Dates <- ReachableDates
SYMMETRY CallsSymmetry
INVARIANTS
    TypeOK
    Inductive
    DatesForward
    StampedStrictlyPast
    BackdatedIsFinal
    ReplayIsTheSame
    RetryNeverCollides
PROPERTY ImplementsBook
