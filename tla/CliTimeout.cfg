SPECIFICATION Spec
CONSTANTS
    Replica = {1, 2}
    Nobody = Nobody
    MaxStarts = 2
    MaxEnds = 1
    Contents = {"a", "b", "bad"}
    Incomplete = {"bad"}
    Posted = {"a"}
    Refusals = {"tooFarAhead"}
    MaxCalls = 2
    MaxKeys = 2
    Absent = Absent
    NanosPerUnit = 100
    MaxUnits = 3
    Finer = 10
    Pieces <- SomePieces
    Precision = 10
    Finest = 17
    TypedAmounts <- SomeAmounts
    TypeNames <- Types
    UpperCased <- Upper
    Calls <- SomeCalls
    Base = 10
    Digit <- Figures
    Character <- Characters
    Drafts <- SomeDrafts
    NoText = NoText
INVARIANTS
    RejectionsAreTheLedgers
CHECK_DEADLOCK FALSE
