SPECIFICATION Spec
CONSTANTS
    Instances = {1, 2}
    Sizes = {0, 1, 9}
    DefaultSize = 2
    LargestSize = 3
    LargestNumber = 15
    MaxDate = 1
    MaxPostings = 4
    Absent = Absent
    NanosPerUnit = 10
    MaxUnits = 3
    Finer = 10
    Pieces <- SomePieces
    MaxLegs = 3
    TypeNames <- Types
    UpperCased <- Upper
    Books <- SmallBooks
    Periods <- SmallPeriods
    Pairs <- SmallPairs
INVARIANTS
    TypeOK
    PagesMissNothing
    BalancesFollowTheirWriter
    TotalEndsTheWalk
    ListingsAgree
    PrintedAccountsReadBack
    AccountsStayApart
