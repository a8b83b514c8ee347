SPECIFICATION Spec
CONSTANTS
    Instances = {1, 2}
    Sizes = {0, 1, 9}
    DefaultSize = 2
    LargestSize = 3
    LargestNumber = 15
    MaxDate = 1
    MaxPostings = 4
INVARIANTS
    BalancesReadInOrder
