SPECIFICATION Spec
CONSTANTS
    Pages = {"overview", "transactions"}
    Paged = {"transactions"}
    Home = "overview"
    Filters = {"all"}
    All = "all"
    Tokens = {"A", "B"}
    NoToken = "none"
    PageSize = 1
    MaxRows = 0
    Requests = {r1, r2}
    NoRead = NoRead
PROPERTIES
    RefusalDropsItsOwnToken
