SPECIFICATION Spec
CONSTANTS
    Pages = {"overview", "transactions"}
    Paged = {"transactions"}
    Home = "overview"
    Filters = {"all", "by key"}
    All = "all"
    Tokens = {"A"}
    NoToken = "none"
    PageSize = 1
    MaxRows = 2
    Requests = {r1, r2}
    NoRead = NoRead
INVARIANTS
    NoMatchMeansNeverLanded
