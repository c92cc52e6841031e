SPECIFICATION BrowserSpec
CONSTANTS
    Facets = {genre, tag}
    Values = {a}
    NoValue = NoValue
    Pages <- MCPages
    NoQuery = NoQuery
    Subjects <- Queries
    Invalid = Invalid
    Outcomes = {"error"}
    MaxRetries = 1
    MaxPushes = 3
    Discards = FALSE
INVARIANT ClickStartsFromAddress
CHECK_DEADLOCK FALSE
