SPECIFICATION WebSpec
CONSTANTS
    Games <- MCGames
    PageSize = 2
    MaxItems = 4
    MaxTime = 3
    InitialRows <- MCRows
    Facets = {genre, tag}
    Values = {a}
    NoValue = NoValue
    NoQuery = NoQuery
    Invalid = Invalid
    NoSelection = NoSelection
    Pages = {1}
    Outcomes = {"not_found", "error"}
    Families <- MCFamilies
    Primary <- MCPrimary
    Items <- MCItems
    FamilyOf <- MCFamilyOf
    Limit = 1
    Paged = {"games"}
    PageLength = 1
    MaxRetries = 1
    MaxPushes = 3
    MaxSubmits = 3
    MaxLoads = 2
INVARIANTS
    WebInv
    WantedIsShown
    RapidClicksCompose
    FormIsHonest
CHECK_DEADLOCK FALSE
