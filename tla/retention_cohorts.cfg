SPECIFICATION FairRetentionSpec
CONSTANTS
    Users = {u1, u2}
    Requests = {r1}
    InitialRows <- SomeRows
    MaxTime = 2
    Runs = {o1}
    Jobs <- RaceJobs
    Games = {g1}
    rpg = rpg
    Slugs <- MCSlugs
    ContentSlugs <- MCSlugs
    PreferenceBodies <- MCPrefs
    FeedbackBodies = {}
    Ratings = {}
    Ttl = 2
    CollisionRetries = 2
    NoUser = NoUser
    NoGame = NoGame
    NoRequest = NoRequest
    BatchSize = 1
INVARIANTS
    RetentionInv
    RetiredCohortIsGone
    DeletionIsComplete
PROPERTIES
    PurgeStaysInScope
    RevocationIsFinal
    EveryRunEnds
