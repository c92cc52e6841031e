SPECIFICATION FairSpec
CONSTANTS
    Users = {u1, u2}
    Requests = {r1, r2}
    Games = {g1}
    rpg = rpg
    pc_platform = pc_platform
    Slugs <- MCSlugs
    ContentSlugs <- MCContent
    PreferenceBodies <- OnePref
    FeedbackBodies <- MCBodies
    Ratings <- MCRatings
    InitialRows <- TwoKinds
    Ttl = 2
    CollisionRetries = 3
    MaxTime = 2
    NoUser = NoUser
    NoGame = NoGame
    NoRequest = NoRequest
INVARIANTS
    DeletionIsComplete
PROPERTIES
    OwnedDataNeedsConsent
    ImplementsAtomicProfile
    EveryRequestIsAnswered
