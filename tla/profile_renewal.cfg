SPECIFICATION Spec
CONSTANTS
    Users = {u1}
    Requests = {r1, r2, r3}
    Games = {g1}
    rpg = rpg
    pc_platform = pc_platform
    Slugs <- MCSlugs
    ContentSlugs <- MCContent
    PreferenceBodies <- MCPrefs
    FeedbackBodies <- MCBodies
    Ratings <- MCRatings
    InitialRows <- OneSession
    Ttl = 2
    CollisionRetries = 3
    MaxTime = 3
    NoUser = NoUser
    NoGame = NoGame
    NoRequest = NoRequest
PROPERTIES
    NoRenewalAfterExpiry
