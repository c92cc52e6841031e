SPECIFICATION Spec
CONSTANTS
    Tabs = {t1, t2}
    Sessions = {s1, s2}
    Games = {g1}
    Reactions = {liked}
    Prefs = {p1}
    s1 = s1
    p1 = p1
    g1 = g1
    liked = liked
    Starts <- Liked
    MaxVersion = 1
    MaxClicks = 3
    MaxLost = 0
    NoSession = NoSession
    NoPrefs = NoPrefs
    NoReaction = NoReaction
    NoGame = NoGame
CHECK_DEADLOCK FALSE
SYMMETRY TabSymmetry
INVARIANTS
    FlowInv
PROPERTIES
    ChangesAreSigned
