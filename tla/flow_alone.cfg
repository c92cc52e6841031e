SPECIFICATION Spec
CONSTANTS
    Tabs = {t1}
    Sessions = {s1, s2}
    Games = {g1}
    Reactions = {liked}
    Prefs = {p1}
    s1 = s1
    p1 = p1
    g1 = g1
    liked = liked
    Starts <- Started
    MaxVersion = 2
    MaxClicks = 2
    MaxLost = 1
    NoSession = NoSession
    NoPrefs = NoPrefs
    NoReaction = NoReaction
    NoGame = NoGame
INVARIANTS
    ShownIsStored
    OneSessionShown
PROPERTIES
    EveryTabSettles
    ConsentIsInformed
CHECK_DEADLOCK FALSE
