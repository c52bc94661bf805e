SPECIFICATION Spec
CONSTANTS
    d1 = d1
    d2 = d2
    s1 = s1
    s2 = s2
    f = f
    login = login
    NoSpace = NoSpace
    NoPicture = NoPicture
    Space <- MCSpace
    Fullscreen = {f}
    Login = {login}
    Pictures <- MCPictures
    First <- MCOne
    REFRESH_MAX_RETRIES = 1
    DISPLAY_STABILIZE_MAX_ATTEMPTS = 1
    DISPLAY_STABLE_REQUIRED_HITS = 2
    MayHold = {"Sleep", "Session"}
    MaxActs = 2
    MaxEpoch = 4
    MaxLag = 1
CHECK_DEADLOCK FALSE
PROPERTIES
    NoneWhileLocked
