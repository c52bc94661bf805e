CONSTANTS
    s1 = s1
    s2 = s2
    c1 = c1
    c2 = c2
    f1 = f1
    f2 = f2
    Window = {c1, c2, f1, f2}
    Server = {s1, s2}
    Space = {p1, p2}
    Workspace = {v1}
    NoWindow = NoWindow
    NoServer = NoServer
    NoSpace = NoSpace
    NoRecord = NoRecord
    NoHome = NoHome
    NoState = NoState
    NotPending = NotPending
    Canonical <- MCCanonical
    Fallback <- MCFallback
    Frame = {1, 2}
    NoFrame = NoFrame
    Landing <- MCLanding
    Scenarios <- MCBatch
SPECIFICATION Spec
INVARIANT
    BatchesRecognised
CHECK_DEADLOCK FALSE
