SPECIFICATION FairSpec
CONSTANTS
    MayQuit = {B}
    a1 = a1
    a2 = a2
    b1 = b1
    A = A
    B = B
    NoWindow = NoWindow
    Window <- MCWindow
    App <- MCApp
    AppOf <- MCAppOf
    Requests <- MCRequests
    MaxRequests = 2
INVARIANTS
    OneFocusAlive
    NoOrphanRaise
    FocusLast
    EchoSound
CHECK_DEADLOCK FALSE
PROPERTY NeverBlocks
