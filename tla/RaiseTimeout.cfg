SPECIFICATION Spec
CONSTANTS
    MayQuit = {}
    a1 = a1
    a2 = a2
    b1 = b1
    A = A
    B = B
    NoWindow = NoWindow
    Window <- MCWindow
    App <- MCApp
    AppOf <- MCAppOf
    Requests <- MCRequests
    MaxRequests = 1
CHECK_DEADLOCK FALSE
INVARIANT FocusTimeoutIsItsOwn
