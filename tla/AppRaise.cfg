SPECIFICATION AppFairSpec
CONSTANTS
    a1 = a1
    a2 = a2
    b1 = b1
    A = A
    B = B
    NoWindow = NoWindow
    NoApp = NoApp
    Window <- MCWindow
    App <- MCApp
    AppOf <- MCAppOf
    Requests <- MCRequests
    MaxRequests = 2
    MayQuit = {B}
    InFront = a2
    Scenarios <- MCScenarios
CHECK_DEADLOCK FALSE
INVARIANTS
    LockHeld
    RaisesInOrder
PROPERTIES
    ImplementsManager
    NoThreadStuck
