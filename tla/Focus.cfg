SPECIFICATION FairSpec
CONSTANTS
    a1 = a1
    a2 = a2
    ap = ap
    b1 = b1
    A = A
    B = B
    NoWindow = NoWindow
    NoApp = NoApp
    Panels = {ap}
    Workspace = {1, 2}
    Ignored = {}
    FirstShown = 1
    FirstFront = B
    MaxEdges = 4
    SlowReports = FALSE
    App <- MCApp
    Window <- MCWindow
    AppOf <- MCAppOf
    Home <- MCHome
    FirstMain <- MCFirstMain
    Scenarios <- MCScenarios
CHECK_DEADLOCK FALSE
INVARIANTS
    TypeOK
    OrderLed
    ReportsSettle
    CyclingStays
    LayoutSettles
PROPERTIES
    FollowingEnds
