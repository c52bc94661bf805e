SPECIFICATION FairSpec
CONSTANTS
    a = a
    b = b
    p = p
    q = q
    x = x
    Window <- MCWindow
    Place <- MCPlace
    Seen = {p, q}
    Home <- MCHome
    Scenarios <- MCScenarios
CHECK_DEADLOCK FALSE
INVARIANTS
    TypeOK
    LayoutReached
    HoldFollows
    HeldKept
PROPERTIES
    DrawnForItsEnd
    ImplementsContract
    WrittenBehind
    Lands
