SPECIFICATION Spec
CONSTANTS
    wa = wa
    wb = wb
    wc = wc
    wd = wd
    one = one
    two = two
    Windows = {wa, wb, wc, wd}
    NoWindow = NoWindow
    Spaces = {one, two}
    Unopened = Unopened
    Gone = Gone
    NoDrag = NoDrag
    NoRun = NoRun
    Viewport = 12
    MinWidth = 4
    MaxWidth = 10
    DefaultWidth = 6
    Presets <- PresetWidths
    Scenarios <- Taken
INVARIANTS
    StripsAgree
    PressedTwice
    PlaceKept
    FocusInView
CHECK_DEADLOCK FALSE
