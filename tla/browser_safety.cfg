SPECIFICATION Spec
CONSTANTS
    Fetches = {f1, f2, f3}
    Allowed = {f1, f2, f3}
    App = App
    NoBrowser = NoBrowser
    MaxConcurrent = 2
INVARIANTS SlotsAccounted LaunchesBounded OnlyFailuresLeak
PROPERTY QuietAfterStop
SYMMETRY MCSymmetry
CHECK_DEADLOCK FALSE
