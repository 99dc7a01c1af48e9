SPECIFICATION FairSpec
CONSTANTS
    Fetches = {f1, f2, f3}
    Allowed = {f1, f2}
    App = App
    NoBrowser = NoBrowser
    MaxConcurrent = 1
PROPERTY FetchesEnd
CHECK_DEADLOCK FALSE
