SPECIFICATION FairSpec
CONSTANTS
    s1 = s1
    s2 = s2
    Searches = {s1, s2}
    Preferred <- MCPreferred
    Policies <- MCPolicies
    NoPolicy = NoPolicy
    NoStrategy = NoStrategy
    Processes = {p1}
    ProcessOf <- MCProcessOf
    MaxRpm = 2
    Window = 1
    KeyTtl = 2
    HalfTime = 2
    RetryAfters = {1}
    Connected = TRUE
    MaxDelay = 1
    MaxTime = 1
    MaxCount = 7
INVARIANT AttemptsPaid
PROPERTIES SearchesEnd ImplementsCascade
