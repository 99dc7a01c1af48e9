SPECIFICATION Spec
CONSTANTS
    c1 = c1
    p1 = p1
    p2 = p2
    Callers = {c1, c2}
    Processes = {p1, p2}
    ProcessOf <- MCProcessOf
    MaxRpm = 2
    Window = 2
    KeyTtl = 3
    HalfTime = 2
    RetryAfters = {1}
    Connected = TRUE
    MaxDelay = 1
    MaxTime = 3
    MaxCount = 3
INVARIANTS WindowBudget SlowBudget
