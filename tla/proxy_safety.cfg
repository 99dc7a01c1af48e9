SPECIFICATION Spec
CONSTANTS
    brd1 = brd1
    brd2 = brd2
    smart = smart
    Domains = {d1, d2}
    Requests = {r1, r2}
    Primary <- MCPrimary
    Secondary <- MCSecondary
    Host <- MCHost
    NoProxy = NoProxy
    Cooldown = 1
    MaxTime = 3
    MaxClients = 4
SYMMETRY ProxySymmetry
INVARIANTS OpenClientsKnown RotationMovesOn FailoverUnreachable
