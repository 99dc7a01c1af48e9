SPECIFICATION ServerSpec
CONSTANTS
    Replicas = {a1, a2}
    Ids = {t1}
    Items = {j1, j2}
    NoTask = NoTask
    NoDecision = NoDecision
    Connections = {c1, c2, c3, c4}
    Broadcasts = {b1}
    HubReplica = a1
SYMMETRY ServerSymmetry
INVARIANTS ReleaseStands OnlyApprovalsRelease AtMostOnce LossBounded
