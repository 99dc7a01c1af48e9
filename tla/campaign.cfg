\* Two platforms, the registry as committed and one with every planned
\* agent, two attempts per activity.  No symmetry: liveness is checked too.
SPECIFICATION FairSpec
CONSTANTS
    Platforms = {p1, p2}
    Tasks <- PlanTasks
    Deps <- PlanDeps
    Priority <- PlanPriority
    Agent <- PlanAgent
    Registries = {{"resume_parser"}, {"resume_parser", "job_scout", "manager", "preference_analyst"}}
    MaxAttempts = 2
    TokenUse = {1}
    Decisions = {"approved"}
    NoDecision = NoDecision
CHECK_DEADLOCK FALSE
INVARIANTS
    TypeOK
    DependencyOrder
    NeverWaits
    VerdictSound
    StrandedByFailure
    TokensAccounted
    StopsAfterDiscovery
PROPERTIES
    OutcomesAreFinal
    ImplementsTaskGraph
    CampaignEnds
