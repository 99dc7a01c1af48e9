\* A failed scout and the phases after discovery.
SPECIFICATION Spec
CONSTANTS
    Platforms = {p1, p2}
    Tasks <- PlanTasks
    Deps <- PlanDeps
    Priority <- PlanPriority
    Agent <- PlanAgent
    Registries = {{"resume_parser", "job_scout", "manager", "preference_analyst"}}
    MaxAttempts = 2
    TokenUse = {1}
    Decisions = {"approved"}
    NoDecision = NoDecision
SYMMETRY PlatformSymmetry
CHECK_DEADLOCK FALSE
INVARIANT LaterPhasesSurviveScoutFailure
