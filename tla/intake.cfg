SPECIFICATION Spec
CONSTANTS
    Processes = {p1, p2}
    Home = p1
    Runs = {r1}
    Documents <- MCDocuments
    Profiles <- MCProfiles
    Texts = {"t1", "t2"}
    JobLists <- MCJobLists
    BatchSize = 2
    Uses <- MCUses
    EmbedUse = 1
    MaxTokens = 3
    None = None
INVARIANTS
    ResultContract
    SetupComplete
    FinishedGenerationVisible
    JobListsWhole
