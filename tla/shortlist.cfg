SPECIFICATION ShortlistSpec
CONSTANTS
    Missing = Missing
    Requests <- MCRequests
    Companions <- MCCompanions
    Outreach <- MCOutreach
    NewSkills <- MCNewSkills
    Cosines <- MCCosines
    MaxAge = 1
INVARIANTS
    StrongIsBacked
    ShownScoreFitsTier
    RankingReviewHasNoHallucination
    SalaryRuleComplete
    OnlyUnfitPostingsFail
PROPERTIES
    UnrelatedSkillHelpsOnlyByEmbedding
