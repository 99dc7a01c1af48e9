------------------------------ MODULE Shortlist ------------------------------
(***************************************************************************)
(* What happens to one posting on its way to a shortlist: it is scored for *)
(* a candidate, assessed for risk, and the QA critic reviews the postings, *)
(* the ranking and the outreach.  The three components are pure; their     *)
(* callers, who are not written yet, may call them in any order.  The      *)
(* candidate may come back with a resume that lists one more skill, whose  *)
(* embeddings are new as well, and the posting ages; both lead to a new    *)
(* score.                                                                  *)
(***************************************************************************)
EXTENDS Scoring

CONSTANTS
    Requests,    \* [candidate, job, views] the engine is asked to score
    Companions,  \* postings extracted together with the one of the request
    Outreach,    \* [contacts, drafts] the critic is asked to review
    NewSkills,   \* the skills a new resume may add
    Cosines,     \* its embeddings' cosines with those of the posting
    MaxAge       \* bound: a posting ages up to this many half-lives

(* Skills are listed in a resume and a posting, so there are finitely many. *)
Scorable(r) ==
    /\ r \in [candidate : CandidateProfile, job : JobDescription, views : Views]
    /\ IsFiniteSet(r.candidate.skills)
    /\ IsFiniteSet(r.job.required \cup r.job.preferred)

ASSUME ShortlistAssumption ==
    /\ MaxAge \in Nat
    /\ Missing \notin Int
    /\ NewSkills \subseteq STRING
    /\ Cosines \subseteq Optional(0..100)
    /\ \A r \in Requests : Scorable(r)

Checks == INSTANCE PostingChecks

VARIABLES
    request,     \* what is scored
    breakdown,   \* the ScoreBreakdown, or Missing
    assessment,  \* the RiskAssessment, or Missing
    verdict,     \* the last QACheckOutput, or Missing
    reviewed     \* the postings it is about, if it is about postings

shortlistVars == <<request, breakdown, assessment, verdict, reviewed>>

ScoreOf(r) == FinalScore(r.candidate, r.job, r.views)

Score ==
    /\ breakdown = Missing
    /\ breakdown' = ScoreOf(request)
    /\ UNCHANGED <<request, assessment, verdict, reviewed>>

Assess ==
    /\ assessment = Missing
    /\ assessment' = Checks!Assessment(request.job)
    /\ UNCHANGED <<request, breakdown, verdict, reviewed>>

ReviewExtraction ==
    /\ \E others \in Companions : reviewed' = <<request.job>> \o others
    /\ verdict' = Checks!CheckExtraction(reviewed')
    /\ UNCHANGED <<request, breakdown, assessment>>

(* Names the engine quotes in its trace: the company, where there are target *)
(* companies, and the skills of the gaps.                                    *)
Praise == {"excellent", "armstrong"}
Quoted == (IF request.candidate.companies = {} THEN {} ELSE ToSet(request.job.company))
             \cup {g.skill : g \in breakdown.gaps}

(* The match the ranking is made of; skills as the resume and the posting   *)
(* spell them, up to case.                                                  *)
Match ==
    [final |-> breakdown.final, skills |-> breakdown.signals.skills,
     praised |-> Quoted \cap Praise # {},
     required |-> request.job.required, candidate |-> request.candidate.skills]

ReviewRanking ==
    /\ breakdown # Missing
    /\ verdict' = Checks!CheckRanking(<<Match>>)
    /\ reviewed' = <<>>
    /\ UNCHANGED <<request, breakdown, assessment>>

ReviewOutreach ==
    /\ \E o \in Outreach : verdict' = Checks!CheckOutreach(o.contacts, o.drafts)
    /\ reviewed' = <<>>
    /\ UNCHANGED <<request, breakdown, assessment>>

ReviewUnknown ==
    /\ verdict' = Checks!CheckUnknown("post_research")
    /\ reviewed' = <<>>
    /\ UNCHANGED <<request, breakdown, assessment>>

-----------------------------------------------------------------------------
(* The new version is scored at once; it has not been checked yet. *)
Rescore ==
    /\ breakdown' = ScoreOf(request')
    /\ assessment' = Missing
    /\ verdict' = Missing
    /\ reviewed' = <<>>

(* The embeddings of the skills and of the profile are made of the resume.   *)
LearnSkill ==
    /\ breakdown # Missing
    /\ \E s \in NewSkills \ request.candidate.skills, k, p \in Cosines :
        request' = [request EXCEPT !.candidate.skills = @ \cup {s},
                                   !.views.skills = k, !.views.profile = p]
    /\ Rescore

PostingAges ==
    /\ breakdown # Missing
    /\ request.job.age # Missing /\ request.job.age < MaxAge
    /\ request' = [request EXCEPT !.job.age = @ + 1]
    /\ Rescore

ShortlistInit ==
    /\ request \in Requests
    /\ breakdown = Missing
    /\ assessment = Missing
    /\ verdict = Missing
    /\ reviewed = <<>>

ShortlistNext ==
    \/ Score \/ Assess
    \/ ReviewExtraction \/ ReviewRanking \/ ReviewOutreach \/ ReviewUnknown
    \/ LearnSkill \/ PostingAges

ShortlistSpec == ShortlistInit /\ [][ShortlistNext]_shortlistVars

-----------------------------------------------------------------------------
(* Properties. *)

(* No keyword, title or company makes a strong match by itself: "strong"    *)
(* takes an embedding of the whole profile that is similar to the job's,    *)
(* and where they are very similar also half of the skills.  Without        *)
(* embeddings the engine shortlists nothing as strong.                      *)
StrongIsBacked ==
    breakdown # Missing /\ breakdown.tier = "strong" =>
        /\ request.views.profile # Missing /\ request.views.profile > 0
        /\ \/ request.views.profile <= 80
           \/ 2 * Cardinality(Own(request.candidate) \cap AllAsked(request.job))
                 >= Cardinality(AllAsked(request.job))

(* The tier is decided on the unrounded sum, the breakdown shows it rounded: *)
(* the shown score contradicts the tier at most by the half digit it was     *)
(* rounded up, or by the arbitration.                                        *)
ShownScoreFitsTier ==
    breakdown # Missing =>
        LET tier == TierOf((Unit \div 10000) * breakdown.final)
        IN \/ breakdown.tier = tier
           \/ breakdown.tier = "good" /\ tier = "strong" /\ request.views.profile > 80
           \/ /\ breakdown.final \in {4000, 6000, 8000}
              /\ (Unit \div 10000) * breakdown.final - breakdown.exact \in 1..(Unit \div 20000)

(* By how many percent a cosine rises; without an embedding it counts as 0. *)
Rise(old, new) ==
    LET Counted(v) == IF v = Missing THEN 0 ELSE v
    IN Max({0, Counted(new) - Counted(old)})

(* The skills a resume lists beyond the posting's, close to none of them,    *)
(* are no way up but through the embeddings of the longer resume: whatever   *)
(* they do to the matched and the adjacent share, the skills signal rises by *)
(* at most 20 % of what the skills' cosine rises, and the score by 30 % of   *)
(* that and 10 % of what the profile's cosine rises.                         *)
UnrelatedSkillHelpsOnlyByEmbedding ==
    [][LearnSkill =>
        LET learned == Own(request'.candidate) \ Own(request.candidate)
            skills == Rise(request.views.skills, request'.views.skills)
            profile == Rise(request.views.profile, request'.views.profile)
        IN (\A s \in learned, a \in AllAsked(request.job) : Adjacency(s, a) = 0) =>
              /\ breakdown'.signals.skills <= breakdown.signals.skills + 20 * skills
              /\ breakdown'.final <= breakdown.final + 6 * skills + 10 * profile]_shortlistVars

(* The ranking review finds no hallucinated skill in what the engine scored, *)
(* however resume and posting spell their skills: no signal it looks at      *)
(* gets beyond the 40 % of the overlap and the 20 % of the embedding.        *)
RankingReviewHasNoHallucination ==
    breakdown # Missing =>
        /\ breakdown.signals.skills <= 6000
        /\ \A f \in Checks!MatchFlags(Match, 1) : f.category # "hallucination"

(* For a posting the critic finds consistent, or whose upper end is stated   *)
(* as 0, the detector judges the salary by all that is stated: it flags it   *)
(* exactly when one of its ends is beyond the benchmark.                     *)
SalaryRuleComplete ==
    LET j == request.job
        stated == {j.salaryMin, j.salaryMax} \ {Missing}
    IN assessment # Missing /\ (j.salaryMax = 0 \/ ~Checks!Exceeds(j.salaryMin, j.salaryMax)) =>
        (("SALARY_IMPLAUSIBLE" \in assessment.flags)
            <=> \E s \in stated : s > Checks!Benchmark(j.currency, Checks!Seniority(j.title)))

(* "Never blocks": a review fails only on postings that lack what every      *)
(* later stage needs or that carry an injection, whatever else it flags; a   *)
(* ranking, an outreach and a mode nobody knows always pass.                 *)
OnlyUnfitPostingsFail ==
    verdict # Missing =>
        (verdict.passed <=> \A i \in DOMAIN reviewed :
            /\ reviewed[i].title # <<>> /\ reviewed[i].company # <<>>
            /\ "injection" \notin reviewed[i].phrases)

-----------------------------------------------------------------------------
(* Expectations that the code does not meet. *)

(* A longer list of skills is no way up. *)
UnrelatedSkillNeverHelps ==
    [][LearnSkill =>
        LET learned == Own(request'.candidate) \ Own(request.candidate)
        IN (\A s \in learned, a \in AllAsked(request.job) : Adjacency(s, a) = 0) =>
              breakdown'.final <= breakdown.final]_shortlistVars

(* A skill the posting requires, once learned, never lowers the score, as    *)
(* long as the embeddings stay as similar.                                   *)
RequiredSkillHelps ==
    [][LearnSkill /\ request'.views = request.views =>
        (Own(request'.candidate) \ Own(request.candidate) \subseteq Asked(request.job.required)
            => breakdown'.final >= breakdown.final)]_shortlistVars

(* The plan of the repository: the critic flags a match the arbitration caps. *)
CappedIsFlagged ==
    breakdown # Missing /\ breakdown.exact >= Percent(80) /\ breakdown.tier = "good" =>
        Checks!MatchFlags(Match, 1) # {}
=============================================================================
