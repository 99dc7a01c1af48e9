------------------------------- MODULE Scoring -------------------------------
(***************************************************************************)
(* The match score of scoring/engine.py: eight signals between 0 and 1,    *)
(* their weighted sum, the tier, the arbitration between semantic          *)
(* similarity and hard skill overlap, and the gaps.                        *)
(*                                                                         *)
(* Scores are integers in parts of Unit, and percentages of it; sizes of   *)
(* sets up to 6 divide it exactly, where the code rounds as floats do.     *)
(* Names (titles, companies, places) are lowercase, stripped sequences of  *)
(* words, and one is a substring of another when its words are: a          *)
(* substring that cuts a word is left out.  A cosine, clamped to 0..1, is  *)
(* an input in percent, or Missing where an embedding is.                  *)
(***************************************************************************)
EXTENDS Skills, SequencesExt

CONSTANT Missing   \* an optional input that is not there

Optional(S) == S \cup {Missing}

(* What the engine and the detector read of the two schemas; of two          *)
(* embeddings, their cosine.                                                 *)
CandidateProfile ==
    [skills : SUBSET STRING, roles : SUBSET Seq(STRING), years : Optional(Int),
     companies : SUBSET Seq(STRING), location : Seq(STRING),
     targets : SUBSET Seq(STRING), openToRemote : BOOLEAN]

JobDescription ==
    [title : Seq(STRING), company : Seq(STRING),
     required : SUBSET STRING, preferred : SUBSET STRING,
     min : Optional(Int), max : Optional(Int), remote : BOOLEAN, location : Seq(STRING),
     age : Optional(Int), source : STRING, phrases : SUBSET STRING,
     description : {"short", "long"}, urls : Seq(STRING),
     salaryMin : Optional(Int), salaryMax : Optional(Int), currency : STRING,
     posted : {"past", "future", "garbled"}]

Views == [skills : Optional(0..100), title : Optional(0..100), profile : Optional(0..100)]

Unit == 12000000
Percent(p) == (Unit \div 100) * p
Share(a, b) == (Unit \div Cardinality(b)) * Cardinality(a)

Within(a, b) == a \in SubSeqs(b)
Overlaps(a, b) == Within(a, b) \/ Within(b, a)

-----------------------------------------------------------------------------
(* The signals.  c is a CandidateProfile, j a JobDescription. *)

Own(c) == Canonical(c.skills)
AllAsked(j) == Asked(j.required \cup j.preferred)

(* The best credit the candidate's skills give for a skill, in percent. *)
Best(own, skill) == Max({0} \cup {Adjacency(s, skill) : s \in own})

(* The credits of some skills: every percent by its skill and its number.  *)
Credits(own, skills) == UNION {{s} \X (1..Best(own, s)) : s \in skills}

(* Faulty variant: matched skills are given adjacency credit as well.      *)
AdjacencyCreditAll(own, asked) ==
    Percent(Cardinality(Credits(own, asked))) \div Cardinality(asked)

(* Adjacency credit for the skills that are not matched, over all skills. *)
AdjacencyCredit(own, asked) ==
    Percent(Cardinality(Credits(own, asked \ own))) \div Cardinality(asked)

(* Faulty variant: the candidate's skills over the union. *)
JaccardOfOwn(own, asked) == Share(own, own \cup asked)

Jaccard(own, asked) == Share(own \cap asked, own \cup asked)

Cosine(view) == IF view = Missing THEN 0 ELSE Percent(view)

(* _score_skills: 40 % Jaccard, 40 % adjacency, 20 % cosine. *)
SkillsSignal(c, j, view) ==
    IF AllAsked(j) = {} THEN Percent(50)
    ELSE (40 * Jaccard(Own(c), AllAsked(j)) + 40 * AdjacencyCredit(Own(c), AllAsked(j))
              + 20 * Cosine(view)) \div 100

RoleMatch(role, title) ==
    LET common == ToSet(role) \cap ToSet(title)
        larger == Max({Cardinality(ToSet(role)), Cardinality(ToSet(title))})
    IN Max({IF Overlaps(role, title) THEN Percent(70) ELSE 0,
            IF common = {} THEN 0 ELSE (Percent(80) \div larger) * Cardinality(common)})

(* _score_title_alignment; an equal role ends the loop with 1. *)
TitleSignal(c, j, view) ==
    IF view # Missing THEN Cosine(view)
    ELSE IF j.title \in c.roles THEN Unit
    ELSE Max({0} \cup {RoleMatch(r, j.title) : r \in c.roles})

(* math.exp(-0.5 * (years / 2) ** 2) for whole years outside the range;     *)
(* after eleven years no part of Unit is left.                              *)
Decays ==
    <<10589963, 7278368, 3895830, 1624023, 527243, 133308, 26250, 4026, 481, 45, 3>>
Decay(years) == IF years \in DOMAIN Decays THEN Decays[years] ELSE 0

(* _score_experience_fit; the range may be open on either side. *)
ExperienceSignal(c, j) ==
    LET low == IF j.min = Missing THEN 0 ELSE j.min
        high == IF j.max = Missing THEN low + 10 ELSE j.max
    IN IF c.years = Missing THEN Percent(50)
       ELSE IF j.min = Missing /\ j.max = Missing THEN Percent(80)
       ELSE IF c.years \in low..high THEN Unit
       ELSE Decay(IF c.years < low THEN low - c.years ELSE c.years - high)

(* _score_company_preference *)
CompanySignal(c, j) ==
    IF c.companies = {} THEN Percent(50)
    ELSE IF j.company \in c.companies THEN Unit
    ELSE IF \E t \in c.companies : Overlaps(t, j.company) THEN Percent(70)
    ELSE 0

(* _score_location_fit *)
LocationSignal(c, j) ==
    IF j.remote THEN IF c.openToRemote THEN Unit ELSE Percent(90)
    ELSE IF j.location = <<>> THEN Percent(50)
    ELSE IF c.location # <<>> /\ Overlaps(c.location, j.location) THEN Unit
    ELSE IF \E t \in c.targets : Overlaps(t, j.location) THEN Percent(90)
    ELSE IF c.openToRemote THEN Percent(40) ELSE Percent(10)

(* Unit halved again and again, until nothing is left of it. *)
Halves ==
    <<6000000, 3000000, 1500000, 750000, 375000, 187500, 93750, 46875,
      23437, 11718, 5859, 2929, 1464, 732, 366, 183,
      91, 45, 22, 11, 5, 2, 1>>

(* _score_recency, ages in half-lives of 14 days; a date to come counts as  *)
(* today.                                                                   *)
RecencySignal(j) ==
    IF j.age = Missing THEN Percent(50)
    ELSE IF j.age <= 0 THEN Unit
    ELSE IF j.age \in DOMAIN Halves THEN Halves[j.age] ELSE 0

(* _SOURCE_CONFIDENCE: 20 sources, cut down; the rest counts as unknown. *)
SourceConfidence == [employer_ats |-> 100, linkedin |-> 90, manual_input |-> 50, unknown |-> 40]

SourceSignal(j) ==
    Percent(SourceConfidence[IF j.source \in DOMAIN SourceConfidence THEN j.source ELSE "unknown"])

-----------------------------------------------------------------------------
(* compute_final_score *)

Weights ==
    [skills |-> 30, title |-> 15, experience |-> 15, semantic |-> 10,
     company |-> 10, location |-> 8, recency |-> 7, source |-> 5]

Signals(c, j, views) ==
    [skills |-> SkillsSignal(c, j, views.skills), title |-> TitleSignal(c, j, views.title),
     experience |-> ExperienceSignal(c, j), semantic |-> Cosine(views.profile),
     company |-> CompanySignal(c, j), location |-> LocationSignal(c, j),
     recency |-> RecencySignal(j), source |-> SourceSignal(j)]

WeightedSum(signals) ==
    (Weights.skills * signals.skills + Weights.title * signals.title
       + Weights.experience * signals.experience + Weights.semantic * signals.semantic
       + Weights.company * signals.company + Weights.location * signals.location
       + Weights.recency * signals.recency + Weights.source * signals.source) \div 100

TierOf(score) ==
    IF score >= Percent(80) THEN "strong"
    ELSE IF score >= Percent(60) THEN "good"
    ELSE IF score >= Percent(40) THEN "partial" ELSE "weak"

HardOverlap(c, j) == IF AllAsked(j) = {} THEN Unit ELSE Share(Own(c) \cap AllAsked(j), AllAsked(j))

(* Faulty variant: no arbitration. *)
ArbitrateNever(tier, semantic, overlap) == tier

(* Semantically close but without half of the skills: at most good. *)
Arbitrate(tier, semantic, overlap) ==
    IF semantic > Percent(80) /\ overlap < Percent(50) /\ tier = "strong" THEN "good" ELSE tier

(* _identify_gaps: the required skills the candidate lacks, and whether the *)
(* closest skill is close enough to be named.                               *)
Gaps(c, j) ==
    {[skill |-> s, close |-> Best(Own(c), s) >= 30] : s \in Asked(j.required) \ Own(c)}

(* Faulty variant: two digits. *)
Round2(x) == 100 * ((x + Unit \div 200) \div (Unit \div 100))

(* round(x, 4), in ten-thousandths. *)
Round4(x) == (x + Unit \div 20000) \div (Unit \div 10000)

(* The breakdown; exact is the unrounded sum, kept for the properties. *)
FinalScore(c, j, views) ==
    LET signals == Signals(c, j, views)
        sum == WeightedSum(signals)
    IN [signals |-> [s \in DOMAIN signals |-> Round4(signals[s])],
        final |-> Round4(sum), exact |-> sum,
        tier |-> Arbitrate(TierOf(sum), signals.semantic, HardOverlap(c, j)),
        gaps |-> Gaps(c, j)]
=============================================================================
