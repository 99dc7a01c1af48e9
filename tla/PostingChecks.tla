---------------------------- MODULE PostingChecks ----------------------------
(***************************************************************************)
(* What is checked of a posting and of what is made from it: the rules of  *)
(* scoring/risk_detector.py and the three modes of agents/qa_critic.py.    *)
(* Regular expressions are abstracted to the kinds of phrases they find.   *)
(***************************************************************************)
EXTENDS Integers, Sequences, FiniteSets, SequencesExt

CONSTANT Missing   \* an optional field that is not there

(* A flag of the detector is named by its rule, which fires at most once. *)
RedRules == {"FEE_REQUEST", "SENSITIVE_DOCS", "GUARANTEED_JOB"}
YellowRules ==
    {"OFF_PLATFORM_CHAT", "PERSONAL_EMAIL_ENTERPRISE", "SALARY_IMPLAUSIBLE",
     "VAGUE_DESCRIPTION", "SUSPICIOUS_URL"}

Hints == {"technologies", "solutions", "global", "corp", "inc", "ltd"}
LooksEnterprise(company) == Len(company) > 1 \/ ToSet(company) \cap Hints # {}

(* _infer_seniority: the first row with a word of the title. *)
Seniority(title) ==
    LET has(words) == ToSet(title) \cap words # {}
    IN IF has({"staff", "principal", "distinguished", "fellow"}) THEN "staff"
       ELSE IF has({"senior", "sr", "lead", "architect"}) THEN "senior"
       ELSE IF has({"mid", "intermediate", "ii", "iii"}) THEN "mid" ELSE "entry"

(* The benchmarks, in thousands of dollars and in lakhs of rupees.         *)
Benchmark(currency, seniority) ==
    IF currency = "USD" THEN [entry |-> 120, mid |-> 200, senior |-> 350, staff |-> 500][seniority]
    ELSE [entry |-> 30, mid |-> 50, senior |-> 80, staff |-> 120][seniority]

(* Faulty variant: the lower end of the range is judged if there is one.   *)
JudgedSalaryLow(j) == IF j.salaryMin \in {Missing, 0} THEN j.salaryMax ELSE j.salaryMin

(* salary_max or salary_min: a zero counts as missing. *)
JudgedSalary(j) == IF j.salaryMax \in {Missing, 0} THEN j.salaryMin ELSE j.salaryMax

SalaryImplausible(j) ==
    /\ JudgedSalary(j) # Missing
    /\ JudgedSalary(j) > 0
    /\ JudgedSalary(j) > Benchmark(j.currency, Seniority(j.title))

(* A shortener, or plain http, on either of the two URLs. *)
SuspiciousUrl(j) == \E u \in ToSet(j.urls) : u \in {"shortener", "http"}

(* The checks, one per rule.  A description of fewer than 50 characters is  *)
(* vague; the generic phrases that are looked for afterwards are shorter    *)
(* than that, unless they are blown up with white space.                    *)
Fires(rule, j) ==
    CASE rule = "FEE_REQUEST" -> "fee" \in j.phrases
      [] rule = "SENSITIVE_DOCS" -> "documents" \in j.phrases
      [] rule = "GUARANTEED_JOB" -> "guarantee" \in j.phrases
      [] rule = "OFF_PLATFORM_CHAT" -> "chat" \in j.phrases
      [] rule = "PERSONAL_EMAIL_ENTERPRISE" -> "email" \in j.phrases /\ LooksEnterprise(j.company)
      [] rule = "SALARY_IMPLAUSIBLE" -> SalaryImplausible(j)
      [] rule = "VAGUE_DESCRIPTION" -> j.description = "short"
      [] rule = "SUSPICIOUS_URL" -> SuspiciousUrl(j)

(* assess and _finalise. *)
Assessment(j) ==
    LET flags == {r \in RedRules \cup YellowRules : Fires(r, j)}
    IN [flags |-> flags,
        level |-> IF flags \cap RedRules # {} THEN "red"
                  ELSE IF flags # {} THEN "yellow" ELSE "green",
        requiresReview |-> flags \cap RedRules # {}]

-----------------------------------------------------------------------------
(* The QA critic.  A flag is its severity, its category and the position   *)
(* of what it is about.                                                    *)

Flag(severity, category, i) == [severity |-> severity, category |-> category, at |-> i]
FlagIf(condition, flag) == IF condition THEN {flag} ELSE {}
Exceeds(a, b) == a # Missing /\ b # Missing /\ a > b

PostingFlags(j, i) ==
    FlagIf(j.title = <<>> \/ j.company = <<>>, Flag("error", "schema", i))
    \cup FlagIf(Exceeds(j.min, j.max) \/ Exceeds(j.salaryMin, j.salaryMax)
                  \/ j.posted \in {"future", "garbled"}, Flag("warning", "consistency", i))
    \cup FlagIf("injection" \in j.phrases, Flag("error", "injection", i))

(* A match is what a ranking reports of a posting: scores in ten-thousandths, *)
(* whether the trace holds a word of praise, and skills as they are spelled.  *)
MatchFlags(match, i) ==
    FlagIf(match.praised /\ match.final < 5000, Flag("warning", "contradiction", i))
    \cup FlagIf(/\ match.skills > 8000
                /\ match.required # {} /\ match.candidate # {}
                /\ 10 * Cardinality(match.required \cap match.candidate)
                      < 3 * Cardinality(match.required),
                Flag("warning", "hallucination", i))

ContactFlags(contact, i) == FlagIf(contact = {}, Flag("warning", "confidence", i))

(* Drafts under 50 or over 5000 characters, quoted passages that are long   *)
(* or that hold figures.                                                    *)
DraftFlags(draft, i) ==
    FlagIf(draft.size \in {"short", "long"}, Flag("warning", "confidence", i))
    \cup FlagIf("long quote" \in draft.quotes, Flag("warning", "hallucination", i))
    \cup FlagIf("figures" \in draft.quotes, Flag("info", "hallucination", i))

(* Faulty variant: a warning fails the check as an error does.             *)
QAOutputStrict(mode, checked, flags) ==
    [mode |-> mode, checked |-> checked, flags |-> flags,
     passed |-> \A f \in flags : f.severity \notin {"error", "warning"}]

QAOutput(mode, checked, flags) ==
    [mode |-> mode, checked |-> checked, flags |-> flags,
     passed |-> \A f \in flags : f.severity # "error"]

CheckExtraction(jobs) ==
    QAOutput("post_extraction", Len(jobs), UNION {PostingFlags(jobs[i], i) : i \in DOMAIN jobs})

CheckRanking(matches) ==
    QAOutput("post_ranking", Len(matches), UNION {MatchFlags(matches[i], i) : i \in DOMAIN matches})

CheckOutreach(contacts, drafts) ==
    QAOutput("post_outreach", Len(contacts) + Len(drafts),
             (UNION {ContactFlags(contacts[i], i) : i \in DOMAIN contacts})
                \cup (UNION {DraftFlags(drafts[i], i) : i \in DOMAIN drafts}))

(* A mode that reason_and_act does not know. *)
CheckUnknown(mode) == QAOutput(mode, 0, {})
=============================================================================
