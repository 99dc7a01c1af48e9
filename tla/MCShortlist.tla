----------------------------- MODULE MCShortlist -----------------------------
(***************************************************************************)
(* Model-checking definitions for Shortlist: many resumes and skill lists  *)
(* for candidates that are otherwise perfect or middling, every branch of  *)
(* the other signals, and postings that hit every rule of the detector and *)
(* the critic.                                                             *)
(***************************************************************************)
EXTENDS Shortlist

acme == <<"acme", "global">>
engineer == <<"platform", "engineer">>

Perfect ==
    [skills |-> {"k8s"}, roles |-> {engineer}, years |-> 5, companies |-> {acme},
     location |-> <<"pune">>, targets |-> {}, openToRemote |-> TRUE]

Posting ==
    [title |-> engineer, company |-> acme, required |-> {"kubernetes"}, preferred |-> {},
     min |-> 3, max |-> 6, remote |-> FALSE, location |-> <<"pune">>, age |-> 0,
     source |-> "employer_ats", phrases |-> {}, description |-> "long", urls |-> <<"https">>,
     salaryMin |-> Missing, salaryMax |-> Missing, currency |-> "INR", posted |-> "past"]

NoViews == [skills |-> Missing, title |-> Missing, profile |-> Missing]
Request(c, j, v) == [candidate |-> c, job |-> j, views |-> v]

MCNewSkills == {"figma", "react.js", "tf"}
MCCosines == {Missing, 100}

(* Nothing left to learn. *)
Skilled == [Perfect EXCEPT !.skills = @ \cup MCNewSkills]

Middling == [Perfect EXCEPT !.roles = {<<"engineer">>}, !.years = 2, !.companies = {<<"acme">>}]

SkillRequests ==
    {Request([c EXCEPT !.skills = s], [Posting EXCEPT !.required = q, !.preferred = p, !.age = Missing], v) :
        c \in {Perfect, Middling}, s \in {{"k8s"}, {"docker"}, {"next.js", "docker ce"}, {"react.js", "docker"}},
        q \in {{}, {"kubernetes"}, {"kubernetes", "terraform"}, {"react", "k8s", "python"}},
        p \in {{}, {"next.js"}},
        v \in {NoViews, [NoViews EXCEPT !.skills = 100, !.profile = 80],
                       [NoViews EXCEPT !.skills = 100, !.profile = 100]}}

Candidates ==
    {[Perfect EXCEPT !.roles = r] : r \in {{}, {<<"engineer", "platform">>}, {<<"data", "engineer">>}, {<<>>}}}
    \cup {[Perfect EXCEPT !.years = y] : y \in {Missing, 1, 8}}
    \cup {[Perfect EXCEPT !.companies = k] : k \in {{}, {<<"acme">>}, {<<"other">>}}}
    \cup {[Perfect EXCEPT !.location = l, !.targets = t, !.openToRemote = o] :
            l \in {<<>>, <<"delhi">>}, t \in {{}, {<<"pune">>}}, o \in BOOLEAN}

Jobs ==
    {[Posting EXCEPT !.min = a, !.max = b] : a \in {Missing, 3, 6}, b \in {Missing, 6}}
    \cup {[Posting EXCEPT !.remote = r, !.location = l] : r \in BOOLEAN, l \in {<<>>, <<"delhi">>}}
    \cup {[Posting EXCEPT !.age = a, !.source = s] : a \in {Missing, -1, 1}, s \in {"linkedin", "naukri"}}
    \cup {[Posting EXCEPT !.title = t, !.company = c] :
            t \in {<<>>, <<"senior", "staff", "engineer">>, <<"engineer", "ii">>},
            c \in {<<>>, <<"armstrong">>}}

(* For the rules of the detector and the critic. *)
SuspectJobs ==
    {[Posting EXCEPT !.title = t, !.salaryMin = a, !.salaryMax = b, !.currency = u] :
            t \in {engineer, <<"lead">>}, a \in {Missing, 0, 40, 130}, b \in {Missing, 0, 40, 130, 360},
            u \in {"INR", "USD"}}
    \cup {[Posting EXCEPT !.phrases = p, !.description = d, !.urls = u] :
            p \in {{}, {"fee"}, {"documents", "chat"}, {"guarantee", "email"}, {"injection", "email"}},
            d \in {"short", "long"}, u \in {<<>>, <<"https", "http">>, <<"shortener">>}}
    \cup {[Posting EXCEPT !.posted = d, !.company = <<"acme">>] : d \in {"future", "garbled"}}

MCRequests ==
    SkillRequests
    \cup {Request(c, Posting, NoViews) : c \in Candidates}
    \cup {Request(Perfect, j, NoViews) : j \in Jobs}
    \cup {Request(Skilled, j, NoViews) : j \in SuspectJobs}
    \cup {Request(Perfect, Posting, [NoViews EXCEPT !.title = t]) : t \in {0, 79, 100}}

MCCompanions == {<<>>, <<[Posting EXCEPT !.title = <<>>]>>, <<[Posting EXCEPT !.phrases = {"injection"}]>>}

MCOutreach ==
    {[contacts |-> <<c>>, drafts |-> <<[size |-> s, quotes |-> q]>>] :
        c \in {{}, {"email"}}, s \in {"long"}, q \in {{}, {"long quote", "figures"}}}
=============================================================================
