--------------------------- MODULE SourcePolicies ---------------------------
(***************************************************************************)
(* The source registry (src/platforms/source_policy.py) with its default   *)
(* policies, beside the rate limiter's own table of the same limits        *)
(* (src/scraping/rate_limiter.py).  Confidence is in hundredths.           *)
(***************************************************************************)
EXTENDS Integers, SequencesExt

(* RetrievalStrategy, "in preference order". *)
RetrievalStrategies ==
    <<"official_api", "api", "licensed_vendor", "alert_ingestion", "employer_ats",
      "browser_automation", "browser_allowlisted", "manual_input">>

(* _DEFAULT_POLICIES: of the eight strategies the boards allow a tail that  *)
(* ends with manual input, two of them without the employers' systems.      *)
Policy(allowed, blocked, rpm, burst, confidence) ==
    [enabled |-> TRUE, allowed |-> allowed, blocked |-> blocked, rpm |-> rpm, burst |-> burst,
     confidence |-> confidence]

Bypasses == {"stealth_scraping", "captcha_bypass"}

DefaultPolicies ==
    LET board == <<"licensed_vendor", "alert_ingestion", "employer_ats", "manual_input">> IN
    [linkedin |-> Policy(board, Bypasses \cup {"auto_apply", "auto_message"}, 5, 2, 90),
     naukri |-> Policy(board, Bypasses \cup {"auto_apply"}, 20, 5, 80),
     indeed |-> Policy(<<"api">> \o board, Bypasses \cup {"auto_apply"}, 10, 3, 75),
     iimjobs |-> Policy(<<"licensed_vendor", "alert_ingestion", "manual_input">>, Bypasses, 15, 4, 70),
     employer_ats |-> Policy(<<"employer_ats", "browser_automation">>, {"captcha_bypass"}, 15, 5, 100),
     manual_input |-> Policy(<<"manual_input">>, {}, 100, 50, 50)]

(* Faulty variant: a disabled platform is not noticed.                     *)
IsModeAllowedWhenDisabled(policy, mode) ==
    mode \notin policy.blocked /\ mode \in ToSet(policy.allowed)

(* is_mode_allowed of a known source. *)
IsModeAllowed(policy, mode) ==
    policy.enabled /\ mode \notin policy.blocked /\ mode \in ToSet(policy.allowed)

(* is_action_allowed of a known source: its switch is not read. *)
IsActionAllowed(policy, action) == action \notin policy.blocked

(* get_allowed_strategies: nor is it here. *)
GetAllowedStrategies(policy) == SelectSeq(policy.allowed, LAMBDA m : m \notin policy.blocked)

-----------------------------------------------------------------------------
(* DEFAULT_RATE_CONFIGS and the entry that acquire uses for a domain. *)
RateConfigs ==
    [serpapi |-> [rpm |-> 30, burst |-> 10], rapidapi_linkedin |-> [rpm |-> 10, burst |-> 3],
     apify |-> [rpm |-> 20, burst |-> 5], employer_ats |-> [rpm |-> 15, burst |-> 5],
     naukri |-> [rpm |-> 20, burst |-> 5], indeed |-> [rpm |-> 10, burst |-> 3],
     linkedin |-> [rpm |-> 5, burst |-> 2], iimjobs |-> [rpm |-> 15, burst |-> 4]]

ConfigOf(domain) ==
    IF domain \in DOMAIN RateConfigs THEN RateConfigs[domain] ELSE [rpm |-> 10, burst |-> 3]

(* The registry's limits are read by nobody; the limiter enforces its own.  *)
(* It never allows a source more than its policy does.                      *)
ASSUME LimiterWithinPolicy ==
    \A s \in DOMAIN DefaultPolicies :
        ConfigOf(s).rpm <= DefaultPolicies[s].rpm /\ ConfigOf(s).burst <= DefaultPolicies[s].burst

(* An enabled default source has a strategy, allows what it lists and is    *)
(* not among the bypasses: no default policy contradicts itself.            *)
ASSUME DefaultsConsistent ==
    \A s \in DOMAIN DefaultPolicies :
        LET p == DefaultPolicies[s] IN
        /\ p.allowed # <<>>
        /\ ToSet(GetAllowedStrategies(p)) = ToSet(p.allowed)
        /\ ToSet(p.allowed) \subseteq ToSet(RetrievalStrategies)
        /\ \A m \in ToSet(RetrievalStrategies) :
             IsModeAllowed(p, m) <=> m \in ToSet(GetAllowedStrategies(p))
        /\ ~IsActionAllowed(p, "captcha_bypass") \/ s = "manual_input"
=============================================================================
