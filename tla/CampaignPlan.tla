---------------------------- MODULE CampaignPlan ----------------------------
(***************************************************************************)
(* The graph build_campaign_dag hands to the workflow                      *)
(* (src/orchestration/planner.py): parse the resume, one scout per enabled *)
(* platform, deduplicate, score.                                           *)
(***************************************************************************)
EXTENDS Naturals

CONSTANT Platforms  \* the platforms of campaign_config, perhaps none

(* enabled_platforms or ["manual_input"]. *)
EnabledPlatforms == IF Platforms = {} THEN {"manual_input"} ELSE Platforms

ParseResume == <<"parse_resume">>
Scout(p) == <<"scout", p>>
Deduplicate == <<"deduplicate">>
ScoreMatches == <<"score_matches">>

Scouts == {Scout(p) : p \in EnabledPlatforms}

PlanTasks == {ParseResume, Deduplicate, ScoreMatches} \cup Scouts

(* Faulty variant: deduplication does not wait for the scouts. *)
PlanDepsWithoutScouts ==
    [t \in PlanTasks |->
        CASE t = ParseResume  -> {}
          [] t \in Scouts     -> {ParseResume}
          [] t = Deduplicate  -> {ParseResume}
          [] t = ScoreMatches -> {Deduplicate}]

PlanDeps ==
    [t \in PlanTasks |->
        CASE t = ParseResume  -> {}
          [] t \in Scouts     -> {ParseResume}
          [] t = Deduplicate  -> Scouts
          [] t = ScoreMatches -> {Deduplicate}]

PlanPriority ==
    [t \in PlanTasks |->
        CASE t = ParseResume  -> 1
          [] t \in Scouts     -> 2
          [] t = Deduplicate  -> 3
          [] t = ScoreMatches -> 4]

(* Task.assigned_agent *)
PlanAgent ==
    [t \in PlanTasks |->
        CASE t = ParseResume  -> "resume_parser"
          [] t \in Scouts     -> "job_scout"
          [] t = Deduplicate  -> "manager"
          [] t = ScoreMatches -> "preference_analyst"]
=============================================================================
