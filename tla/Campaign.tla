------------------------------ MODULE Campaign ------------------------------
(***************************************************************************)
(* A campaign: the workflow run on the graph the planner builds.  A model  *)
(* gives the workflow's constants the planner's definitions (Tasks <-      *)
(* PlanTasks and so on).  The properties here are about the pipeline the   *)
(* campaign is for, not about dependency graphs in general.                *)
(***************************************************************************)
EXTENDS CampaignWorkflow, CampaignPlan

Launched(t) == status[t] # "pending"

(* Jobs are deduplicated only when every enabled platform's scout has       *)
(* completed, scored only after that, and no scout runs before the resume   *)
(* is parsed, whichever attempts time out or crash on the way.              *)
PipelineOrder ==
    /\ \A p \in EnabledPlatforms : Launched(Scout(p)) => status[ParseResume] = "completed"
    /\ Launched(Deduplicate) => \A p \in EnabledPlatforms : status[Scout(p)] = "completed"
    /\ Launched(ScoreMatches) => status[Deduplicate] = "completed"

(* Without a registered scout, as with activities.py today (the resume      *)
(* parser alone), every campaign ends failed after discovery: no scout      *)
(* completes, and the later phases are never launched.                      *)
StopsAfterDiscovery ==
    pc = "done" /\ "job_scout" \notin registry =>
        /\ phase = "failed"
        /\ \A p \in EnabledPlatforms : status[Scout(p)] # "completed"
        /\ ~Launched(Deduplicate) /\ ~Launched(ScoreMatches)

(* What tests/integration/test_temporal_workflow.py says of a failed scout: *)
(* the phases after discovery still run on what the other scouts found.     *)
LaterPhasesSurviveScoutFailure ==
    pc = "done" /\ (\E p \in EnabledPlatforms : status[Scout(p)] = "completed") =>
        Launched(Deduplicate)

(* What the planner's docstring and the README's pipeline say: a campaign   *)
(* passes an approval gate before it completes.                             *)
CompletedOnlyWithApproval ==
    pc = "done" /\ phase = "completed" => decision # NoDecision

(* What original_plan.md says of a failed resume parse: the campaign asks   *)
(* for a manual profile, it does not go on to scout without one.            *)
ScoutsNeedParsedResume ==
    \A p \in EnabledPlatforms : Launched(Scout(p)) => result[ParseResume].success
=============================================================================
