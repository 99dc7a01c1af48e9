----------------------------- MODULE MCCampaign -----------------------------
(***************************************************************************)
(* Model-checking definitions for Campaign: the planner's graph is given   *)
(* to the workflow in the cfg files (Tasks <- PlanTasks, ...).             *)
(***************************************************************************)
EXTENDS Campaign, TLC

(* Platforms are interchangeable: the planner treats them alike, and their  *)
(* order in the list only orders the launches, which the model leaves open. *)
PlatformSymmetry == Permutations(Platforms)
=============================================================================
