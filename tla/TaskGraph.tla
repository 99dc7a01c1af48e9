----------------------------- MODULE TaskGraph -----------------------------
(***************************************************************************)
(* What a campaign promises, without Temporal, attempts, batches or an     *)
(* await order: tasks start once, in dependency order, finish once, and a  *)
(* verdict is given only when nothing is running and nothing can start.    *)
(* CampaignWorkflow implements this specification.                         *)
(***************************************************************************)
EXTENDS TaskDag

VARIABLES
    status,   \* task -> TaskStatus
    verdict   \* "open" until the campaign ends, then "completed" or "failed"

vars == <<status, verdict>>

TypeOK ==
    /\ status \in [Tasks -> TaskStatus]
    /\ verdict \in {"open", "completed", "failed"}

Init ==
    /\ status = [t \in Tasks |-> "pending"]
    /\ verdict = "open"

(* Any non-empty set of tasks whose dependencies are all completed. *)
StartBatch(S) ==
    /\ verdict = "open"
    /\ S # {}
    /\ S \subseteq Ready(status)
    /\ status' = [t \in Tasks |-> IF t \in S THEN "running" ELSE status[t]]
    /\ UNCHANGED verdict

Finish(t, end) ==
    /\ verdict = "open"
    /\ status[t] = "running"
    /\ status' = [status EXCEPT ![t] = end]
    /\ UNCHANGED verdict

AllCompleted == \A t \in Tasks : status[t] = "completed"

Succeed ==
    /\ verdict = "open"
    /\ AllCompleted
    /\ verdict' = "completed"
    /\ UNCHANGED status

GiveUp ==
    /\ verdict = "open"
    /\ HasFailed(status)
    /\ Ready(status) = {}
    /\ \A t \in Tasks : status[t] # "running"
    /\ verdict' = "failed"
    /\ UNCHANGED status

Next ==
    \/ \E S \in SUBSET Tasks : StartBatch(S)
    \/ \E t \in Tasks, end \in {"completed", "failed"} : Finish(t, end)
    \/ Succeed
    \/ GiveUp

Spec == Init /\ [][Next]_vars
=============================================================================
