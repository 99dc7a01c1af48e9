---------------------------- MODULE ApprovalGate ----------------------------
(***************************************************************************)
(* The approval gates: ApprovalService (src/services/approval_service.py)  *)
(* in the memory of each API replica, and the route that takes the user's  *)
(* decision (src/api/routes/approvals.py).  No method of the service       *)
(* awaits anything, so each is one action.  The service has no caller in   *)
(* the repository: the model calls it in every order its signatures allow. *)
(*                                                                         *)
(* A task's type, payload, notes and dates do not matter to what follows   *)
(* and are left out; the six create_..._gate methods differ in them only.  *)
(***************************************************************************)
EXTENDS FiniteSets, Functions

CONSTANTS
    Replicas,  \* the API processes
    Ids,       \* the ids uuid4 can give, each to one task
    Items,     \* the ids of the items under review
    NoTask,
    NoDecision

VARIABLES
    tasks,        \* replica -> id -> the task in its _tasks
    created,      \* history: the ids given
    released,     \* history: id -> what get_approved_items last gave for it
    acknowledged  \* history: the ids of which the route called a decision recorded

vars == <<tasks, created, released, acknowledged>>

Decisions == {"approved", "rejected", "partially_approved"}
PerItem == UNION {[S -> {"approved", "rejected"}] : S \in SUBSET Items}
NoItems == [i \in {} |-> "approved"]
Pending == [status |-> "pending", decision |-> NoDecision, items |-> NoItems]
Task == {Pending} \cup [status : {"decided"}, decision : Decisions, items : PerItem]

ASSUME GateAssumption == "all" \notin Items /\ NoTask \notin Task /\ NoDecision \notin Decisions

TypeOK ==
    /\ tasks \in [Replicas -> [Ids -> Task \cup {NoTask}]]
    /\ created \subseteq Ids
    /\ released \in [Ids -> SUBSET (Items \cup {"all"})]
    /\ acknowledged \subseteq Ids

Init ==
    /\ tasks = [r \in Replicas |-> [i \in Ids |-> NoTask]]
    /\ created = {}
    /\ released = [i \in Ids |-> {}]
    /\ acknowledged = {}

-----------------------------------------------------------------------------
(* create_approval_task, by itself or for one of the gates. *)
Create(r, i) ==
    /\ i \notin created
    /\ created' = created \cup {i}
    /\ tasks' = [tasks EXCEPT ![r][i] = Pending]
    /\ UNCHANGED <<released, acknowledged>>

(* Faulty variant: a decided task takes another decision.                  *)
OpenAgain(r, i) == tasks[r][i] # NoTask

(* submit_decision raises ValueError for an unknown id and for a task that  *)
(* is not pending.                                                          *)
Open(r, i) == tasks[r][i] # NoTask /\ tasks[r][i].status = "pending"

SubmitDecision(r, i, decision, items) ==
    /\ Open(r, i)
    /\ tasks' = [tasks EXCEPT ![r][i] = [status |-> "decided", decision |-> decision, items |-> items]]
    /\ UNCHANGED <<created, released, acknowledged>>

Approved(task) == {x \in DOMAIN task.items : task.items[x] = "approved"}

(* Faulty variant: only an approval of everything is told apart.           *)
ApprovedItemsUnlessEmpty(task) ==
    IF task = NoTask \/ task.status = "pending" THEN {}
    ELSE IF task.decision = "approved" /\ DOMAIN task.items = {} THEN {"all"}
    ELSE Approved(task)

(* get_approved_items: "all" stands for an approval that names no item.    *)
ApprovedItems(task) ==
    IF task = NoTask THEN {}
    ELSE CASE task.decision = "approved"           -> IF task.items = NoItems THEN {"all"} ELSE DOMAIN task.items
           [] task.decision = "partially_approved" -> Approved(task)
           [] OTHER                                -> {}

(* Someone acts on what get_approved_items gives. *)
Release(r, i) ==
    /\ ApprovedItems(tasks[r][i]) # {}
    /\ released' = [released EXCEPT ![i] = ApprovedItems(tasks[r][i])]
    /\ UNCHANGED <<tasks, created, acknowledged>>

(* The route answers "Decision recorded. Temporal workflow signaled." and   *)
(* does nothing else, whatever the id and the decision.                     *)
RouteDecision(i) ==
    /\ acknowledged' = acknowledged \cup {i}
    /\ UNCHANGED <<tasks, created, released>>

(* A replica restarts with an empty memory. *)
Restart(r) ==
    /\ tasks' = [tasks EXCEPT ![r] = [i \in Ids |-> NoTask]]
    /\ UNCHANGED <<created, released, acknowledged>>

Step ==
    \E i \in Ids :
        \/ \E r \in Replicas :
             \/ Create(r, i)
             \/ \E d \in Decisions, items \in PerItem : SubmitDecision(r, i, d, items)
             \/ Release(r, i)
        \/ RouteDecision(i)

Next == Step \/ \E r \in Replicas : Restart(r)

Spec == Init /\ [][Next]_vars

-----------------------------------------------------------------------------
(* Properties. *)

(* A release is never taken back: as long as the task is remembered, it     *)
(* gives what was acted upon, however many decisions are sent to whichever  *)
(* replica.                                                                 *)
ReleaseStands ==
    \A i \in Ids, r \in Replicas :
        released[i] # {} /\ tasks[r][i] # NoTask => ApprovedItems(tasks[r][i]) = released[i]

(* Nothing leaves a gate that was rejected as a whole, and a partial        *)
(* approval lets exactly the approved items out.                            *)
OnlyApprovalsRelease ==
    \A i \in Ids, r \in Replicas :
        released[i] # {} /\ tasks[r][i] # NoTask =>
            \/ tasks[r][i].decision = "approved"
            \/ /\ tasks[r][i].decision = "partially_approved"
               /\ released[i] = Approved(tasks[r][i])

(* One task, one memory: no two replicas ever hold a task of the same id,   *)
(* so a gate cannot be decided differently in two places.                   *)
OneMemory ==
    \A i \in Ids : Cardinality({r \in Replicas : tasks[r][i] # NoTask}) <= 1

(* get_approved_items' docstring: "return the IDs of approved items".  No   *)
(* item that its reviewer rejected is released.                             *)
RejectedItemsStay ==
    \A i \in Ids, r \in Replicas :
        tasks[r][i] # NoTask =>
            \A x \in released[i] \cap DOMAIN tasks[r][i].items : tasks[r][i].items[x] = "approved"

(* The route's answer: "Decision recorded."  A task in memory is decided    *)
(* when the route acknowledges a decision on it.                            *)
AcknowledgedIsRecorded ==
    [][\A i \in acknowledged' \ acknowledged, r \in Replicas :
        tasks[r][i] # NoTask => tasks'[r][i].status = "decided"]_vars
=============================================================================
