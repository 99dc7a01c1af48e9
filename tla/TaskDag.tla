------------------------------ MODULE TaskDag ------------------------------
(***************************************************************************)
(* The dependency graph of one campaign (src/orchestration/dag.py).        *)
(*                                                                         *)
(* TaskDAG keeps a dictionary of Task objects.  What a Task never changes  *)
(* (its id, dependencies and priority) is a constant here; what the engine *)
(* rewrites, Task.status, is the argument st of the operators: a function  *)
(* from task ids to states.                                                *)
(***************************************************************************)
EXTENDS Naturals, FiniteSets, Functions

CONSTANTS
    Tasks,    \* the ids in TaskDAG._tasks
    Deps,     \* Task.dependencies: may name ids that were never added
    Priority  \* Task.priority: the smaller number is launched first

(***************************************************************************)
(* What the planner guarantees of the graphs it builds: finitely many      *)
(* tasks, and a task has a larger priority number than every task it       *)
(* depends on, so the dependencies have no cycle.                          *)
(***************************************************************************)
ASSUME DagAssumption ==
    /\ IsFiniteSet(Tasks)
    /\ Priority \in [Tasks -> Nat]
    /\ \A t \in Tasks : \A d \in Deps[t] \cap Tasks : Priority[d] < Priority[t]

(* TaskStatus, the members TaskDAG reads or writes. *)
TaskStatus == {"pending", "running", "completed", "failed", "skipped"}
Terminal == {"completed", "failed", "skipped"}

(* A dependency that is not in the DAG is ignored. *)
DepsOf(t) == Deps[t] \cap Tasks

(* Faulty variant: any() in place of all() over the dependencies.          *)
ReadyAnyDependency(st) ==
    {t \in Tasks : /\ st[t] = "pending"
                   /\ DepsOf(t) = {} \/ \E d \in DepsOf(t) : st[d] = "completed"}

(* get_ready_tasks: PENDING and every known dependency COMPLETED. *)
Ready(st) ==
    {t \in Tasks : /\ st[t] = "pending"
                   /\ \A d \in DepsOf(t) : st[d] = "completed"}

(* The lists get_ready_tasks can return: its sort is by priority alone, and *)
(* the order among equals is the order in which the tasks were added.       *)
LaunchOrders(R) ==
    {s \in Bijection(1..Cardinality(R), R) :
        \A i, j \in 1..Cardinality(R) : i < j => Priority[s[i]] <= Priority[s[j]]}

(* Faulty variant: "nothing is running" in place of "everything is over".  *)
NoneRunning(st) == \A t \in Tasks : st[t] # "running"

AllTerminal(st) == \A t \in Tasks : st[t] \in Terminal

HasFailed(st) == \E t \in Tasks : st[t] = "failed"
=============================================================================
