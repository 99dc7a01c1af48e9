-------------------------- MODULE CampaignWorkflow --------------------------
(***************************************************************************)
(* JobPilotWorkflow (src/orchestration/workflows.py): one campaign's       *)
(* workflow coroutine, the Temporal server that keeps its activities, and  *)
(* the workers that run execute_agent_activity (activities.py).            *)
(*                                                                         *)
(* The coroutine runs alone between two awaits, so each stretch of it is   *)
(* one action.  Everything else interleaves: workers pick up, finish and   *)
(* lose attempts, the server times attempts out and retries them, and the  *)
(* user's signal arrives whenever it likes.                                *)
(*                                                                         *)
(* Wait_condition's branch (nothing ready, nothing failed, something not   *)
(* terminal) is the value "waiting" of pc; that it is never reached is     *)
(* the invariant NeverWaits.                                               *)
(***************************************************************************)
EXTENDS TaskDag, Sequences

CONSTANTS
    Agent,        \* task -> Task.assigned_agent
    Registries,   \* the sets of agents a build's _get_agent can instantiate
    MaxAttempts,  \* RetryPolicy.maximum_attempts
    TokenUse,     \* the total_tokens a successful agent run can report
    Decisions,    \* the arguments of the user_approval signal
    NoDecision

ASSUME WorkflowAssumption ==
    /\ MaxAttempts \in Nat \ {0}
    /\ TokenUse \subseteq Nat
    /\ TokenUse # {}
    /\ NoDecision \notin Decisions

VARIABLES
    pc,        \* where the coroutine stands
    status,    \* TaskDAG._tasks[t].status
    handles,   \* the launched tasks not yet awaited, in launch order
    decision,  \* _approval_decision; _approved is decision # NoDecision
    phase,     \* SharedContext.current_phase
    tokens,    \* SharedContext.total_tokens_used
    errors,    \* SharedContext.errors, the task of each entry
    activity,  \* server: the state of each task's activity
    attempt,   \* server: how many attempts of it were handed to a worker
    result,    \* server: the AgentResult of a completed activity
    live,      \* workers: the attempts some worker is executing
    registry   \* workers: the agents their _get_agent can instantiate

coroutineVars == <<pc, status, handles, phase, tokens, errors>>
serverVars == <<activity, attempt, result>>
vars == <<coroutineVars, serverVars, decision, live, registry>>

(* AgentShell.execute never raises: a failure is a result with success     *)
(* false and an empty token_usage.                                         *)
FailedRun == [success |-> FALSE, tokens |-> 0]
Results == {FailedRun} \cup [success : {TRUE}, tokens : TokenUse]

Resolved == {"completed", "failed"}

TypeOK ==
    /\ pc \in {"init", "loop", "await", "waiting", "done"}
    /\ status \in [Tasks -> TaskStatus]
    /\ handles \in Seq(Tasks)
    /\ decision \in Decisions \cup {NoDecision}
    /\ phase \in {"init", "executing", "completed", "failed"}
    /\ tokens \in Nat
    /\ errors \in Seq(Tasks)
    /\ activity \in [Tasks -> {"none", "queued", "started"} \cup Resolved]
    /\ attempt \in [Tasks -> 0..MaxAttempts]
    /\ result \in [Tasks -> Results]
    /\ live \subseteq Tasks \X (1..MaxAttempts)
    /\ registry \in Registries

Init ==
    /\ pc = "init"
    /\ status = [t \in Tasks |-> "pending"]
    /\ handles = <<>>
    /\ decision = NoDecision
    /\ phase = "init"
    /\ tokens = 0
    /\ errors = <<>>
    /\ activity = [t \in Tasks |-> "none"]
    /\ attempt = [t \in Tasks |-> 0]
    /\ result = [t \in Tasks |-> FailedRun]
    /\ live = {}
    /\ registry \in Registries

-----------------------------------------------------------------------------
(* The workflow coroutine. *)

(* run, up to the loop: build the DAG and enter phase "executing". *)
Begin ==
    /\ pc = "init"
    /\ pc' = "loop"
    /\ phase' = "executing"
    /\ UNCHANGED <<status, handles, tokens, errors, decision, registry, live, serverVars>>

(* One loop iteration with ready tasks: mark them running and start their   *)
(* activities in priority order, before the first await.                    *)
Launch ==
    /\ pc = "loop"
    /\ ~AllTerminal(status)
    /\ Ready(status) # {}
    /\ status' = [t \in Tasks |-> IF t \in Ready(status) THEN "running" ELSE status[t]]
    /\ activity' = [t \in Tasks |-> IF t \in Ready(status) THEN "queued" ELSE activity[t]]
    /\ handles' \in LaunchOrders(Ready(status))
    /\ pc' = "await"
    /\ UNCHANGED <<phase, tokens, errors, decision, registry, live, attempt, result>>

(* Faulty variant: any way out of the loop counts as "completed".          *)
ConcludeOptimistic ==
    /\ pc = "loop"
    /\ AllTerminal(status) \/ Ready(status) = {}
    /\ pc' = "done"
    /\ phase' = "completed"
    /\ UNCHANGED <<status, handles, tokens, errors, decision, registry, live, serverVars>>

(* Every task is terminal, or none is ready.  The loop ends if every task   *)
(* is terminal or one has failed, and falls into wait_condition otherwise.  *)
Conclude ==
    /\ pc = "loop"
    /\ AllTerminal(status) \/ Ready(status) = {}
    /\ IF AllTerminal(status) \/ HasFailed(status)
         THEN /\ pc' = "done"
              /\ phase' = IF HasFailed(status) THEN "failed" ELSE "completed"
         ELSE /\ pc' = "waiting"
              /\ UNCHANGED phase
    /\ UNCHANGED <<status, handles, tokens, errors, decision, registry, live, serverVars>>

(* Faulty variant: back to the loop after one handle, the others kept.     *)
PopHandleEarly ==
    /\ handles' = Tail(handles)
    /\ pc' = "loop"

(* The await of the first handle is over: drop it, and go back to the head  *)
(* of the loop after the last one.                                          *)
PopHandle ==
    /\ handles' = Tail(handles)
    /\ pc' = IF Tail(handles) = <<>> THEN "loop" ELSE "await"

(* Faulty variant: add_tokens assigns instead of adding.                   *)
AwaitResultOverwrites ==
    /\ pc = "await"
    /\ activity[Head(handles)] = "completed"
    /\ status' = [status EXCEPT ![Head(handles)] = "completed"]
    /\ tokens' = result[Head(handles)].tokens
    /\ PopHandle
    /\ UNCHANGED <<phase, errors, decision, registry, live, serverVars>>

(* The awaited activity returned: COMPLETED whatever result.success says.   *)
AwaitResult ==
    /\ pc = "await"
    /\ activity[Head(handles)] = "completed"
    /\ status' = [status EXCEPT ![Head(handles)] = "completed"]
    /\ tokens' = tokens + result[Head(handles)].tokens
    /\ PopHandle
    /\ UNCHANGED <<phase, errors, decision, registry, live, serverVars>>

(* The awaited activity raised ActivityError. *)
AwaitError ==
    /\ pc = "await"
    /\ activity[Head(handles)] = "failed"
    /\ status' = [status EXCEPT ![Head(handles)] = "failed"]
    /\ errors' = Append(errors, Head(handles))
    /\ PopHandle
    /\ UNCHANGED <<phase, tokens, decision, registry, live, serverVars>>

(* user_approval, handled between any two stretches of the coroutine. *)
UserApproval(d) ==
    /\ pc # "done"
    /\ decision' = d
    /\ UNCHANGED <<coroutineVars, serverVars, live, registry>>

-----------------------------------------------------------------------------
(* The Temporal server and the workers. *)

(* A worker takes the queued activity and starts its next attempt. *)
StartAttempt(t) ==
    /\ activity[t] = "queued"
    /\ activity' = [activity EXCEPT ![t] = "started"]
    /\ attempt' = [attempt EXCEPT ![t] = @ + 1]
    /\ live' = live \cup {<<t, attempt[t] + 1>>}
    /\ UNCHANGED <<coroutineVars, decision, registry, result>>

(* Faulty variant: the newest attempt may answer after it was given up.    *)
CurrentThoughGivenUp(t, n) == attempt[t] = n

(* The server still waits for attempt n of t. *)
Current(t, n) == activity[t] = "started" /\ attempt[t] = n

(* Faulty variant: one attempt more than the policy allows.                *)
RetryOnceMore(t) ==
    activity' = [activity EXCEPT ![t] = IF attempt[t] <= MaxAttempts THEN "queued" ELSE "failed"]

(* An attempt failed: retry it while the retry policy allows. *)
RetryOrFail(t) ==
    activity' = [activity EXCEPT ![t] = IF attempt[t] < MaxAttempts THEN "queued" ELSE "failed"]

(* execute_agent_activity returns.  The server records the answer of the    *)
(* current attempt and rejects any other.                                   *)
AgentReturns(t, n) ==
    /\ <<t, n>> \in live
    /\ Agent[t] \in registry
    /\ live' = live \ {<<t, n>>}
    /\ \/ /\ Current(t, n)
          /\ activity' = [activity EXCEPT ![t] = "completed"]
          /\ \E r \in Results : result' = [result EXCEPT ![t] = r]
       \/ /\ ~Current(t, n)
          /\ UNCHANGED <<activity, result>>
    /\ UNCHANGED <<coroutineVars, decision, registry, attempt>>

(* _get_agent raises ValueError: the only way the activity fails by itself. *)
UnknownAgent(t, n) ==
    /\ <<t, n>> \in live
    /\ Agent[t] \notin registry
    /\ live' = live \ {<<t, n>>}
    /\ \/ Current(t, n) /\ RetryOrFail(t)
       \/ ~Current(t, n) /\ UNCHANGED activity
    /\ UNCHANGED <<coroutineVars, decision, registry, attempt, result>>

(* Faulty variant: no timeout once the worker is gone.                     *)
TimeoutOnlyWhileLive(t) ==
    /\ activity[t] = "started"
    /\ <<t, attempt[t]>> \in live
    /\ RetryOrFail(t)
    /\ UNCHANGED <<coroutineVars, decision, registry, live, attempt, result>>

(* The start-to-close timeout (120 s) of the current attempt.  Nobody tells *)
(* the worker: its execution goes on beside the next attempt.               *)
StartToCloseTimeout(t) ==
    /\ activity[t] = "started"
    /\ RetryOrFail(t)
    /\ UNCHANGED <<coroutineVars, decision, registry, live, attempt, result>>

(* A worker process dies with the execution; the server does not notice.   *)
WorkerCrash(t, n) ==
    /\ <<t, n>> \in live
    /\ live' = live \ {<<t, n>>}
    /\ UNCHANGED <<coroutineVars, serverVars, decision, registry>>

-----------------------------------------------------------------------------
Coroutine == Begin \/ Launch \/ Conclude \/ AwaitResult \/ AwaitError

Attempt(t, n) == AgentReturns(t, n) \/ UnknownAgent(t, n) \/ WorkerCrash(t, n)

Next ==
    \/ Coroutine
    \/ \E d \in Decisions : UserApproval(d)
    \/ \E t \in Tasks : StartAttempt(t) \/ StartToCloseTimeout(t)
    \/ \E t \in Tasks, n \in 1..MaxAttempts : Attempt(t, n)

Spec == Init /\ [][Next]_vars

(* The server redelivers workflow tasks until a worker has run them, hands  *)
(* a queued activity to some worker in the end, and its timers fire.  No    *)
(* agent is assumed to return and no worker to survive.                     *)
Fairness ==
    /\ WF_vars(Coroutine)
    /\ \A t \in Tasks : WF_vars(StartAttempt(t)) /\ WF_vars(StartToCloseTimeout(t))

FairSpec == Spec /\ Fairness

-----------------------------------------------------------------------------
(* Properties. *)

(* A task is launched only when every task it depends on is completed, and  *)
(* stays so: neither a retry nor a late answer takes a dependency back.     *)
(* (get_ready_tasks, the launch loop and the awaits of run together.)       *)
DependencyOrder ==
    \A t \in Tasks : status[t] # "pending" => \A d \in DepsOf(t) : status[d] = "completed"

(* The coroutine's list of handles and the DAG agree: exactly the running   *)
(* tasks are still to be awaited, each once, and the loop head is reached   *)
(* with none of them left.                                                  *)
HandlesAreRunning ==
    /\ \A t \in Tasks : status[t] = "running" <=> \E i \in DOMAIN handles : handles[i] = t
    /\ IsInjective(handles)
    /\ pc = "await" <=> handles # <<>>

(* The DAG never runs ahead of the server: it calls a task pending exactly  *)
(* while no activity was scheduled for it, and completed or failed only     *)
(* when its activity ended that way.                                        *)
ServerAgrees ==
    \A t \in Tasks :
        /\ status[t] = "pending" <=> activity[t] = "none"
        /\ status[t] \in Terminal => activity[t] = status[t]

(* The retry policy over the whole life of an activity: one that waits for  *)
(* a worker has attempts left, one that failed has none, and no execution   *)
(* carries a number that was not handed out.                                *)
AttemptBudget ==
    /\ \A t \in Tasks : activity[t] = "queued" => attempt[t] < MaxAttempts
    /\ \A t \in Tasks : activity[t] = "failed" => attempt[t] = MaxAttempts
    /\ \A t \in Tasks : activity[t] = "none" => attempt[t] = 0
    /\ \A e \in live : e[2] <= attempt[e[1]]

(* The workflow never returns with an activity still scheduled or running   *)
(* on the server, so a finished campaign spawns no further agent runs.      *)
NothingLeftScheduled ==
    pc = "done" => \A t \in Tasks : activity[t] \in {"none"} \cup Resolved

(* The 30-minute wait_condition of run is never entered: with no task       *)
(* ready, the campaign is over or a task has failed.                        *)
NeverWaits == pc # "waiting"

(* The verdict of run: "completed" means that every task is completed,      *)
(* "failed" that one failed and nothing more could be launched.  What fails *)
(* a task is its last permitted attempt without an answer, and nothing      *)
(* else: an agent that reports success false completes its task.            *)
VerdictSound ==
    pc = "done" =>
        \/ /\ phase = "completed"
           /\ \A t \in Tasks : status[t] = "completed"
        \/ /\ phase = "failed"
           /\ HasFailed(status) /\ Ready(status) = {}
           /\ \A t \in Tasks : status[t] = "failed" => attempt[t] = MaxAttempts

(* The tasks t depends on, directly or not: the smallest set that holds its *)
(* dependencies and is closed under dependency.                             *)
Ancestors(t) ==
    {a \in Tasks :
        \A S \in SUBSET Tasks :
            /\ DepsOf(t) \subseteq S
            /\ \A s \in S : DepsOf(s) \subseteq S
            => a \in S}

(* A task that a finished campaign never launched has a failed task among   *)
(* those it depends on, directly or not: nothing is skipped for any other   *)
(* reason.                                                                  *)
StrandedByFailure ==
    pc = "done" =>
        \A t \in Tasks :
            status[t] = "pending" => \E a \in Ancestors(t) : status[a] = "failed"

(* The tokens the recorded results of the completed tasks report, each by   *)
(* its task and its number.                                                 *)
Spent == UNION {{t} \X (1..result[t].tokens) : t \in {u \in Tasks : status[u] = "completed"}}

(* SharedContext.total_tokens_used is the sum over the completed tasks of   *)
(* what their recorded results report: attempts that timed out or were      *)
(* retried count nothing, and no result counts twice.                       *)
TokensAccounted == tokens = Cardinality(Spent)

(* What is settled stays settled: a task leaves a terminal state in no      *)
(* step, and the server never replaces the outcome of a resolved activity,  *)
(* though attempts it gave up on may answer later.                          *)
OutcomesAreFinal ==
    [][\A t \in Tasks :
        /\ status[t] \in Terminal => status'[t] = status[t]
        /\ activity[t] \in Resolved => activity'[t] = activity[t] /\ result'[t] = result[t]]_vars

(* Under the fairness above every campaign ends, even when no agent ever    *)
(* returns: timeouts use up the attempts of everything launched.            *)
CampaignEnds == <>(pc = "done")

(* The workflow implements the abstract task graph: its verdict is the      *)
(* final phase.                                                             *)
Graph == INSTANCE TaskGraph WITH verdict <- IF pc = "done" THEN phase ELSE "open"

ImplementsTaskGraph == Graph!Spec
=============================================================================
