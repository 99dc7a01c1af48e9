--------------------------- MODULE CampaignProofs ---------------------------
(***************************************************************************)
(* Proofs about CampaignWorkflow, for every finite task graph, every set   *)
(* of registered agents and every attempt limit; and about the planner's   *)
(* graph, for every finite set of platforms: it is a graph the workflow's  *)
(* theorems apply to, and the workflow run on it respects the pipeline.    *)
(***************************************************************************)
EXTENDS Campaign, TLAPS, FiniteSetTheorems, SequenceTheorems

(* Every non-empty set of naturals has a smallest element. *)
LEMMA SmallestOfNaturals ==
    ASSUME NEW N \in SUBSET Nat, N # {}
    PROVE  \E n \in N : \A m \in N : n <= m
<1> DEFINE R == OpToRel(<, Nat)
<1>1. IsWellFoundedOn(R, Nat)
  BY NatLessThanWellFounded
<1>2. PICK n \in N : \A m \in N : ~ (<<m, n>> \in R)
  <2> HIDE DEF R
  <2> QED BY <1>1, WFMin
<1>3. \A m \in N : ~(m < n)
  BY <1>2 DEF OpToRel
<1> QED BY <1>3

(* Every non-empty set of tasks has one that depends on no other of them:   *)
(* the one with the smallest priority number.                               *)
LEMMA FirstTask ==
    ASSUME NEW S \in SUBSET Tasks, S # {}
    PROVE  \E t \in S : DepsOf(t) \cap S = {}
<1> DEFINE N == {Priority[t] : t \in S}
<1>1. N \in SUBSET Nat /\ N # {}
  BY DagAssumption
<1>2. PICK n \in N : \A m \in N : n <= m
  <2> HIDE DEF N
  <2> QED BY <1>1, SmallestOfNaturals
<1>3. PICK t \in S : Priority[t] = n
  BY <1>2
<1>4. \A u \in S : Priority[t] <= Priority[u]
  BY <1>2, <1>3
<1>5. ASSUME NEW d \in DepsOf(t) \cap S PROVE FALSE
  <2>1. Priority[d] < Priority[t]
    BY <1>5, DagAssumption DEF DepsOf
  <2>2. Priority[t] <= Priority[d]
    BY <1>4, <1>5
  <2>3. Priority[d] \in Nat /\ Priority[t] \in Nat
    BY <1>3, <1>5, DagAssumption
  <2> QED BY <2>1, <2>2, <2>3
<1> QED BY <1>3, <1>5

(* Launching a set of tasks gives a list of handles that names each of them *)
(* once and nothing else.                                                   *)
LEMMA LaunchOrderProperties ==
    ASSUME NEW R \in SUBSET Tasks, NEW s \in LaunchOrders(R)
    PROVE  /\ s \in Seq(Tasks)
           /\ IsInjective(s)
           /\ \A t : (\E i \in DOMAIN s : s[i] = t) <=> t \in R
           /\ R # {} => s # <<>>
<1>1. Cardinality(R) \in Nat
  BY DagAssumption, FS_Subset, FS_CardinalityType
<1>2. s \in [1..Cardinality(R) -> R]
  BY DEF LaunchOrders, Bijection, Injection
<1>3. s \in Seq(Tasks) /\ DOMAIN s = 1..Cardinality(R)
  BY <1>1, <1>2
<1>4. IsInjective(s)
  BY DEF LaunchOrders, Bijection, Injection
<1>5. \A t \in R : \E i \in DOMAIN s : s[i] = t
  BY <1>2 DEF LaunchOrders, Bijection, Surjection
<1>6. \A i \in DOMAIN s : s[i] \in R
  BY <1>2
<1>7. \A t : (\E i \in DOMAIN s : s[i] = t) <=> t \in R
  BY <1>5, <1>6
<1>8. s = <<>> => DOMAIN s = {}
  OBVIOUS
<1>9. R # {} => s # <<>>
  BY <1>5, <1>8
<1> QED BY <1>3, <1>4, <1>7, <1>9

(* Dropping the first handle takes exactly its task out of the list. *)
LEMMA TailProperties ==
    ASSUME NEW h \in Seq(Tasks), h # <<>>, IsInjective(h)
    PROVE  /\ Head(h) \in Tasks
           /\ \E i \in DOMAIN h : h[i] = Head(h)
           /\ Tail(h) \in Seq(Tasks)
           /\ IsInjective(Tail(h))
           /\ \A t : (\E i \in DOMAIN Tail(h) : Tail(h)[i] = t)
                        <=> t # Head(h) /\ \E i \in DOMAIN h : h[i] = t
<1> DEFINE g == Tail(h)
<1>1. /\ Len(h) \in Nat \ {0} /\ DOMAIN h = 1..Len(h)
      /\ g \in Seq(Tasks)
      /\ Len(g) = Len(h) - 1 /\ DOMAIN g = 1..Len(g)
      /\ \A i \in 1..Len(g) : g[i] = h[i + 1]
      /\ Head(h) = h[1] /\ Head(h) \in Tasks
  BY HeadTailProperties
<1> HIDE DEF g
<1>2. IsInjective(g)
  <2>1. SUFFICES ASSUME NEW a \in DOMAIN g, NEW b \in DOMAIN g, g[a] = g[b]
                 PROVE  a = b
    BY DEF IsInjective
  <2>2. a + 1 \in DOMAIN h /\ b + 1 \in DOMAIN h /\ h[a + 1] = h[b + 1]
    BY <1>1, <2>1
  <2>3. a + 1 = b + 1
    BY <2>2 DEF IsInjective
  <2> QED BY <1>1, <2>3
<1>3. ASSUME NEW t, NEW i \in DOMAIN g, g[i] = t
      PROVE  t # Head(h) /\ \E j \in DOMAIN h : h[j] = t
  <2>1. i + 1 \in DOMAIN h /\ h[i + 1] = t /\ 1 \in DOMAIN h /\ i + 1 # 1
    BY <1>1, <1>3
  <2> QED BY <1>1, <2>1 DEF IsInjective
<1>4. ASSUME NEW t, t # Head(h), NEW j \in DOMAIN h, h[j] = t
      PROVE  \E i \in DOMAIN g : g[i] = t
  <2>1. j - 1 \in DOMAIN g /\ g[j - 1] = t
    BY <1>1, <1>4
  <2> QED BY <2>1
<1>5. 1 \in DOMAIN h /\ h[1] = Head(h)
  BY <1>1
<1> QED BY <1>1, <1>2, <1>3, <1>4, <1>5 DEF g

-----------------------------------------------------------------------------
(* What the phase says at the end, the attempts left out: a step of the     *)
(* server does not disturb it.                                              *)
VerdictOfPhase ==
    pc = "done" =>
        \/ phase = "completed" /\ \A t \in Tasks : status[t] = "completed"
        \/ phase = "failed" /\ HasFailed(status) /\ Ready(status) = {}

(* The inductive invariant.  DependencyOrder alone is not inductive: that a *)
(* running task is one of the handles (HandlesAreRunning) is needed to see  *)
(* that an await settles a running task, ServerAgrees that it settles it    *)
(* only once, and AttemptBudget that the attempts stay within their type    *)
(* and are used up when a task fails.                                       *)
IInv ==
    /\ TypeOK
    /\ DependencyOrder
    /\ HandlesAreRunning
    /\ ServerAgrees
    /\ AttemptBudget
    /\ NeverWaits
    /\ VerdictOfPhase

LEMMA InitInvariant == Init => IInv
<1> SUFFICES ASSUME Init PROVE IInv
  OBVIOUS
<1> USE DEF Init
<1>1. TypeOK
  <2>1. FailedRun \in Results
    BY DEF Results
  <2> QED BY <2>1, WorkflowAssumption DEF TypeOK, TaskStatus
<1>2. DependencyOrder
  BY DEF DependencyOrder
<1>3. HandlesAreRunning
  BY DEF HandlesAreRunning, IsInjective
<1>4. ServerAgrees /\ AttemptBudget
  BY DEF ServerAgrees, AttemptBudget, Terminal
<1>5. NeverWaits /\ VerdictOfPhase
  BY DEF NeverWaits, VerdictOfPhase
<1> QED BY <1>1, <1>2, <1>3, <1>4, <1>5 DEF IInv

(* Steps that leave the coroutine's variables alone. *)
LEMMA CoroutineUntouched ==
    ASSUME IInv, UNCHANGED coroutineVars
    PROVE  DependencyOrder' /\ HandlesAreRunning' /\ NeverWaits' /\ VerdictOfPhase'
<1>1. UNCHANGED <<pc, status, handles, phase>>
  BY DEF coroutineVars
<1>2. DependencyOrder'
  BY <1>1 DEF IInv, DependencyOrder
<1>3. HandlesAreRunning'
  BY <1>1 DEF IInv, HandlesAreRunning
<1>4. NeverWaits' /\ VerdictOfPhase'
  BY <1>1 DEF IInv, NeverWaits, VerdictOfPhase, Ready, HasFailed
<1> QED BY <1>2, <1>3, <1>4

LEMMA BeginStep == IInv /\ Begin => IInv'
<1> SUFFICES ASSUME IInv, Begin PROVE IInv'
  OBVIOUS
<1>1. /\ pc = "init" /\ pc' = "loop" /\ phase' = "executing"
      /\ UNCHANGED <<status, handles, tokens, errors, decision, registry, live, activity, attempt, result>>
  BY DEF Begin, serverVars
<1>2. TypeOK'
  BY <1>1 DEF IInv, TypeOK
<1>3. DependencyOrder'
  BY <1>1 DEF IInv, DependencyOrder
<1>4. HandlesAreRunning'
  BY <1>1 DEF IInv, HandlesAreRunning
<1>5. ServerAgrees' /\ AttemptBudget'
  BY <1>1 DEF IInv, ServerAgrees, AttemptBudget
<1>6. NeverWaits' /\ VerdictOfPhase'
  BY <1>1 DEF NeverWaits, VerdictOfPhase
<1> QED BY <1>2, <1>3, <1>4, <1>5, <1>6 DEF IInv

(* At the head of the loop nothing is running. *)
LEMMA NoneRunningAtHead ==
    ASSUME IInv, pc = "loop"
    PROVE  /\ handles = <<>>
           /\ \A t \in Tasks : status[t] \in {"pending", "completed", "failed"}
<1>1. handles = <<>>
  BY DEF IInv, HandlesAreRunning
<1>2. ASSUME NEW t \in Tasks PROVE status[t] \in {"pending", "completed", "failed"}
  <2>1. status[t] \in TaskStatus
    BY DEF IInv, TypeOK
  <2>2. status[t] # "running"
    BY <1>1 DEF IInv, HandlesAreRunning
  <2>3. status[t] # "skipped"
    BY DEF IInv, ServerAgrees, TypeOK, Terminal, Resolved
  <2> QED BY <2>1, <2>2, <2>3 DEF TaskStatus
<1> QED BY <1>1, <1>2

LEMMA LaunchStep == IInv /\ Launch => IInv'
<1> SUFFICES ASSUME IInv, Launch PROVE IInv'
  OBVIOUS
<1> DEFINE R == Ready(status)
<1>1. /\ pc = "loop" /\ pc' = "await" /\ R # {}
      /\ status' = [t \in Tasks |-> IF t \in R THEN "running" ELSE status[t]]
      /\ activity' = [t \in Tasks |-> IF t \in R THEN "queued" ELSE activity[t]]
      /\ handles' \in LaunchOrders(R)
      /\ UNCHANGED <<phase, tokens, errors, decision, registry, live, attempt, result>>
  BY DEF Launch
<1>2. /\ R \in SUBSET Tasks
      /\ \A t \in R : status[t] = "pending" /\ \A d \in DepsOf(t) : status[d] = "completed"
  BY DEF Ready
<1> HIDE DEF R
<1>3. /\ handles' \in Seq(Tasks)
      /\ IsInjective(handles')
      /\ \A t : (\E i \in DOMAIN handles' : handles'[i] = t) <=> t \in R
      /\ handles' # <<>>
  BY <1>1, <1>2, LaunchOrderProperties
<1>4. TypeOK'
  BY <1>1, <1>3 DEF IInv, TypeOK, TaskStatus
<1>5. DependencyOrder'
  <2> SUFFICES ASSUME NEW t \in Tasks, status'[t] # "pending", NEW d \in DepsOf(t)
               PROVE  status'[d] = "completed"
    BY DEF DependencyOrder
  <2>1. status[d] = "completed"
    BY <1>1, <1>2 DEF IInv, DependencyOrder
  <2> QED BY <1>1, <1>2, <2>1 DEF DepsOf
<1>6. HandlesAreRunning'
  <2>1. \A t \in Tasks : status'[t] = "running" <=> t \in R
    BY <1>1, NoneRunningAtHead
  <2> QED BY <1>1, <1>3, <2>1 DEF HandlesAreRunning
<1>7. ServerAgrees'
  BY <1>1, <1>2 DEF IInv, ServerAgrees, Terminal
<1>8. AttemptBudget'
  <2>1. \A t \in R : attempt[t] = 0
    BY <1>2 DEF IInv, ServerAgrees, AttemptBudget
  <2> QED BY <1>1, <2>1, WorkflowAssumption DEF IInv, AttemptBudget
<1>9. NeverWaits' /\ VerdictOfPhase'
  BY <1>1 DEF NeverWaits, VerdictOfPhase
<1> QED BY <1>4, <1>5, <1>6, <1>7, <1>8, <1>9 DEF IInv

(* With nothing running, nothing ready and nothing failed, everything is    *)
(* completed: otherwise the first of the pending tasks would be ready.      *)
LEMMA NothingReadyMeansOver ==
    ASSUME IInv, pc = "loop", Ready(status) = {}, ~HasFailed(status)
    PROVE  \A t \in Tasks : status[t] = "completed"
<1> DEFINE P == {t \in Tasks : status[t] = "pending"}
<1>1. SUFFICES P = {}
  BY <1>1, NoneRunningAtHead DEF HasFailed
<1>2. SUFFICES ASSUME P # {} PROVE FALSE
  OBVIOUS
<1>3. PICK t \in P : DepsOf(t) \cap P = {}
  <2> P \in SUBSET Tasks
    OBVIOUS
  <2> HIDE DEF P
  <2> QED BY <1>2, FirstTask
<1>4. \A d \in DepsOf(t) : status[d] = "completed"
  BY <1>3, NoneRunningAtHead DEF HasFailed, DepsOf
<1> QED BY <1>3, <1>4 DEF Ready

LEMMA ConcludeStep == IInv /\ Conclude => IInv'
<1> SUFFICES ASSUME IInv, Conclude PROVE IInv'
  OBVIOUS
<1>1. /\ pc = "loop"
      /\ UNCHANGED <<status, handles, tokens, errors, decision, registry, live, activity, attempt, result>>
  BY DEF Conclude, serverVars
<1>2. handles = <<>>
  BY <1>1, NoneRunningAtHead
<1>3. Ready(status) = {}
  BY DEF Conclude, AllTerminal, Ready, Terminal
<1>4. ~HasFailed(status) => \A t \in Tasks : status[t] = "completed"
  BY <1>1, <1>3, NothingReadyMeansOver
<1>5. AllTerminal(status) \/ HasFailed(status)
  BY <1>4 DEF AllTerminal, Terminal
<1>6. pc' = "done" /\ phase' = IF HasFailed(status) THEN "failed" ELSE "completed"
  BY <1>5 DEF Conclude
<1>7. TypeOK'
  BY <1>1, <1>6 DEF IInv, TypeOK
<1>8. DependencyOrder'
  BY <1>1 DEF IInv, DependencyOrder
<1>9. HandlesAreRunning'
  BY <1>1, <1>2, <1>6 DEF IInv, HandlesAreRunning
<1>10. ServerAgrees' /\ AttemptBudget'
  BY <1>1 DEF IInv, ServerAgrees, AttemptBudget
<1>11. NeverWaits'
  BY <1>6 DEF NeverWaits
<1>12. VerdictOfPhase'
  <2>1. UNCHANGED Ready(status) /\ UNCHANGED HasFailed(status)
    BY <1>1 DEF Ready, HasFailed
  <2> QED BY <1>1, <1>3, <1>4, <1>6, <2>1 DEF VerdictOfPhase
<1> QED BY <1>7, <1>8, <1>9, <1>10, <1>11, <1>12 DEF IInv

(* The await of the first handle settles a running task and no other. *)
LEMMA AwaitStep ==
    ASSUME IInv, NEW end \in Resolved,
           pc = "await",
           activity[Head(handles)] = end,
           status' = [status EXCEPT ![Head(handles)] = end],
           PopHandle,
           UNCHANGED <<phase, decision, registry, live, activity, attempt, result>>
    PROVE  /\ Head(handles) \in Tasks
           /\ status[Head(handles)] = "running"
           /\ status' \in [Tasks -> TaskStatus]
           /\ handles' \in Seq(Tasks)
           /\ pc' \in {"loop", "await"}
           /\ DependencyOrder' /\ HandlesAreRunning' /\ ServerAgrees' /\ AttemptBudget'
           /\ NeverWaits' /\ VerdictOfPhase'
<1> DEFINE h == Head(handles)
<1>1. handles \in Seq(Tasks) /\ handles # <<>> /\ IsInjective(handles)
  BY DEF IInv, TypeOK, HandlesAreRunning
<1>2. /\ h \in Tasks
      /\ \E i \in DOMAIN handles : handles[i] = h
      /\ Tail(handles) \in Seq(Tasks)
      /\ IsInjective(Tail(handles))
      /\ \A t : (\E i \in DOMAIN Tail(handles) : Tail(handles)[i] = t)
                   <=> t # h /\ \E i \in DOMAIN handles : handles[i] = t
  BY <1>1, TailProperties
<1>3. handles' = Tail(handles) /\ pc' = IF Tail(handles) = <<>> THEN "loop" ELSE "await"
  BY DEF PopHandle
<1> HIDE DEF h
<1>4. status[h] = "running"
  BY <1>2 DEF IInv, HandlesAreRunning
<1>5. status \in [Tasks -> TaskStatus] /\ status' = [status EXCEPT ![h] = end]
  BY DEF IInv, TypeOK, h
<1>6. status' \in [Tasks -> TaskStatus]
  BY <1>5 DEF TaskStatus, Resolved
<1>7. DependencyOrder'
  <2> SUFFICES ASSUME NEW t \in Tasks, status'[t] # "pending", NEW d \in DepsOf(t)
               PROVE  status'[d] = "completed"
    BY DEF DependencyOrder
  <2>1. status[t] # "pending"
    BY <1>4, <1>5
  <2>2. d \in Tasks /\ status[d] = "completed"
    BY <2>1 DEF IInv, DependencyOrder, DepsOf
  <2> QED BY <1>4, <1>5, <2>2
<1>8. HandlesAreRunning'
  <2>1. \A t \in Tasks : status'[t] = "running" <=> t # h /\ status[t] = "running"
    BY <1>5 DEF Resolved
  <2>2. \A t \in Tasks : status'[t] = "running" <=> \E i \in DOMAIN handles' : handles'[i] = t
    <3>1. \A t \in Tasks : status[t] = "running" <=> \E i \in DOMAIN handles : handles[i] = t
      BY DEF IInv, HandlesAreRunning
    <3>2. \A t : (\E i \in DOMAIN handles' : handles'[i] = t)
                   <=> t # h /\ \E i \in DOMAIN handles : handles[i] = t
      BY <1>2, <1>3
    <3> QED BY <2>1, <3>1, <3>2
  <2> QED BY <1>2, <1>3, <2>2 DEF HandlesAreRunning
<1>9. ServerAgrees'
  BY <1>4, <1>5 DEF IInv, ServerAgrees, Terminal, Resolved, h
<1>10. AttemptBudget'
  BY DEF IInv, AttemptBudget
<1>11. NeverWaits' /\ VerdictOfPhase'
  BY <1>3 DEF NeverWaits, VerdictOfPhase
<1> QED BY <1>2, <1>3, <1>4, <1>6, <1>7, <1>8, <1>9, <1>10, <1>11 DEF h

LEMMA ResultTokens ==
    ASSUME NEW r \in Results
    PROVE  r.tokens \in Nat
<1>1. CASE r = FailedRun
  BY <1>1 DEF FailedRun
<1>2. CASE r \in [success : {TRUE}, tokens : TokenUse]
  <2>1. r.tokens \in TokenUse
    BY <1>2
  <2> QED BY <2>1, WorkflowAssumption
<1> QED BY <1>1, <1>2 DEF Results

LEMMA AwaitResultStep == IInv /\ AwaitResult => IInv'
<1> SUFFICES ASSUME IInv, AwaitResult PROVE IInv'
  OBVIOUS
<1>1. /\ status[Head(handles)] = "running" /\ Head(handles) \in Tasks
      /\ status' \in [Tasks -> TaskStatus]
      /\ handles' \in Seq(Tasks)
      /\ pc' \in {"loop", "await"}
      /\ DependencyOrder' /\ HandlesAreRunning' /\ ServerAgrees' /\ AttemptBudget'
      /\ NeverWaits' /\ VerdictOfPhase'
  BY AwaitStep DEF AwaitResult, Resolved, serverVars
<1>2. tokens' \in Nat
  <2>1. result[Head(handles)] \in Results
    BY <1>1 DEF IInv, TypeOK
  <2>2. result[Head(handles)].tokens \in Nat
    BY <2>1, ResultTokens
  <2> QED BY <2>2 DEF IInv, TypeOK, AwaitResult
<1>3. TypeOK'
  BY <1>1, <1>2 DEF IInv, TypeOK, AwaitResult, serverVars
<1> QED BY <1>1, <1>3 DEF IInv

LEMMA AwaitErrorStep == IInv /\ AwaitError => IInv'
<1> SUFFICES ASSUME IInv, AwaitError PROVE IInv'
  OBVIOUS
<1>1. /\ Head(handles) \in Tasks
      /\ status' \in [Tasks -> TaskStatus]
      /\ handles' \in Seq(Tasks)
      /\ pc' \in {"loop", "await"}
      /\ DependencyOrder' /\ HandlesAreRunning' /\ ServerAgrees' /\ AttemptBudget'
      /\ NeverWaits' /\ VerdictOfPhase'
  BY AwaitStep DEF AwaitError, Resolved, serverVars
<1>2. errors' \in Seq(Tasks)
  BY <1>1 DEF IInv, TypeOK, AwaitError
<1>3. TypeOK'
  BY <1>1, <1>2 DEF IInv, TypeOK, AwaitError, serverVars
<1> QED BY <1>1, <1>3 DEF IInv

LEMMA UserApprovalStep == \A d \in Decisions : IInv /\ UserApproval(d) => IInv'
<1> SUFFICES ASSUME IInv, NEW d \in Decisions, UserApproval(d) PROVE IInv'
  OBVIOUS
<1>1. TypeOK'
  BY DEF IInv, TypeOK, UserApproval, coroutineVars, serverVars
<1>2. ServerAgrees' /\ AttemptBudget'
  BY DEF IInv, ServerAgrees, AttemptBudget, UserApproval, coroutineVars, serverVars
<1> QED BY <1>1, <1>2, CoroutineUntouched DEF IInv, UserApproval

LEMMA StartAttemptStep == \A t \in Tasks : IInv /\ StartAttempt(t) => IInv'
<1> SUFFICES ASSUME IInv, NEW t \in Tasks, StartAttempt(t) PROVE IInv'
  OBVIOUS
<1>1. attempt[t] \in 0..MaxAttempts /\ attempt[t] < MaxAttempts
  BY DEF IInv, TypeOK, AttemptBudget, StartAttempt
<1>2. attempt[t] + 1 \in 1..MaxAttempts
  BY <1>1, WorkflowAssumption
<1>3. TypeOK'
  BY <1>2 DEF IInv, TypeOK, StartAttempt, coroutineVars, Resolved
<1>4. ServerAgrees'
  BY DEF IInv, TypeOK, ServerAgrees, StartAttempt, coroutineVars, Terminal
<1>5. AttemptBudget'
  <2>1. \A u \in Tasks : attempt[u] <= attempt'[u]
    BY <1>2, WorkflowAssumption DEF IInv, TypeOK, StartAttempt
  <2>2. \A u \in Tasks : attempt[u] \in Nat /\ attempt'[u] \in Nat
    BY <1>3, WorkflowAssumption DEF IInv, TypeOK
  <2>3. ASSUME NEW e \in live' PROVE e[2] <= attempt'[e[1]]
    <3>1. CASE e \in live
      <4>1. e[1] \in Tasks /\ e[2] \in Nat /\ e[2] <= attempt[e[1]]
        BY <3>1, WorkflowAssumption DEF IInv, TypeOK, AttemptBudget
      <4> QED BY <2>1, <2>2, <4>1
    <3>2. CASE e = <<t, attempt[t] + 1>>
      <4>1. e[1] = t /\ e[2] = attempt[t] + 1
        BY <3>2
      <4>2. attempt'[t] = attempt[t] + 1
        BY DEF IInv, TypeOK, StartAttempt
      <4> QED BY <1>2, <4>1, <4>2
    <3> QED BY <3>1, <3>2 DEF StartAttempt
  <2> QED BY <2>3 DEF IInv, TypeOK, AttemptBudget, StartAttempt
<1> QED BY <1>3, <1>4, <1>5, CoroutineUntouched DEF IInv, StartAttempt

(* An attempt that ends without an answer is retried within the budget. *)
LEMMA RetryOrFailStep ==
    ASSUME IInv, NEW t \in Tasks, activity[t] = "started", RetryOrFail(t),
           live' \subseteq live, UNCHANGED <<coroutineVars, decision, registry, attempt, result>>
    PROVE  IInv'
<1>1. activity' = [activity EXCEPT ![t] = IF attempt[t] < MaxAttempts THEN "queued" ELSE "failed"]
  BY DEF RetryOrFail
<1>2. TypeOK'
  BY <1>1 DEF IInv, TypeOK, coroutineVars, Resolved
<1>3. ServerAgrees'
  BY <1>1 DEF IInv, TypeOK, ServerAgrees, coroutineVars, Terminal
<1>4. attempt[t] \in Nat /\ attempt[t] <= MaxAttempts /\ MaxAttempts \in Nat
  BY WorkflowAssumption DEF IInv, TypeOK
<1>5. AttemptBudget'
  <2>1. ASSUME NEW u \in Tasks, activity'[u] = "queued" PROVE attempt[u] < MaxAttempts
    BY <1>1, <1>4, <2>1 DEF IInv, TypeOK, AttemptBudget
  <2>2. ASSUME NEW u \in Tasks, activity'[u] = "failed" PROVE attempt[u] = MaxAttempts
    BY <1>1, <1>4, <2>2 DEF IInv, TypeOK, AttemptBudget
  <2>3. ASSUME NEW u \in Tasks, activity'[u] = "none" PROVE attempt[u] = 0
    BY <1>1, <2>3 DEF IInv, TypeOK, AttemptBudget
  <2> QED BY <2>1, <2>2, <2>3 DEF IInv, AttemptBudget
<1> QED BY <1>2, <1>3, <1>5, CoroutineUntouched DEF IInv

LEMMA TimeoutStep == \A t \in Tasks : IInv /\ StartToCloseTimeout(t) => IInv'
BY RetryOrFailStep DEF StartToCloseTimeout

(* A worker that ends an execution nobody waits for. *)
LEMMA UnnoticedEndStep ==
    ASSUME IInv, live' \subseteq live,
           UNCHANGED <<coroutineVars, decision, registry, activity, attempt, result>>
    PROVE  IInv'
<1>1. TypeOK'
  BY DEF IInv, TypeOK, coroutineVars
<1>2. ServerAgrees' /\ AttemptBudget'
  BY DEF IInv, ServerAgrees, AttemptBudget, coroutineVars
<1> QED BY <1>1, <1>2, CoroutineUntouched DEF IInv

LEMMA AgentReturnsStep ==
    \A t \in Tasks, n \in 1..MaxAttempts : IInv /\ AgentReturns(t, n) => IInv'
<1> SUFFICES ASSUME IInv, NEW t \in Tasks, NEW n \in 1..MaxAttempts, AgentReturns(t, n)
             PROVE  IInv'
  OBVIOUS
<1>1. live' \subseteq live /\ UNCHANGED <<coroutineVars, decision, registry, attempt>>
  BY DEF AgentReturns
<1>2. CASE /\ Current(t, n)
           /\ activity' = [activity EXCEPT ![t] = "completed"]
           /\ \E r \in Results : result' = [result EXCEPT ![t] = r]
  <2>1. TypeOK'
    BY <1>1, <1>2 DEF IInv, TypeOK, coroutineVars, Resolved
  <2>2. ServerAgrees'
    BY <1>1, <1>2 DEF IInv, TypeOK, ServerAgrees, Current, coroutineVars, Terminal
  <2>3. AttemptBudget'
    BY <1>1, <1>2 DEF IInv, TypeOK, AttemptBudget
  <2> QED BY <1>1, <2>1, <2>2, <2>3, CoroutineUntouched DEF IInv
<1>3. CASE UNCHANGED <<activity, result>>
  BY <1>1, <1>3, UnnoticedEndStep
<1> QED BY <1>2, <1>3 DEF AgentReturns

LEMMA UnknownAgentStep ==
    \A t \in Tasks, n \in 1..MaxAttempts : IInv /\ UnknownAgent(t, n) => IInv'
<1> SUFFICES ASSUME IInv, NEW t \in Tasks, NEW n \in 1..MaxAttempts, UnknownAgent(t, n)
             PROVE  IInv'
  OBVIOUS
<1>1. live' \subseteq live /\ UNCHANGED <<coroutineVars, decision, registry, attempt, result>>
  BY DEF UnknownAgent
<1>2. CASE Current(t, n) /\ RetryOrFail(t)
  BY <1>1, <1>2, RetryOrFailStep DEF Current
<1>3. CASE UNCHANGED activity
  BY <1>1, <1>3, UnnoticedEndStep
<1> QED BY <1>2, <1>3 DEF UnknownAgent

LEMMA WorkerCrashStep ==
    \A t \in Tasks, n \in 1..MaxAttempts : IInv /\ WorkerCrash(t, n) => IInv'
BY UnnoticedEndStep DEF WorkerCrash, serverVars

LEMMA InvariantStep == IInv /\ [Next]_vars => IInv'
<1> SUFFICES ASSUME IInv, [Next]_vars PROVE IInv'
  OBVIOUS
<1>1. CASE Coroutine
  BY <1>1, BeginStep, LaunchStep, ConcludeStep, AwaitResultStep, AwaitErrorStep DEF Coroutine
<1>2. CASE \E d \in Decisions : UserApproval(d)
  BY <1>2, UserApprovalStep
<1>3. CASE \E t \in Tasks : StartAttempt(t) \/ StartToCloseTimeout(t)
  BY <1>3, StartAttemptStep, TimeoutStep
<1>4. CASE \E t \in Tasks, n \in 1..MaxAttempts : Attempt(t, n)
  BY <1>4, AgentReturnsStep, UnknownAgentStep, WorkerCrashStep DEF Attempt
<1>5. CASE UNCHANGED vars
  BY <1>5, UnnoticedEndStep DEF vars, serverVars
<1> QED BY <1>1, <1>2, <1>3, <1>4, <1>5 DEF Next

(* Every reachable state of a campaign satisfies the inductive invariant. *)
THEOREM InvariantHolds == Spec => []IInv
BY InitInvariant, InvariantStep, PTL DEF Spec

(* The variables keep their types; in particular no activity is given more  *)
(* attempts than the retry policy allows.                                   *)
THEOREM TypesAreKept == Spec => []TypeOK
<1>1. IInv => TypeOK
  BY DEF IInv
<1> QED BY <1>1, InvariantHolds, PTL

(* Whatever the graph, no task is launched before all its dependencies are  *)
(* completed, through any sequence of crashes, timeouts and late answers.   *)
THEOREM TasksRunInDependencyOrder == Spec => []DependencyOrder
<1>1. IInv => DependencyOrder
  BY DEF IInv
<1> QED BY <1>1, InvariantHolds, PTL

(* The 30-minute wait of run is dead code for every graph whose priorities  *)
(* increase along its dependencies.                                         *)
THEOREM WaitIsUnreachable == Spec => []NeverWaits
<1>1. IInv => NeverWaits
  BY DEF IInv
<1> QED BY <1>1, InvariantHolds, PTL

(* The status a campaign returns tells the truth about its tasks. *)
THEOREM VerdictIsSound == Spec => []VerdictSound
<1>1. IInv => VerdictSound
  <2>1. ASSUME IInv, NEW t \in Tasks, status[t] = "failed"
        PROVE  attempt[t] = MaxAttempts
    BY <2>1 DEF IInv, ServerAgrees, AttemptBudget, Terminal
  <2> QED BY <2>1 DEF IInv, VerdictOfPhase, VerdictSound
<1> QED BY <1>1, InvariantHolds, PTL

(* A campaign that has returned left no activity behind on the server.      *)
THEOREM NoActivityOutlivesCampaign == Spec => []NothingLeftScheduled
<1>1. IInv => NothingLeftScheduled
  <2> SUFFICES ASSUME IInv, pc = "done", NEW t \in Tasks
               PROVE  activity[t] \in {"none"} \cup Resolved
    BY DEF NothingLeftScheduled
  <2>1. status[t] # "running"
    BY DEF IInv, HandlesAreRunning
  <2> QED BY <2>1 DEF IInv, TypeOK, TaskStatus, ServerAgrees, Terminal, Resolved
<1> QED BY <1>1, InvariantHolds, PTL

(* The ancestors of a task hold its dependencies and theirs. *)
LEMMA AncestorsClosed ==
    ASSUME NEW t \in Tasks
    PROVE  /\ Ancestors(t) \subseteq Tasks
           /\ DepsOf(t) \subseteq Ancestors(t)
           /\ \A a \in Ancestors(t) : DepsOf(a) \subseteq Ancestors(t)
<1>1. DepsOf(t) \subseteq Ancestors(t)
  BY DEF Ancestors, DepsOf
<1>2. ASSUME NEW a \in Ancestors(t), NEW d \in DepsOf(a)
      PROVE  d \in Ancestors(t)
  <2> SUFFICES ASSUME NEW S \in SUBSET Tasks,
                      DepsOf(t) \subseteq S, \A s \in S : DepsOf(s) \subseteq S
               PROVE  d \in S
    BY <1>2 DEF Ancestors, DepsOf
  <2>1. a \in S
    BY DEF Ancestors
  <2> QED BY <1>2, <2>1
<1> QED BY <1>1, <1>2 DEF Ancestors

(* Only failures strand tasks: take the first pending task among t and its  *)
(* ancestors; if no ancestor had failed it would be ready.                  *)
THEOREM OnlyFailuresStrandTasks == Spec => []StrandedByFailure
<1>1. IInv => StrandedByFailure
  <2> SUFFICES ASSUME IInv, pc = "done", NEW t \in Tasks, status[t] = "pending",
                      \A a \in Ancestors(t) : status[a] # "failed"
               PROVE  FALSE
    BY DEF StrandedByFailure
  <2> DEFINE P == {u \in {t} \cup Ancestors(t) : status[u] = "pending"}
  <2>1. PICK m \in P : DepsOf(m) \cap P = {}
    <3>1. P \in SUBSET Tasks /\ P # {}
      BY AncestorsClosed
    <3> HIDE DEF P
    <3> QED BY <3>1, FirstTask
  <2>2. ASSUME NEW d \in DepsOf(m) PROVE status[d] = "completed"
    <3>1. d \in Ancestors(t) /\ d \in Tasks
      BY <2>1, <2>2, AncestorsClosed DEF DepsOf
    <3>2. status[d] # "pending" /\ status[d] # "failed"
      BY <2>1, <2>2, <3>1
    <3>3. status[d] # "running"
      BY <3>1 DEF IInv, HandlesAreRunning
    <3>4. status[d] \in TaskStatus /\ status[d] # "skipped"
      BY <3>1 DEF IInv, TypeOK, ServerAgrees, Terminal, Resolved
    <3> QED BY <3>2, <3>3, <3>4 DEF TaskStatus
  <2>3. m \in Ready(status)
    BY <2>1, <2>2, AncestorsClosed DEF Ready
  <2>4. Ready(status) = {}
    BY DEF IInv, VerdictOfPhase, Ready
  <2> QED BY <2>3, <2>4
<1> QED BY <1>1, InvariantHolds, PTL

(* What a step keeps of a settled task. *)
Settled(t) ==
    /\ status[t] \in Terminal => status'[t] = status[t]
    /\ activity[t] \in Resolved => activity'[t] = activity[t] /\ result'[t] = result[t]

LEMMA OutcomesStep == IInv /\ Next => \A t \in Tasks : Settled(t)
<1> SUFFICES ASSUME IInv, Next, NEW t \in Tasks PROVE Settled(t)
  OBVIOUS
<1> USE DEF Settled, Terminal, Resolved
<1>1. /\ status \in [Tasks -> TaskStatus]
      /\ activity \in [Tasks -> {"none", "queued", "started"} \cup Resolved]
      /\ result \in [Tasks -> Results]
  BY DEF IInv, TypeOK
<1>2. CASE Begin \/ Conclude
  BY <1>2 DEF Begin, Conclude, serverVars
<1>3. CASE Launch
  BY <1>1, <1>3 DEF Launch, Ready, IInv, ServerAgrees
<1>4. CASE AwaitResult
  <2>1. status[Head(handles)] = "running"
    BY <1>4, AwaitStep DEF AwaitResult, serverVars
  <2> QED BY <1>1, <1>4, <2>1 DEF AwaitResult, serverVars
<1>5. CASE AwaitError
  <2>1. status[Head(handles)] = "running"
    BY <1>5, AwaitStep DEF AwaitError, serverVars
  <2> QED BY <1>1, <1>5, <2>1 DEF AwaitError, serverVars
<1>6. CASE \E d \in Decisions : UserApproval(d)
  BY <1>6 DEF UserApproval, coroutineVars, serverVars
<1>7. CASE \E u \in Tasks : StartAttempt(u) \/ StartToCloseTimeout(u)
  BY <1>1, <1>7 DEF StartAttempt, StartToCloseTimeout, RetryOrFail, coroutineVars
<1>8. CASE \E u \in Tasks, n \in 1..MaxAttempts : Attempt(u, n)
  <2> PICK u \in Tasks, n \in 1..MaxAttempts : Attempt(u, n)
    BY <1>8
  <2>1. CASE AgentReturns(u, n)
    BY <1>1, <2>1 DEF AgentReturns, Current, coroutineVars
  <2>2. CASE UnknownAgent(u, n)
    BY <1>1, <2>2 DEF UnknownAgent, Current, RetryOrFail, coroutineVars
  <2>3. CASE WorkerCrash(u, n)
    BY <2>3 DEF WorkerCrash, coroutineVars, serverVars
  <2> QED BY <2>1, <2>2, <2>3 DEF Attempt
<1> QED BY <1>2, <1>3, <1>4, <1>5, <1>6, <1>7, <1>8 DEF Next, Coroutine

(* No step takes back a settled task or replaces a recorded outcome. *)
THEOREM OutcomesStayFinal == Spec => OutcomesAreFinal
<1>1. IInv /\ [Next]_vars => [\A t \in Tasks : Settled(t)]_vars
  BY OutcomesStep
<1> QED BY <1>1, InvariantHolds, PTL DEF Spec, OutcomesAreFinal, Settled

-----------------------------------------------------------------------------
(* The token count. *)

(* The tokens of one task, and what its completion adds to those spent. *)
LEMMA TokensOfTask ==
    ASSUME NEW t, NEW n \in Nat
    PROVE  IsFiniteSet({t} \X (1..n)) /\ Cardinality({t} \X (1..n)) = n
<1>1. IsFiniteSet(1..n) /\ Cardinality(1..n) = n
  <2>1. n = 0 => 1..n = {}
    OBVIOUS
  <2>2. IsFiniteSet(1..n) /\ Cardinality(1..n) = IF 1 > n THEN 0 ELSE n - 1 + 1
    BY FS_Interval
  <2> QED BY <2>2
<1>2. IsFiniteSet({t}) /\ Cardinality({t}) = 1
  BY FS_Singleton
<1>3. /\ IsFiniteSet({t} \X (1..n))
      /\ Cardinality({t} \X (1..n)) = Cardinality({t}) * Cardinality(1..n)
  BY <1>1, <1>2, FS_Product
<1> QED BY <1>1, <1>2, <1>3

(* A set that grows by the tokens of a task it had nothing of. *)
LEMMA TokensAdded ==
    ASSUME NEW S, IsFiniteSet(S), NEW t, NEW n \in Nat, \A p \in S : p[1] # t
    PROVE  /\ IsFiniteSet(S \cup ({t} \X (1..n)))
           /\ Cardinality(S \cup ({t} \X (1..n))) = Cardinality(S) + n
<1> DEFINE N == {t} \X (1..n)
<1>1. IsFiniteSet(N) /\ Cardinality(N) = n
  BY TokensOfTask
<1>2. S \cap N = {}
  OBVIOUS
<1> HIDE DEF N
<1>3. Cardinality(S \cap N) = 0
  BY <1>2, FS_EmptySet
<1>4. /\ IsFiniteSet(S \cup N)
      /\ Cardinality(S \cup N) = Cardinality(S) + Cardinality(N) - Cardinality(S \cap N)
  BY <1>1, FS_Union
<1>5. Cardinality(S) \in Nat
  BY FS_CardinalityType
<1>6. IsFiniteSet(S \cup N) /\ Cardinality(S \cup N) = Cardinality(S) + n
  BY <1>1, <1>3, <1>4, <1>5
<1> QED BY <1>6 DEF N

(* That Spent is finite is part of the invariant: Cardinality says nothing  *)
(* of an infinite set.                                                      *)
TokenInv == IsFiniteSet(Spent) /\ TokensAccounted

LEMMA TokenInit == Init => TokenInv
<1> SUFFICES ASSUME Init PROVE TokenInv
  OBVIOUS
<1>1. Spent = {}
  BY DEF Spent, Init
<1> QED BY <1>1, FS_EmptySet DEF TokenInv, TokensAccounted, Init

(* Only AwaitResult completes a task. *)
LEMMA NothingCompleted ==
    ASSUME IInv, Next, ~AwaitResult
    PROVE  /\ tokens' = tokens
           /\ \A t \in Tasks : status'[t] = "completed" => status[t] = "completed"
<1>1. status \in [Tasks -> TaskStatus]
  BY DEF IInv, TypeOK
<1>2. CASE Begin \/ Conclude
  BY <1>2 DEF Begin, Conclude
<1>3. CASE Launch
  BY <1>1, <1>3 DEF Launch
<1>4. CASE AwaitError
  BY <1>1, <1>4 DEF AwaitError
<1>5. CASE \E d \in Decisions : UserApproval(d)
  BY <1>5 DEF UserApproval, coroutineVars
<1>6. CASE \E u \in Tasks : StartAttempt(u) \/ StartToCloseTimeout(u)
  BY <1>6 DEF StartAttempt, StartToCloseTimeout, coroutineVars
<1>7. CASE \E u \in Tasks, n \in 1..MaxAttempts : Attempt(u, n)
  BY <1>7 DEF Attempt, AgentReturns, UnknownAgent, WorkerCrash, coroutineVars
<1> QED BY <1>2, <1>3, <1>4, <1>5, <1>6, <1>7 DEF Next, Coroutine

LEMMA SpentKept ==
    ASSUME IInv, Next, ~AwaitResult
    PROVE  Spent' = Spent
<1>1. \A t \in Tasks : status'[t] = "completed" <=> status[t] = "completed"
  BY OutcomesStep, NothingCompleted DEF Settled, Terminal
<1>2. \A t \in Tasks : status[t] = "completed" => result'[t] = result[t]
  BY OutcomesStep DEF Settled, IInv, ServerAgrees, Terminal, Resolved
<1>3. {u \in Tasks : status'[u] = "completed"} = {u \in Tasks : status[u] = "completed"}
  BY <1>1
<1> QED BY <1>2, <1>3 DEF Spent

LEMMA SpentGrows ==
    ASSUME IInv, AwaitResult
    PROVE  /\ Head(handles) \in Tasks
           /\ \A p \in Spent : p[1] # Head(handles)
           /\ Spent' = Spent \cup ({Head(handles)} \X (1..result[Head(handles)].tokens))
<1> DEFINE h == Head(handles)
<1>1. status[h] = "running" /\ h \in Tasks
  BY AwaitStep DEF AwaitResult, Resolved, serverVars
<1>2. /\ status' = [status EXCEPT ![h] = "completed"]
      /\ status \in [Tasks -> TaskStatus]
      /\ result' = result
  BY DEF AwaitResult, serverVars, IInv, TypeOK
<1>3. {u \in Tasks : status'[u] = "completed"} = {u \in Tasks : status[u] = "completed"} \cup {h}
  BY <1>1, <1>2
<1>4. \A p \in Spent : p[1] # h
  BY <1>1 DEF Spent
<1>5. Spent' = UNION {{t} \X (1..result[t].tokens) :
                         t \in {u \in Tasks : status[u] = "completed"} \cup {h}}
  BY <1>2, <1>3 DEF Spent
<1>6. Spent' = Spent \cup ({h} \X (1..result[h].tokens))
  BY <1>5 DEF Spent
<1> QED BY <1>1, <1>4, <1>6

LEMMA TokenStep == IInv /\ TokenInv /\ [Next]_vars => TokenInv'
<1> SUFFICES ASSUME IInv, TokenInv, [Next]_vars PROVE TokenInv'
  OBVIOUS
<1>1. CASE UNCHANGED vars
  <2>1. UNCHANGED <<status, result, tokens>>
    BY <1>1 DEF vars, coroutineVars, serverVars
  <2>2. Spent' = Spent
    BY <2>1 DEF Spent
  <2> QED BY <2>1, <2>2 DEF TokenInv, TokensAccounted
<1>2. CASE Next /\ ~AwaitResult
  BY <1>2, SpentKept, NothingCompleted DEF TokenInv, TokensAccounted
<1>3. CASE AwaitResult
  <2> DEFINE h == Head(handles)
             n == result[h].tokens
  <2>1. h \in Tasks /\ (\A p \in Spent : p[1] # h) /\ Spent' = Spent \cup ({h} \X (1..n))
    BY <1>3, SpentGrows
  <2>2. result[h] \in Results
    BY <2>1 DEF IInv, TypeOK
  <2>3. n \in Nat
    BY <2>2, ResultTokens
  <2>4. tokens' = tokens + n
    BY <1>3 DEF AwaitResult
  <2> HIDE DEF h, n
  <2>5. IsFiniteSet(Spent') /\ Cardinality(Spent') = Cardinality(Spent) + n
    BY <2>1, <2>3, TokensAdded DEF TokenInv
  <2> QED BY <2>4, <2>5 DEF TokenInv, TokensAccounted
<1> QED BY <1>1, <1>2, <1>3

(* The campaign's token count is the sum of what its completed tasks report *)
(* through any sequence of retries, late answers and lost workers.          *)
THEOREM TokensAddUp == Spec => []TokensAccounted
<1>1. IInv /\ TokenInv /\ [Next]_vars => TokenInv'
  BY TokenStep
<1>2. TokenInv => TokensAccounted
  BY DEF TokenInv
<1> QED BY <1>1, <1>2, TokenInit, InvariantHolds, PTL DEF Spec

-----------------------------------------------------------------------------
(* Refinement. *)

LEMMA InitRefines == Init => Graph!Init
BY DEF Init, Graph!Init

(* A step of the coroutine that ends an await finishes one running task. *)
LEMMA AwaitRefines ==
    ASSUME IInv, NEW end \in Resolved, pc = "await", pc' \in {"loop", "await"},
           Head(handles) \in Tasks, status[Head(handles)] = "running",
           status' = [status EXCEPT ![Head(handles)] = end]
    PROVE  Graph!Next
<1>1. Graph!Finish(Head(handles), end)
  BY DEF Graph!Finish
<1> QED BY <1>1 DEF Graph!Next, Resolved

LEMMA StepRefines == IInv /\ [Next]_vars => [Graph!Next]_(Graph!vars)
<1> SUFFICES ASSUME IInv, [Next]_vars PROVE Graph!Next \/ UNCHANGED Graph!vars
  OBVIOUS
<1> USE DEF Graph!vars
<1>1. CASE Begin
  BY <1>1 DEF Begin
<1>2. CASE Launch
  <2>1. Graph!StartBatch(Ready(status))
    BY <1>2 DEF Launch, Graph!StartBatch, Graph!Ready, Graph!DepsOf, Ready, DepsOf
  <2>2. Ready(status) \in SUBSET Tasks
    BY DEF Ready
  <2> QED BY <2>1, <2>2 DEF Graph!Next
<1>3. CASE Conclude
  <2>1. pc = "loop" /\ UNCHANGED status
    BY <1>3 DEF Conclude
  <2>2. Ready(status) = {}
    BY <1>3 DEF Conclude, AllTerminal, Ready, Terminal
  <2>3. CASE HasFailed(status)
    <3>1. pc' = "done" /\ phase' = "failed"
      BY <1>3, <2>3 DEF Conclude
    <3>2. \A t \in Tasks : status[t] # "running"
      BY <2>1, NoneRunningAtHead
    <3>3. Graph!GiveUp
      BY <2>1, <2>2, <2>3, <3>1, <3>2
         DEF Graph!GiveUp, Graph!HasFailed, Graph!Ready, Graph!DepsOf, HasFailed, Ready, DepsOf
    <3> QED BY <3>3 DEF Graph!Next
  <2>4. CASE ~HasFailed(status)
    <3>1. \A t \in Tasks : status[t] = "completed"
      BY <2>1, <2>2, <2>4, NothingReadyMeansOver
    <3>2. pc' = "done" /\ phase' = "completed"
      BY <1>3, <2>4, <3>1 DEF Conclude, AllTerminal, Terminal
    <3>3. Graph!Succeed
      BY <2>1, <3>1, <3>2 DEF Graph!Succeed, Graph!AllCompleted
    <3> QED BY <3>3 DEF Graph!Next
  <2> QED BY <2>3, <2>4
<1>4. CASE AwaitResult
  <2>1. /\ Head(handles) \in Tasks /\ status[Head(handles)] = "running"
        /\ pc' \in {"loop", "await"}
    BY <1>4, AwaitStep DEF AwaitResult, Resolved, serverVars
  <2> QED BY <1>4, <2>1, AwaitRefines DEF AwaitResult, Resolved
<1>5. CASE AwaitError
  <2>1. /\ Head(handles) \in Tasks /\ status[Head(handles)] = "running"
        /\ pc' \in {"loop", "await"}
    BY <1>5, AwaitStep DEF AwaitError, Resolved, serverVars
  <2> QED BY <1>5, <2>1, AwaitRefines DEF AwaitError, Resolved
<1>6. CASE UNCHANGED coroutineVars
  BY <1>6 DEF coroutineVars
<1>7. Coroutine \/ UNCHANGED coroutineVars
  BY DEF Next, vars, UserApproval, StartAttempt, StartToCloseTimeout, Attempt,
         AgentReturns, UnknownAgent, WorkerCrash
<1> QED BY <1>1, <1>2, <1>3, <1>4, <1>5, <1>6, <1>7 DEF Coroutine

(* The workflow with its server, workers, retries and signals is a task     *)
(* graph run in dependency order with a truthful verdict.                   *)
THEOREM WorkflowImplementsTaskGraph == Spec => ImplementsTaskGraph
BY InitRefines, StepRefines, InvariantHolds, PTL DEF Spec, ImplementsTaskGraph, Graph!Spec
-----------------------------------------------------------------------------
(* The planner's graph. *)

(* The five kinds of task are told apart by their ids. *)
LEMMA PlanTasksDiffer ==
    /\ ParseResume # Deduplicate /\ ParseResume # ScoreMatches /\ Deduplicate # ScoreMatches
    /\ ParseResume \notin Scouts /\ Deduplicate \notin Scouts /\ ScoreMatches \notin Scouts
<1>1. ParseResume # Deduplicate /\ ParseResume # ScoreMatches /\ Deduplicate # ScoreMatches
  BY DEF ParseResume, Deduplicate, ScoreMatches
<1>2. \A p : Len(Scout(p)) = 2
  BY DEF Scout
<1>3. Len(ParseResume) = 1 /\ Len(Deduplicate) = 1 /\ Len(ScoreMatches) = 1
  BY DEF ParseResume, Deduplicate, ScoreMatches
<1> QED BY <1>1, <1>2, <1>3 DEF Scouts

(* What the planner writes into each kind of task. *)
LEMMA PlanEntries ==
    /\ PlanDeps[ParseResume] = {} /\ PlanPriority[ParseResume] = 1
    /\ \A t \in Scouts : PlanDeps[t] = {ParseResume} /\ PlanPriority[t] = 2
    /\ PlanDeps[Deduplicate] = Scouts /\ PlanPriority[Deduplicate] = 3
    /\ PlanDeps[ScoreMatches] = {Deduplicate} /\ PlanPriority[ScoreMatches] = 4
BY PlanTasksDiffer DEF PlanDeps, PlanPriority, PlanTasks

(* build_campaign_dag always builds a finite graph without cycles: what the *)
(* workflow's theorems assume of a graph (DagAssumption) is a fact about    *)
(* the planner.                                                             *)
THEOREM PlanIsAcyclic ==
    ASSUME IsFiniteSet(Platforms)
    PROVE  /\ IsFiniteSet(PlanTasks)
           /\ PlanPriority \in [PlanTasks -> Nat]
           /\ \A t \in PlanTasks : \A d \in PlanDeps[t] \cap PlanTasks :
                PlanPriority[d] < PlanPriority[t]
<1>1. IsFiniteSet(PlanTasks)
  <2>1. IsFiniteSet(EnabledPlatforms)
    BY FS_Singleton DEF EnabledPlatforms
  <2>2. IsFiniteSet(Scouts)
    <3> DEFINE f == [p \in EnabledPlatforms |-> Scout(p)]
    <3>1. f \in Surjection(EnabledPlatforms, Scouts)
      BY DEF Surjection, Scouts
    <3> QED BY <2>1, <3>1, FS_Surjection
  <2>3. IsFiniteSet({ParseResume, Deduplicate, ScoreMatches})
    <3>1. IsFiniteSet({ParseResume}) /\ IsFiniteSet({Deduplicate}) /\ IsFiniteSet({ScoreMatches})
      BY FS_Singleton
    <3>2. IsFiniteSet({ParseResume} \cup {Deduplicate})
      BY <3>1, FS_Union
    <3>3. IsFiniteSet(({ParseResume} \cup {Deduplicate}) \cup {ScoreMatches})
      BY <3>1, <3>2, FS_Union
    <3>4. ({ParseResume} \cup {Deduplicate}) \cup {ScoreMatches}
             = {ParseResume, Deduplicate, ScoreMatches}
      OBVIOUS
    <3> QED BY <3>3, <3>4
  <2> QED BY <2>2, <2>3, FS_Union DEF PlanTasks
<1>2. PlanPriority \in [PlanTasks -> Nat]
  BY DEF PlanPriority, PlanTasks
<1>3. ASSUME NEW t \in PlanTasks, NEW d \in PlanDeps[t]
      PROVE  PlanPriority[d] < PlanPriority[t]
  BY <1>3, PlanEntries DEF PlanTasks
<1> QED BY <1>1, <1>2, <1>3

(* The campaign's pipeline order, for any number of platforms: scouts after *)
(* the parse, deduplication after every scout, scoring after that.          *)
THEOREM PipelineIsOrdered ==
    ASSUME Tasks = PlanTasks, Deps = PlanDeps
    PROVE  Spec => []PipelineOrder
<1>1. DependencyOrder => PipelineOrder
  <2> SUFFICES ASSUME DependencyOrder PROVE PipelineOrder
    OBVIOUS
  <2>1. {ParseResume, Deduplicate, ScoreMatches} \subseteq Tasks /\ Scouts \subseteq Tasks
    BY DEF PlanTasks
  <2>2. \A p \in EnabledPlatforms : Scout(p) \in Scouts
    BY DEF Scouts
  <2>3. \A t \in Tasks : Launched(t) => \A d \in Deps[t] \cap Tasks : status[d] = "completed"
    BY DEF DependencyOrder, DepsOf, Launched
  <2> QED BY <2>1, <2>2, <2>3, PlanEntries DEF PipelineOrder
<1> QED BY <1>1, TasksRunInDependencyOrder, PTL

(* Only an agent that a worker can instantiate completes an activity. *)
AnswersAreOfAgents == \A t \in Tasks : activity[t] = "completed" => Agent[t] \in registry

LEMMA AnswersStep == TypeOK /\ AnswersAreOfAgents /\ [Next]_vars => AnswersAreOfAgents'
<1> SUFFICES ASSUME TypeOK, AnswersAreOfAgents, [Next]_vars PROVE AnswersAreOfAgents'
  OBVIOUS
<1> USE DEF AnswersAreOfAgents, TypeOK
<1>1. CASE Coroutine
  BY <1>1 DEF Coroutine, Begin, Launch, Conclude, AwaitResult, AwaitError, serverVars
<1>2. CASE \E d \in Decisions : UserApproval(d)
  BY <1>2 DEF UserApproval, serverVars
<1>3. CASE \E t \in Tasks : StartAttempt(t) \/ StartToCloseTimeout(t)
  BY <1>3 DEF StartAttempt, StartToCloseTimeout, RetryOrFail
<1>4. CASE \E t \in Tasks, n \in 1..MaxAttempts : Attempt(t, n)
  BY <1>4 DEF Attempt, AgentReturns, UnknownAgent, WorkerCrash, RetryOrFail, serverVars
<1>5. CASE UNCHANGED vars
  BY <1>5 DEF vars, serverVars
<1> QED BY <1>1, <1>2, <1>3, <1>4, <1>5 DEF Next

(* With the committed activities.py, whose workers know no scout, every     *)
(* campaign of any number of platforms ends failed after discovery.         *)
THEOREM CommittedCampaignsStop ==
    ASSUME Tasks = PlanTasks, Deps = PlanDeps, Agent = PlanAgent
    PROVE  Spec => []StopsAfterDiscovery
<1>1. Init => AnswersAreOfAgents
  BY DEF Init, AnswersAreOfAgents
<1>2. IInv /\ AnswersAreOfAgents /\ VerdictSound /\ PipelineOrder => StopsAfterDiscovery
  <2> SUFFICES ASSUME IInv, AnswersAreOfAgents, VerdictSound, PipelineOrder,
                      pc = "done", "job_scout" \notin registry
               PROVE  /\ phase = "failed"
                      /\ \A p \in EnabledPlatforms : status[Scout(p)] # "completed"
                      /\ ~Launched(Deduplicate) /\ ~Launched(ScoreMatches)
    BY DEF StopsAfterDiscovery
  <2>1. EnabledPlatforms # {}
    BY DEF EnabledPlatforms
  <2>2. ASSUME NEW p \in EnabledPlatforms PROVE Scout(p) \in Tasks /\ status[Scout(p)] # "completed"
    <3>1. Scout(p) \in Scouts /\ Scout(p) \in Tasks
      BY DEF Scouts, PlanTasks
    <3>2. Agent[Scout(p)] = "job_scout"
      BY <3>1, PlanTasksDiffer DEF PlanAgent, PlanTasks
    <3> QED
      BY <3>1, <3>2 DEF IInv, ServerAgrees, AnswersAreOfAgents, Terminal
  <2>3. phase = "failed"
    BY <2>1, <2>2 DEF VerdictSound
  <2>4. ~Launched(Deduplicate)
    BY <2>1, <2>2 DEF PipelineOrder
  <2>5. ~Launched(ScoreMatches)
    BY <2>4 DEF PipelineOrder, Launched
  <2> QED
    BY <2>2, <2>3, <2>4, <2>5
<1>3. Spec => []AnswersAreOfAgents
  BY <1>1, AnswersStep, TypesAreKept, PTL DEF Spec
<1>4. Spec => []PipelineOrder
  BY PipelineIsOrdered
<1> QED BY <1>2, <1>3, <1>4, InvariantHolds, VerdictIsSound, PTL
=============================================================================
