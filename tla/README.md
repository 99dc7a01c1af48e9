# JobPilot: models, checks and proofs

JobPilot (`src/`) runs job-search campaigns: it parses a resume, scouts job
platforms, removes duplicate postings, scores them, has a critic look at what
was produced, and is meant to stop at approval gates before anything is sent.
This directory holds TLA+ modules of its logic, TLC configurations that check
them on small instances, and TLAPS proofs of what matters most for every size.

Paths below are relative to `src/src/` unless they begin with `src/`.

- [The system](#the-system): components, state, interaction, what is hard
- [Modules](#modules): which module models what, and how
- [Runs](#runs): what each configuration checks, bounds, fairness
- [Proofs](#proofs): theorems, inductive invariants, assumptions
- [Where code and documents disagree](#where-code-and-documents-disagree)
- [Promises the code does not keep](#promises-the-code-does-not-keep)
- [Not modelled](#not-modelled) and [what is next](#plan)

## The system

| Component | State it keeps | Operations | Talks to |
|---|---|---|---|
| Planner, DAG (`orchestration/planner.py`, `dag.py`) | tasks with status, dependencies, priority | `build_campaign_dag`, `get_ready_tasks`, `mark_*`, `all_terminal`, `has_failed` | called by the workflow |
| Workflow (`orchestration/workflows.py`) | DAG, handles, `SharedContext` (tokens, errors, phase), approval signal | `run`, signal `user_approval`, query `get_status` | Temporal server |
| Temporal server and workers (`worker.py`, `orchestration/activities.py`) | activities with their attempts; executions in the workers | schedule, retry, time out, `execute_agent_activity` | agents |
| Agent shell and agents (`agents/base.py`, `resume_parser.py`, `qa_critic.py`) | an execution's result and hooks | `execute` and `reason_and_act` | LLM gateway, PDF extractor |
| LLM gateway (`services/llm_gateway.py`) | token totals of a process | `complete`, `complete_json`, `embed` | providers |
| Embeddings, vector store (`scoring/embeddings.py`, `services/vector_store.py`) | two collections in Qdrant, points per resume and job | set up the collections, generate (one text, one job, lists of jobs in batches), upsert | gateway, Qdrant |
| Approval service (`services/approval_service.py`) and route (`api/routes/approvals.py`) | approval tasks in each API process's memory | create, decide, ask for approved items | nobody calls it yet |
| WebSocket hub (`api/websocket.py`) | the list of connections of an API process | `connect`, `disconnect`, `broadcast`, the endpoint's handler | clients |
| Rate limiter (`scraping/rate_limiter.py`) | per-minute counters in Redis, halvings per process | `acquire`, `halve_rate`, `respect_retry_after` | Redis |
| Platform adapter (`platforms/base_adapter.py`, `source_policy.py`) | strategies in order, policies and their limits | configure, `search` | limiter |
| Browser pool (`scraping/browser_pool.py`) | semaphore, browser, contexts | `start`, `stop`, `get_context`, `fetch_page` | Playwright |
| Proxy pool, sessions (`scraping/proxy_pool.py`, `session_manager.py`) | proxy health, rotation, a client per domain | `get_proxy`, `mark_failed`, `get_client`, `request`, `close_all` | HTTP |
| Deduplication (`utils/deduplication.py`, `canonicalization.py`, `hashing.py`) | the lists of its three stages | `deduplicate_jobs` | canonical forms |
| Scoring (`scoring/engine.py`, `skill_graph.py`, `normalizer.py`) | none | `compute_final_score` | skill graph |
| Risk detector, QA critic (`scoring/risk_detector.py`, `agents/qa_critic.py`) | none | `assess`; extraction, ranking, outreach checks | none |

What is hard about it:

- **Campaign.** Attempts crash, time out, are retried and answer late; the
  workflow awaits handles one after another while activities end in any order.
  It is correct when tasks run in dependency order, outcomes stay, the verdict
  says what happened, tokens are counted once, and the campaign ends.
- **Limiter, cascade.** Several coroutines of several processes count in one
  Redis key, a call may be delayed beyond the minute it began in, limits change
  between reading and use. No window may let more than its budget pass; a
  search must go through its strategies in order, each paid for and allowed.
- **Browser pool.** Every line of `fetch_page` awaits, and may raise or be
  cancelled there. Slots must come back, contexts be closed, the check for a
  browser (before an await) not launch browsers without bound.
- **Sessions.** `close_all` awaits inside a loop over a dictionary that
  requests extend. No open client may be lost.
- **Approvals, hub.** Decisions race, replicas forget. What was released stands.
  A broadcast suspends while the list it iterates over changes. No client may
  be served twice, and what is lost must be bounded.
- **Deduplication.** Indices, cached names, flags and hashes go stale as
  records merge. No posting may be lost, doubled or wrongly merged.
- **Intake.** Processes set up the same collections, runs share a gateway,
  generations of embeddings share points, fail half-way or lose an answer. Costs
  must be the run's own, set-up and finished work complete, lists whole.
- **Scoring and checks.** Thresholds, rounding, caps and alias tables interact.
  A tier must be backed, resumes must not be padded to a better score, and
  reviews must fail for what is unfit and nothing else.

`PROJECT.json` lists each hazard at its line, with the properties on it.

## Modules

Each action is a stretch of code between two awaits, or a whole function where
nothing awaits. Variables marked *history* exist for properties only.
Definitions whose comment begins with "Faulty variant" are versions of the
definition after them with a plausible bug; nothing uses them, they are there
to see that a property notices (`mutants` in `PROJECT.json`).

### Campaign

- `TaskDag`: `TaskDAG`. Ids, dependencies and priorities are constants, the
  status of tasks an argument. `Ready` is `get_ready_tasks`; `LaunchOrders` are
  the lists its sort by priority may give.
- `CampaignPlan`: the graph of `build_campaign_dag` for any set of platforms.
- `CampaignWorkflow`: `JobPilotWorkflow.run` (`Begin`, `Launch`, `AwaitResult`,
  `AwaitError`, `Conclude`), the signal (`UserApproval`), the server
  (`StartToCloseTimeout`, `RetryOrFail`) and the workers (`StartAttempt`,
  `AgentReturns`, `UnknownAgent`, `WorkerCrash`). An attempt lives on in `live`
  after the server gave it up, and its late answer is refused (`Current`).
  `pc = "waiting"` is the branch with the 30-minute `wait_condition`. A sum over
  tasks is the size of a set (`Spent`: the numbered tokens of completed tasks),
  which can be reasoned about; so are the credits of skills in `Scoring`.
- `TaskGraph`: the abstract specification: batches of ready tasks start, running
  tasks finish, and the graph succeeds or is given up. No server, attempts,
  handles or signals.
- `Campaign`: the two together, with the properties about the pipeline.

### The API

- `ApprovalGate`: `tasks[r]` is `_tasks` of replica `r`. `Create`,
  `SubmitDecision` (which refuses unknown and decided tasks), `Release` (acting
  on `get_approved_items`), `RouteDecision` (the route, which does nothing) and
  `Restart`.
- `StreamHub`: `ConnectionManager` and the handlers around it. `active` is
  `active_connections`; `cursor` is the position of the list's iterator in a
  `broadcast`, which stays while a removal moves the entries behind it up. A
  handler that ends otherwise than by `WebSocketDisconnect` leaves its entry
  (`Drop`); a send to a closed socket ends the broadcast.
- `ApiServer`: the replicas with their tasks, and the hub of one of them; a
  restart (`RestartReplica`) takes both.

### Reaching the platforms

- `RateLimiter`: `acquire` is `Acquire` (up to the `INCR`), `Incr` and `Expire`,
  with `RedisFails` at either await. `halved` is per process, `count` and
  `expiry` are Redis keys. `Tick` may come between any two awaits.
- `SourcePolicies`: the registry with its default policies, beside the
  limiter's table of the same limits. Two assumptions that TLC evaluates compare
  them: no default policy contradicts itself, and the limiter, whose table is
  the one enforced, never allows a known source more than its policy does.
- `PlatformSearch`: the strategies configured under a policy, and `search` over
  the actions of `RateLimiter` (instance `Limiter`), so that the interleavings
  of Redis calls are the limiter's own. Per strategy a search is blocked,
  refused, fails, is challenged or answers.
- `StrategyCascade`: what that promises, without limiter counters, registry or
  coroutines: each search walks down the permitted strategies one after another.
- `Positions`: a list filtered in its order, by the set of positions that stay
  (the permitted strategies, the healthy proxies).
- `BrowserPool`: one program counter per await of `fetch_page`/`get_context`,
  the semaphore as `permits` and a FIFO `queue` (asyncio's), `launched`
  browsers named after who started them, the contexts `open`. `Cancel` and the
  raising actions are possible at every await; the application is one more
  caller, of `start` and `stop`. A cancellation does not take back what the await
  had asked Playwright for (`Abandon`): `orphan` holds the start or launch that
  goes on without its fetch (`DriverOrphaned`, `BrowserOrphaned`), and a context
  may still be made or closed.
- `ProxySession`: `get_client` (through `get_proxy`, with recovery after the
  cooldown and rotation), `request`, `mark_failed` and `close_all` client by
  client. A dictionary that changed size during its iteration raises.

### Postings and resumes

- `Canonical`: canonical titles, companies, locations, URLs, and the hash as the
  tuple it is made of. Tables are cut down to one entry of each kind.
- `Deduplication`: an iteration of an inner loop per step, with the stale names
  (`norm`), flags (`merged`) and the positions used for embeddings. `Merge`
  back-fills what can be empty, the title and the company included; `remote`, a
  flag, never is, and the hash stays that of stage 1.
- `PostingClusters`: what that promises, without stages, keys, records or order:
  groups of postings become one only over a link, and each is reported once.
- `EmbeddingPipeline`: worker processes, each `ensure_collections` (`Listed`,
  `Created`) and then generations: a profile point by point (`PointEmbedded`,
  `PointWritten`), a list of jobs in batches of the provider (`BatchEmbedded`)
  and one write (`BatchWritten`). Calls raise, take effect without an answer,
  and processes crash between any two.
- `ResumeIntake`: extends it with what else runs in one of the processes
  (`Home`): `execute` of the parser up to its LLM call and after it, and the
  gateway whose totals both share and a restart clears.
- `Skills`, `Scoring`: alias tables and skill graph; eight signals, weights,
  tiers, arbitration, gaps, rounding, in fixed-point arithmetic. The two
  exponentials are tables that go on until nothing of a unit is left, then zero.
- `PostingChecks`: the detector's eight rules and the critic's modes.
- `Shortlist`: the callers: score, assess and review in any order, then a longer
  resume or an older posting and a new score. The embeddings of the skills and of
  the profile are made of the resume, so a longer one has new cosines
  (`LearnSkill`, any of `Cosines`); the title's embedding stays, as the title does.

`MC*` modules give constants values for TLC; `*Proofs` modules hold the proofs.

## Runs

| Run | Asks | States |
|---|---|---|
| `campaign` | Dependency order, no parking, sound verdict, nobody stranded without a failure, tokens counted once, outcomes final, refinement of `TaskGraph`, termination; with the committed registry the campaign stops after discovery | 137 000 |
| `campaign_scout_failure` | Do later phases survive one failed scout? (violated) | 3 400 |
| `api` | Releases stand; only approvals release; no client served twice; what a broadcast loses is bounded | 535 000 |
| `limiter_safety` | Budget of a window, and of calls begun under a halved rate | 872 000 |
| `search` | Refinement of `StrategyCascade`, every attempt paid for, searches end | 362 000 |
| `browser_safety` | Slots, launches, contexts, a stopped pool stays quiet | 3 650 000 |
| `browser_liveness` | Every waiting fetch is served and ends | 134 000 |
| `proxy_safety` | No open client lost, rotation moves on, the failover that never comes | 645 000 |
| `dedup` | Refinement of `PostingClusters`, fields from members, hashes stale only by back-filling | 688 000 |
| `dedup_embeddings` | Does the gate use original indices? (violated) | 1 800 |
| `intake` | Result contract, set-up complete, finished generations visible, job lists whole | 3 000 000 |
| `shortlist` | Strong is backed, shown score fits the tier, no false hallucination flag, salary rule complete, only the unfit fails, unrelated skills help only by embeddings | 71 000 |

States are distinct states, rounded (with symmetry where the run uses it; of a
violated run, those until the violation). A run is repeated with
`tlc -workers 2 -config <run>.cfg <module>`, the module as in `PROJECT.json`.

### Bounds, and why they are enough

Two actors of a kind are the least that can race; a third is there where two can
race in front of a waiting or a late one.

- **campaign**: two platforms (one scout fails, one does not), two attempts
  (first, retry, exhaustion, late answer of the first beside the second), the
  committed registry and a complete one. With `MaxAttempts = 3`, as in the code,
  there are more of the same retries. `TokenUse = {1}`: sums tell counts apart.
  The proofs are for any number of all of these.
- **api**: two replicas, one task (tasks do not touch each other), two items,
  all decisions. One broadcast with four clients: one behind its position, one
  at it, one ahead, and one that connects meanwhile. The proofs are for any
  number of all of these.
- **limiter_safety**: windows of 2 s for 60, keys of 3 s for 120, so that
  windows turn and keys expire within `MaxTime = 3`; `MaxDelay = 1`; `MaxRpm = 2`,
  the least with a half of its own. `MaxCount = 3` bounds the calls of a window
  to one above the limit. Two callers in two processes.
- **search**: two searches over three strategies share a budget of two, under
  linkedin's policy, one that blocks what it allows, one switched off, or none;
  `Window = 1`, `MaxDelay = 1` and `MaxTime = 1`, so that the window turns once
  under calls on their way. `MaxCount = 7` is above what six attempts need and never binds.
  One process: how processes share the counter is `limiter_safety`'s question.
- **browser_safety**: three fetches over two slots (two race for the first
  browser, the third waits). **browser_liveness**: one slot, two fetches that
  compete for it and one whose domain is refused.
- **proxy_safety**: two primary proxies with one host and port, as all of
  BrightData's have, and a secondary one; two domains, two requests,
  `Cooldown = 1` with `MaxTime = 3` (fail, recover, fail again), four clients.
- **dedup**: all lists of up to three of eighteen postings (alike and not,
  duplicate, with and without title, company, location and employer URL; remote
  where there is no location), and of four of eight of them. Three are the least with a record that is absorbed while a stage has
  still to reach it, four the least where two merged pairs meet.
  `dedup_embeddings` takes four, of which one is removed in front of the others.
- **intake**: two processes, of which one also runs the parser; a profile that
  shrinks from three points to one; a list of jobs that takes two calls of the
  provider and names a job twice, and a list of one; generations may be repeated
  at will. `MaxTokens = 3` bounds what `Home` is answered between two restarts:
  a completion and an embedding in either order, or a whole profile. The other
  process has no such bound. An empty list writes nothing and is left out.
- **shortlist**: about 540 requests over every branch of signals, rules and
  checks, three skills to learn (unrelated, an alias of what some postings ask for,
  one beside it), each with or without embeddings that agree wholly with the
  posting's, the extremes of what a cosine adds; one half-life. Scores are exact integers over
  12 000 000; sizes of sets up to 6 divide it. The proofs are for sets of any
  finite size, where divisions round down.

Symmetry is used in safety runs only, over actors the model treats alike.

### Fairness, and why the code justifies it

- `campaign`: weak fairness of the coroutine (Temporal redelivers workflow
  tasks until one is run), of `StartAttempt` (a queued activity is handed to
  some worker in the end) and of the start-to-close timer. **No** fairness of
  agents: a worker may crash or hang on every attempt.
- `browser_liveness`: weak fairness of each fetch's own steps. The calls that wait
  for a site have a timeout (`goto` 30 s, `wait_for_timeout` 2 s); the calls of
  the local browser are assumed to return or raise, also when it died.
  Cancellation, a dying browser and the application have no fairness.
- `search`: weak fairness of each search's steps: the event loop resumes it, a
  Redis call is answered or raises, and a strategy is assumed to return or raise.
  Nothing in the repository implements a strategy; one that hangs would hang
  the search, which has no timeout of its own.

`CHECK_DEADLOCK FALSE` where the system stops: a finished campaign, all fetches
over, a list deduplicated. All other runs check that something can always happen.

### Further statements

Some definitions are not in a run because other properties, or proofs, cover
what they say: `PipelineOrder`, `NothingLeftScheduled`, `HandlesAreRunning`,
`ServerAgrees`, `AttemptBudget` (campaign), `OneMemory`, `ListMatchesHandlers`
(api), `WaitersQueued` (browser), `DeadClientsExplained` (sessions),
`ResultsDistinct` and `GateExactWithoutDuplicates` (deduplication; the
second says that the embeddings gate is right as long as stage 1 removed
nothing), and the type invariants of the modules whose runs do not name one. TLC
confirms each under its run's constants; those of campaign, sessions and
deduplication are theorems or parts of an inductive invariant that is proved. `NothingSkipped`, `EndsExplained` (of
`StrategyCascade`), `GroupsPartition`, `GroupsConnected` and `EachPostingOnce`
(of `PostingClusters`) are what the abstract specifications are worth: they are
proved of them, and of the code's models, which are proved to implement them.

## Proofs

TLAPS proves, for every value of the constants the assumptions allow:

| Module | Theorems |
|---|---|
| `CampaignProofs` | `TypesAreKept`, `TasksRunInDependencyOrder`, `WaitIsUnreachable`, `VerdictIsSound`, `NoActivityOutlivesCampaign`, `OnlyFailuresStrandTasks`, `TokensAddUp`, `OutcomesStayFinal`, `WorkflowImplementsTaskGraph`, `PlanIsAcyclic`, `PipelineIsOrdered`, `CommittedCampaignsStop` |
| `ApiServerProofs` | `ReleasesStand`, `OnlyApprovalsLeave`, `TasksHaveOneMemory`, `NoClientTwice`, `LossesAreDepartures` |
| `RateLimiterProofs` | `TypesAreKept`, `WindowBudgetHolds`, `SlowBudgetHolds` |
| `PlatformSearchProofs` | of the cascade: `CascadeSkipsNothing`, `CascadeEndsExplained`; of the search: `SearchKeepsTrack`, `SearchIsACascade`, `SearchSkipsNothing`, `SearchEndsExplained`, `SearchDrivesLimiter`, `SearchesKeepBudget`, `AttemptsArePaid` |
| `BrowserPoolProofs` | `TypesAreKept`, `SlotsAreAccounted`, `LaunchesAreBounded`, `OnlyFailuresLeakContexts`, `StoppedPoolStaysQuiet` |
| `ProxySessionProofs` | `NoOpenClientIsLost`, `DeadClientsAreExplained`, `DomainsRotate`, `SharedHostBlocksFailover` |
| `DeduplicationProofs` | of the clustering: `PostingsArePartitioned`, `GroupsHangTogether`, `AnswerReportsOnce`; of the pipeline: `PipelineTypes`, `PipelineIsAClustering`, `PipelineLosesNothing`, `PipelineKeepsJobsApart`, `PipelineReportsOnce`, `MergesKeepFields`, `ResultsHaveTheirOwnKeys`, `HashesFollowNames`, `GateIsExactWithoutDuplicates` |
| `AgentProofs` | of intake: `CollectionsAreComplete`, `FinishedProfilesAreStored`, `JobListsAreWhole`, `ResultsAreTrue`, `PipelineBehaves`; of scoring and checks: `StrongMatchesAreBacked`, `ShownScoresFitTiers`, `RankingsAreNotHallucinated`, `SalariesAreJudgedWhole`, `OnlyTheUnfitFail`, `UnrelatedSkillsHelpOnlyByEmbedding` |

Every invariant and every action property of a passing run, and every
refinement, is among them.

**Campaign.** *Assumptions:* the graph is finite and every task has a larger
priority number than the tasks it depends on (`DagAssumption`); `PlanIsAcyclic`
proves that of the planner's graph for any finite set of platforms. At least one
attempt, at least one token use. *Invariant:* dependency order is not inductive
by itself. That an await settles a running task needs `HandlesAreRunning` (the
list of handles is exactly the running tasks); that it settles it once and with
the server's outcome needs `ServerAgrees`; that the number of attempts keeps its
type needs `AttemptBudget`. `NeverWaits` follows from acyclicity: among pending
tasks one of least priority number has no pending dependency (`FirstTask`), and
at the loop head nothing runs, so it is ready or one of its dependencies has
failed. The same argument over the closure of dependencies gives
`OnlyFailuresStrandTasks`. `WorkflowImplementsTaskGraph` maps `Launch` to
`StartBatch`, an await to `Finish`, `Conclude` to `Succeed` or `GiveUp`, and all
that the server and the workers do to a stutter. `CommittedCampaignsStop` adds that only an agent some worker can
instantiate ever completes an activity (`AnswersAreOfAgents`): with the committed
registry no scout completes, and `PipelineOrder` does the rest. `TokensAddUp` carries along that `Spent` is finite
(of an infinite set `Cardinality` says nothing): an await adds the numbered tokens
of one task that had none in the set, and any other step leaves completed tasks
and their results alone.

**Rate limiter.** *Assumption:* a Redis call answers within `MaxDelay` seconds
and `Window + MaxDelay <= KeyTtl`: with the code's 60 and 120, within 60
seconds. The code sets no socket timeout, so this is a condition on the
deployment: a call that is slower could start the count of a past window anew.
*Invariant:* `CallsAreTimely` (a pending call began in its window, at most
`MaxDelay` ago), `KeysOutliveCalls` (no key expires while a call may still count
in it) and `CounterAhead` (the counter is at least what it let pass plus the
callers that made the key and have yet to send `EXPIRE`). For `SlowBudgetHolds`
that is strengthened by `SlowAhead`: the slow calls that passed and those same
callers together stay within half of the budget, since a slow call passes only
at a count up to that half and the counter is ahead.

**API.** *Assumptions:* `NoTask` is no task, finitely many connections.
*Invariant, gate:* a task is in one replica's memory (`OneHolder`), and one that
was never created is in none and released nothing (`OnlyCreated`), so the task a
later question meets is the one that was released. *Invariant, hub:* a
connection never registers twice, so the list names it once; whoever a broadcast
has sent to is behind its position or has left. A removal moves at most one entry
from ahead of the position to behind it: that one is what a departure can cost,
which counts the losses.

**Browser pool.** *Assumption:* finitely many fetches, at least one slot.
*Invariant:* slots are accounted for; the fetches that launched a browser for the
pool or are inside `start` are at most `max_concurrent` (`FewLaunchers`), since a
fetch only starts one while the pool never had any, and all that do so by then
still hold their slot; a stopping application holds the browser it stops.
Fetches cancelled inside `start` are not among them: the launch goes on, sets no
`_browser`, and the next fetch starts another. `LaunchesAreBounded` leaves
these out, and `BrowsersWithinSlots`, which does not, is refuted below.

**Sessions.** *Assumption:* a proxy is listed once, in the primary or the
secondary list (`ProxyAssumption`); about clients the argument uses nothing of
it and holds whatever `get_proxy` answers. *Invariant, clients:* the clients in
the dictionary are of different domains (`RegistrySound`), every open client is
in it (`OpenRegistered`), and behind the iterator of a `close_all` under way every
client is closed (`ClosedBehind`). A dictionary that is cleared has not grown since
the iterator began, so the iterator has passed all of it. *Invariant, pool:*
proxies fail by reports only, and one that is listed behind another of the same
host and port never does (`FailuresReported`): `mark_failed` stops at the earlier
one. That gives `SharedHostBlocksFailover`: the last of such a pair stays healthy,
so the healthy primary proxies never run out. While nothing is reported the
healthy list is the whole list, and the proxy of a domain's latest client is
where the domain's index stands (`IndexAtLast`): the next one differs, since
`i + 1` modulo `n > 1` is not `i`.

**Cascade, search.** *Assumptions:* the preferred strategies are listed once each
(`SearchAssumption`); for the budget also the limiter's (`SharedLimiterAssumption`).
Of `StrategyCascade`: no permitted strategy is jumped over or repeated, and a failed
search has none left. *Invariant of the search* (`SearchInv`): what is behind a search
is the beginning of the permitted strategies, and the list it has left is the
rest of them (`Tracks`). The adapter filters its strategies when it is configured
and asks the registry once more before each; that both filters agree is what the
invariant rests on. Each step of a search is then a step of the cascade or none
(`SearchIsACascade`), and a step of the limiter or none (`SearchDrivesLimiter`), so
the limiter's budget holds among searches of any number (`SearchesKeepBudget`).
`AttemptsArePaid` compares the sizes of finite sets (`Paid`): an attempt begins in the
step in which its call passes or fails open, for a strategy not tried before
(`AttemptBegins`), and what is lost with its process stays on the side of the passes.

**Deduplication.** *Assumption:* the inputs are lists (`DeduplicationAssumption`).
Of `PostingClusters`: postings stay partitioned, a group is held together by links, an
answer reports each posting once. *Invariant of the pipeline* (`PipelineInv`): the
lists, the record in hand and the postings still unread are seen as *places* that
hold records (`Holding`). Each iteration of the three stages moves a record between
places or joins two of them, and that is all the refinement needs: the groups are the
members of the records in all places. Every record is `Sound`: a field that can be
empty is so only if it is in all of its postings (`Kept`), and its hash is that of one
of them, from which its names and place differ only by back-filling. That is also
`MergesKeepFields` and `HashesFollowNames`. `Parted` (no posting in two places), `Keyed` (no hash in two
places behind stage 1) and `FiledByPage` give the rest. What makes the stale
names of stage 2 harmless for `PipelineKeepsJobsApart` is `NamesOfMember`: they are
no longer those of the current record, but still those of one of its postings.

**Intake.** *Assumptions:* a batch holds at least one text, no list of jobs is
empty, a profile has at most two experiences (the point ids the model names).
*Invariant:* a process at its second collection found or created the first
(`SetupSound`); the points before the next one are stored while nobody else wrote
another profile (`ProfileProgress`): the step of another process either writes the
same profile or takes that certainty away (`OthersPoints`); the vectors are those
of the beginning of the list (`ListProgress`), which a batch of any size extends
(`LongerBeginning`), so at the end they pair up with the texts by position, also
where a text occurs twice. For results: only a run whose document has text awaits
the provider.

**Scoring and checks.** *Assumptions:* requests have the types of the two
schemas, a resume and a posting list finitely many skills, and `Missing` is no
number (`ShortlistAssumption`). Nothing is assumed of the alias tables and the
skill graph but that a weight is a percentage, which follows from their definitions.
*Invariant* (`ShortlistInv`): a request can be scored, and the breakdown,
assessment and verdict in hand are those of the current request. The argument about
scores: a skill that matches gives no adjacency credit, so match and credit
together are at most one unit (`MatchAndCredit`) and the skills signal at most 40 %
of it and 20 % for the cosine (`SkillsBounds`): that is `RankingsAreNotHallucinated`.
With that and every other signal full, a score without a profile similarity does
not reach the threshold of "strong", and the arbitration compares the
overlap with a half (`HalfShare`): `StrongMatchesAreBacked`. Rounding moves a score by at most
half a digit (600 parts of 12 000 000) and is monotone, so that only a score just under a
threshold can be shown on it (`ShownScoresFitTiers`). `UnrelatedSkillsHelpOnlyByEmbedding`
is monotony of each quotient (a skill that is not asked for leaves the intersection
and enlarges the union, one that is close to nothing leaves every best credit) and
linearity in the two cosines (`CosineRises`): what they rise by is a whole number of
digits in the signal and the score, which rounding keeps (`RoundingRises`).
Numbers are the model's, integers with division that rounds down; the floats of the code
are not part of the claim.

Out of the prover's reach, and left to TLC: termination and other liveness under
fairness (`CampaignEnds`, `SearchesEnd`, `FetchesEnd` and what else the fair runs
name). Statements about the tables as they are (aliases, edges, default policies,
whose assumptions TLC evaluates) are for the instances only.

## Where code and documents disagree

- `campaign_scout_failure`. `src/tests/integration/test_temporal_workflow.py:77`
  says that if one scout fails "other scouts and subsequent phases should still
  proceed". `get_ready_tasks` (`dag.py:55`) wants every dependency COMPLETED and
  deduplication depends on all scouts. The run ends failed with one scout
  completed, one failed, and deduplication never launched. The body of the same
  test asserts what the code does, so one of the two sentences is to be changed.
- `dedup_embeddings`. `deduplicate_jobs` documents its `embeddings` as keyed by
  the *original* list index; stage 2 (`deduplication.py:169`) looks them up by
  the position after stage 1 removed duplicates. With one exact duplicate in
  front, two postings are merged whose own vectors are under the threshold.

## Promises the code does not keep

These are stated in the modules, and TLC refutes each of them: replace the
INVARIANT and PROPERTY lines of the run's cfg by the name to see the behaviour.

| Statement (run) | The promise | What the code does |
|---|---|---|
| `CompletedOnlyWithApproval` (campaign) | `planner.py:20` and `workflows.py:23` speak of an approval gate | no gate is planned and `_approved` is never read |
| `ScoutsNeedParsedResume` (campaign) | `src/original_plan.md:221`: a failed parse asks for a manual profile | `AgentShell.execute` turns failures into results, `workflows.py:104` marks the task COMPLETED |
| `AcknowledgedIsRecorded` (api) | the route answers "Decision recorded. Temporal workflow signaled." | it does neither (`routes/approvals.py:17`) |
| `RejectedItemsStay` (api) | `approval_service.py:165`: "return the IDs of approved items" | with decision `approved`, all keys of the per-item decisions (l. 172) |
| `ReachesAll` (api) | `websocket.py:20`: broadcast | a client that leaves while a send awaits moves the next one behind the position (l. 21): it is passed over |
| `SlidingWindow` (limiter_safety) | `rate_limiter.py:67`: "sliding window" | fixed minutes (l. 69): two budgets around a turn |
| `RetryAfterRespected` (limiter_safety) | `rate_limiter.py:4`: "Retry-After header respect" | halves the rate (l. 91), and calls go on |
| `HalvingLasts` (limiter_safety) | `src/original_plan.md:1613`: half the rate for 10 min | a shorter Retry-After overwrites the end (l. 87) |
| `LimitEnforced` (limiter_safety with `Connected = FALSE`) | `rate_limiter.py:3`: distributed rate limiting | nobody calls `connect`; its absence counts as Redis being down and every call passes (l. 81) |
| `UnknownFallsBack` (search) | `base_adapter.py:76`: no policy, "using manual_input only" | `is_mode_allowed` then refuses it: nothing is tried |
| `ManualInputReached` (search) | `src/original_plan.md:67`: manual input after the others | it, too, needs a pass of the limiter (l. 120) |
| `ReturnedPagesAreClean` (browser_safety) | `browser_pool.py:4`: stops on challenges | tests one `content()`, returns a later one (l. 191) |
| `ErrorsCloseContext` (browser_safety) | `browser_pool.py:203`: "close on any error" | `new_page` is outside the `try` |
| `BrowsersWithinSlots` (browser_safety) | `browser_pool.py:94`: at most `max_concurrent` | a fetch cancelled while it starts the browser (l. 113) leaves one nobody owns; `_browser` stays None and the next fetch launches again |
| `HealthTracked` (proxy_safety) | `proxy_pool.py:3`: "health tracking" | `mark_failed` finds proxies by host and port, which the primary ones share (l. 111) |
| `SendsAvoidFailing` (proxy_safety) | the same | a domain's client keeps its proxy for good (`session_manager.py:30`) |
| `RotationSurvivesFailures` (proxy_safety) | `proxy_pool.py:3`: rotation | the position is taken modulo the healthy proxies (l. 101): when one recovers, a domain can get the proxy it had before |
| `RemoteSurvives` (dedup) | `deduplication.py:59`: what is empty on the primary is back-filled from the secondary | a flag is never empty (l. 69): a merged posting's `is_remote` is lost |
| `NoMatchLeft` (dedup) | `deduplication.py`: "return unique jobs" | a merge may give the current record another title, but the rest of the list is compared with the old one (l. 151); merges of stage 3 are not compared again |
| `StatesAreAmerican` (dedup) | comments of `normalize_location` | "CA" is Canada first; a state is lost in front of a country (`canonicalization.py:213`) |
| `NoStalePoints` (intake) | `embeddings.py`: "idempotent re-runs via content hashing" | points of a longer profile stay, hashes are never compared |
| `EndHookAlways` (intake) | `base.py:139`: called on success and failure | only the successful end calls `on_end` (l. 182, 233) |
| `AliasesResolve`, `OneSkillIsOne` (shortlist) | the two synonym tables agree | an alias in two rows goes to the later one ("tf"); "artificial intelligence" becomes two skills |
| `UnrelatedSkillNeverHelps` (shortlist) | a longer list of skills is no way up | it is not by matches, but the resume's embeddings change with it: 20 % of the signal and 10 % of the score are theirs (`engine.py:145`) |
| `RequiredSkillHelps` (shortlist) | what a candidate expects, with embeddings as similar as before | learning react.js beside next.js lowers a score from 0.5384 to 0.5284: the adjacency credit goes, the union grows |
| `CappedIsFlagged` (shortlist) | `src/original_plan.md:1353`: the QA agent flags the disagreement | a capped match carries no flag |

Seen on the way, without a statement of its own: the skills signal never exceeds
0.6, so that the critic's hallucination check (above 0.8) is dead for what the
engine produces; no posting is STRONG without an embedding of the profile;
salaries in any currency but USD are judged as rupees; naukri and iimjobs have
no source confidence; the phrases of the vague-description rule are shorter than
the length that triggers it; `_handle_challenge` is documented to create an
approval task and creates none; an `EXPIRE` that is lost after its `INCR` leaves
a key without expiry (harmless: keys carry their minute); a refused call counts;
masking a record's fields a second time (`encryption.py`) replaces what was
encrypted by an encrypted "***"; a failed `create_collection` keeps a worker from
starting although the other process has created what it wanted.

## Not modelled

- Inside modelled components: wording, logging, metrics, screenshots, headers,
  credentials, prompts; regular expressions (abstracted to the kinds of phrases
  they find); string similarity (an input of the model, `Alike`); float rounding
  other than the rounding of shown scores; the storage of workflow history.
  Temporal, Redis, Qdrant, Playwright and the providers are modelled from how
  the code uses them and marked external.
- PII masking: nobody calls it and it keeps no state; vector store `search`,
  `delete` and `close`: they read, or have no caller; the helpers of the Redis
  client besides `incr` and `expire`, and the agents' tool registry: no callers.
- Of the registry's limits, the entries of manual_input and of unknown sources
  differ from what the limiter enforces for such a domain; nobody reads them.
- Object storage, email sender, data retention, mock agents and adapters, API
  routes other than approvals, logging: constants, stubs or thin clients.
- Prompt guard: a scan with a table of regular expressions.
- Data model, settings, frontend, deployment files: declarations; the numbers of
  replicas (`src/k8s`) are why limiter and approvals have several processes.

Nothing in the repository calls the approval service, `broadcast` (nor does the
application include the router of the WebSocket), the browser pool, `halve_rate`,
`cache.connect`, `ensure_collections` or the critic: their models call them in
every order and number their signatures allow.

## Plan

Done: the campaign with its abstract graph; API replicas with gate and hub; limiter,
cascade, browser pool and sessions; deduplication with its abstract clustering;
intake with the set-up of collections and lists of jobs; shortlist. The safety
properties of all runs and the three refinements are proved.

1. *Proofs:* the execution of `ResumeIntake` as a refinement of what
   `CampaignWorkflow` takes an attempt for (`AgentReturns`, `WorkerCrash`).
2. *Properties:* a bound on what retries of a campaign's tasks cost, from attempts
   and totals of the gateway together.
3. *When the code grows:* the approval gate between workflow and service, and the
   hub's router, once something calls them.
