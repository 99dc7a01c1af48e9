-------------------------- MODULE EmbeddingPipeline --------------------------
(***************************************************************************)
(* The embeddings of one resume and of the jobs of one campaign            *)
(* (src/scoring/embeddings.py), in the two collections of the vector store *)
(* (src/services/vector_store.py), by worker processes that each set up    *)
(* the collections and then generate one thing after another.  Nothing in  *)
(* the repository calls ensure_collections yet; the model calls it first.  *)
(*                                                                         *)
(* Every call of the provider or the store may fail, or take effect        *)
(* without its answer arriving; a process may crash at any await.          *)
(***************************************************************************)
EXTENDS Integers, Sequences, FiniteSets, SequencesExt, Functions

CONSTANTS
    Processes,
    Profiles,   \* the versions of the candidate's profile; bound: two experiences
    Texts,      \* the texts of jobs, each with a content hash of its own
    JobLists,   \* the arguments of batch_generate_job_embeddings
    BatchSize,  \* texts in one call of the provider
    None

ASSUME PipelineAssumption ==
    /\ BatchSize \in Nat \ {0}
    /\ Profiles \subseteq [skills : BOOLEAN, experiences : 0..2]
    /\ JobLists \subseteq Seq(Texts) \ {<<>>}
    /\ None \notin Profiles /\ None \notin Texts

VARIABLES
    exists,   \* the collections the store has
    at,       \* process -> what it awaits, or "down", "ready", "done"
    setup,    \* process -> position in Collections its ensure_collections is at
    task,     \* process -> what it generates, or last generated
    next,     \* process -> the next point of the profile, or text of the list
    vectors,  \* process -> all_embeddings of its embed, each by its text
    alone,    \* history: processes since whose start no other wrote a profile's point
    started,  \* history: the tasks that were started
    store,    \* candidate_profiles: point id -> the profile whose text it embeds
    jobs      \* job_descriptions: text, for its hash -> the text its vector embeds

pipelineVars == <<exists, at, setup, task, next, vectors, alone, started, store, jobs>>

Collections == <<"candidate_profiles", "job_descriptions">>

ProfileTasks == [profile : Profiles]
JobTasks == [list : JobLists]
IsProfile(t) == DOMAIN t = {"profile"}

(* The point ids generate_candidate_embeddings writes for a profile, in     *)
(* their order: the skills only if there are any, one per experience.       *)
Points(p) ==
    <<"full_profile">> \o (IF p.skills THEN <<"skills">> ELSE <<>>)
        \o SubSeq(<<"exp_0", "exp_1">>, 1, p.experiences)

PointIds == {"full_profile", "skills", "exp_0", "exp_1"}

Nothing == [list |-> <<>>]

PipelineInit ==
    /\ exists = {}
    /\ at = [p \in Processes |-> "down"]
    /\ setup = [p \in Processes |-> 1]
    /\ task = [p \in Processes |-> Nothing]
    /\ next = [p \in Processes |-> 1]
    /\ vectors = [p \in Processes |-> <<>>]
    /\ alone = {}
    /\ started = {}
    /\ store = [i \in PointIds |-> None]
    /\ jobs = [t \in Texts |-> None]

-----------------------------------------------------------------------------
(* ensure_collections. *)

Ensure(p) ==
    /\ at[p] = "down"
    /\ at' = [at EXCEPT ![p] = "list"]
    /\ setup' = [setup EXCEPT ![p] = 1]
    /\ UNCHANGED <<exists, task, next, vectors, alone, started, store, jobs>>

(* Faulty variant: a collection that is there ends the loop.               *)
NextCollectionUnlessThere(p) ==
    IF setup[p] < Len(Collections) /\ at[p] = "create"
      THEN setup' = [setup EXCEPT ![p] = @ + 1] /\ at' = [at EXCEPT ![p] = "list"]
      ELSE setup' = setup /\ at' = [at EXCEPT ![p] = "ready"]

(* The loop's next turn, or its end. *)
NextCollection(p) ==
    IF setup[p] < Len(Collections)
      THEN setup' = [setup EXCEPT ![p] = @ + 1] /\ at' = [at EXCEPT ![p] = "list"]
      ELSE setup' = setup /\ at' = [at EXCEPT ![p] = "ready"]

(* get_collections answers. *)
Listed(p) ==
    /\ at[p] = "list"
    /\ IF Collections[setup[p]] \in exists
         THEN NextCollection(p)
         ELSE at' = [at EXCEPT ![p] = "create"] /\ setup' = setup
    /\ UNCHANGED <<exists, task, next, vectors, alone, started, store, jobs>>

(* create_collection raises if the collection is there by now. *)
Created(p) ==
    /\ at[p] = "create"
    /\ IF Collections[setup[p]] \in exists
         THEN at' = [at EXCEPT ![p] = "down"] /\ UNCHANGED setup
         ELSE NextCollection(p)
    /\ exists' = exists \cup {Collections[setup[p]]}
    /\ UNCHANGED <<task, next, vectors, alone, started, store, jobs>>

-----------------------------------------------------------------------------
(* Generations. *)

(* The locals of a generation that ends. *)
Forget(p) ==
    /\ next' = [next EXCEPT ![p] = 1]
    /\ vectors' = [vectors EXCEPT ![p] = <<>>]

(* It raises: the process is ready for another one. *)
Fail(p) ==
    /\ at' = [at EXCEPT ![p] = "ready"]
    /\ task' = [task EXCEPT ![p] = Nothing]
    /\ Forget(p)

Serving(p) == at[p] \in {"embed", "upsert"}

(* generate_candidate_embeddings, generate_job_embedding (a list of one) or *)
(* batch_generate_job_embeddings is called; for an empty list, which is     *)
(* left out, it awaits and writes nothing.                                  *)
Generate(p, t) ==
    /\ at[p] \in {"ready", "done"}
    /\ at' = [at EXCEPT ![p] = "embed"]
    /\ task' = [task EXCEPT ![p] = t]
    /\ next' = [next EXCEPT ![p] = 1]
    /\ vectors' = [vectors EXCEPT ![p] = <<>>]
    /\ started' = started \cup {t}
    /\ alone' = IF \E q \in Processes \ {p} : Serving(q) /\ IsProfile(task[q])
                  THEN alone \ {p} ELSE alone \cup {p}
    /\ UNCHANGED <<exists, setup, store, jobs>>

(* embed returns the vector of one of the profile's texts. *)
PointEmbedded(p) ==
    /\ at[p] = "embed" /\ IsProfile(task[p])
    /\ at' = [at EXCEPT ![p] = "upsert"]
    /\ UNCHANGED <<exists, setup, task, next, vectors, alone, started, store, jobs>>

(* Faulty variant: the batches overlap.                                    *)
StrideOverlapping == IF BatchSize > 1 THEN BatchSize - 1 ELSE 1

(* The step of embed's range. *)
Stride == BatchSize

(* The provider answers one batch of the texts of a list. *)
BatchEmbedded(p) ==
    LET list == task[p].list IN
    /\ at[p] = "embed" /\ ~IsProfile(task[p])
    /\ vectors' = [vectors EXCEPT ![p] =
         @ \o SubSeq(list, next[p], Min({next[p] + BatchSize - 1, Len(list)}))]
    /\ next' = [next EXCEPT ![p] = @ + Stride]
    /\ at' = [at EXCEPT ![p] = IF next[p] + Stride > Len(list) THEN "upsert" ELSE "embed"]
    /\ UNCHANGED <<exists, setup, task, alone, started, store, jobs>>

(* Faulty variant: the next point is taken before this one is written.     *)
WriteAhead(p) ==
    LET ids == Points(task[p].profile) IN
    store' = IF next[p] < Len(ids) THEN [store EXCEPT ![ids[next[p] + 1]] = task[p].profile] ELSE store

(* upsert of one point. *)
Write(p) == store' = [store EXCEPT ![Points(task[p].profile)[next[p]]] = task[p].profile]

(* upsert takes effect, and the generation goes on to its next point; or    *)
(* the answer is lost, and it raises.                                       *)
PointWritten(p) ==
    /\ at[p] = "upsert" /\ IsProfile(task[p])
    /\ Write(p)
    /\ alone' = alone \cap {p}
    /\ \/ /\ next[p] < Len(Points(task[p].profile))
          /\ at' = [at EXCEPT ![p] = "embed"]
          /\ next' = [next EXCEPT ![p] = @ + 1]
          /\ UNCHANGED <<task, vectors>>
       \/ /\ next[p] = Len(Points(task[p].profile))
          /\ at' = [at EXCEPT ![p] = "done"]
          /\ task' = task /\ Forget(p)
       \/ Fail(p)
    /\ UNCHANGED <<exists, setup, started, jobs>>

(* upsert_batch takes effect: jobs and vectors are paired by position, and  *)
(* of two points with one id the later stays.                               *)
BatchWritten(p) ==
    LET list == task[p].list
        last(t) == Max({i \in DOMAIN list : list[i] = t}) IN
    /\ at[p] = "upsert" /\ ~IsProfile(task[p])
    /\ jobs' = [t \in Texts |-> IF t \in ToSet(list) THEN vectors[p][last(t)] ELSE jobs[t]]
    /\ \/ at' = [at EXCEPT ![p] = "done"] /\ task' = task /\ Forget(p)
       \/ Fail(p)
    /\ UNCHANGED <<exists, setup, alone, started, store>>

(* A call raises without having taken effect. *)
Raises(p) ==
    /\ \/ Serving(p) /\ Fail(p)
       \/ /\ at[p] \in {"list", "create"}
          /\ at' = [at EXCEPT ![p] = "down"]
          /\ UNCHANGED <<task, next, vectors>>
    /\ UNCHANGED <<exists, setup, alone, started, store, jobs>>

(* The process dies; it may have created a collection before it knew.       *)
Crash(p) ==
    /\ at[p] # "down"
    /\ at' = [at EXCEPT ![p] = "down"]
    /\ task' = [task EXCEPT ![p] = Nothing]
    /\ Forget(p)
    /\ \/ exists' = exists
       \/ at[p] = "create" /\ exists' = exists \cup {Collections[setup[p]]}
    /\ UNCHANGED <<setup, alone, started, store, jobs>>

Embedded(p) == PointEmbedded(p) \/ BatchEmbedded(p)

Stores(p) ==
    \/ Ensure(p) \/ Listed(p) \/ Created(p)
    \/ \E t \in ProfileTasks \cup JobTasks : Generate(p, t)
    \/ PointWritten(p) \/ BatchWritten(p) \/ Raises(p)

PipelineNext == \E p \in Processes : Embedded(p) \/ Stores(p) \/ Crash(p)

PipelineSpec == PipelineInit /\ [][PipelineNext]_pipelineVars

-----------------------------------------------------------------------------
(* Properties. *)

PipelineTypeOK ==
    /\ exists \subseteq Range(Collections)
    /\ at \in [Processes -> {"down", "list", "create", "ready", "embed", "upsert", "done"}]
    /\ setup \in [Processes -> DOMAIN Collections]
    /\ task \in [Processes -> ProfileTasks \cup JobTasks \cup {Nothing}]
    /\ next \in [Processes -> Nat]
    /\ vectors \in [Processes -> Seq(Texts)]
    /\ alone \subseteq Processes
    /\ started \subseteq ProfileTasks \cup JobTasks
    /\ store \in [PointIds -> Profiles \cup {None}]
    /\ jobs \in [Texts -> Texts \cup {None}]

(* Whoever got through ensure_collections finds both collections, although  *)
(* setups race each other, and fail or die between the two creations.       *)
SetupComplete ==
    \A p \in Processes : at[p] \notin {"down", "list", "create"} => exists = Range(Collections)

(* A finished generation has each of its points in the store, whatever      *)
(* failed, died or was lost before, if no other generation wrote meanwhile; *)
(* or, since re-runs are idempotent, if all generations were of the same    *)
(* profile, even at the same time.                                          *)
FinishedGenerationVisible ==
    \A p \in Processes :
        /\ at[p] = "done" /\ IsProfile(task[p])
        /\ p \in alone \/ started \cap ProfileTasks = {task[p]}
        => \A i \in ToSet(Points(task[p].profile)) : store[i] = task[p].profile

(* A list of jobs is embedded in several calls and stored in one: what is   *)
(* stored are whole lists, whatever failed between the calls, and every     *)
(* vector is that of its own job's text.                                    *)
JobListsWhole ==
    LET stored == {t \in Texts : jobs[t] # None} IN
    /\ \A t \in stored : jobs[t] = t
    /\ \A t \in stored : \E l \in JobLists :
         [list |-> l] \in started /\ t \in ToSet(l) /\ ToSet(l) \subseteq stored
    /\ \A p \in Processes : at[p] = "done" /\ ~IsProfile(task[p]) => ToSet(task[p].list) \subseteq stored

(* What "supports idempotent re-runs" leads a reader to expect: after a     *)
(* finished generation that ran alone the resume has its points only.       *)
NoStalePoints ==
    \A p \in alone : at[p] = "done" /\ IsProfile(task[p]) =>
        \A i \in PointIds : store[i] # None => i \in ToSet(Points(task[p].profile))
=============================================================================
