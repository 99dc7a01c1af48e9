----------------------------- MODULE AgentProofs -----------------------------
(***************************************************************************)
(* Proofs about the agents.                                                *)
(*                                                                         *)
(* First ResumeIntake and the embedding pipeline it runs, for every set of *)
(* processes, of profiles within the bound, of lists of jobs and every     *)
(* size of a batch.  Then Shortlist: the scoring engine, the risk detector *)
(* and the critic, for every set of resumes, of postings and of drafts.    *)
(***************************************************************************)
EXTENDS ResumeIntake, Shortlist, TLAPS, FiniteSetTheorems, SequenceTheorems, WellFoundedInduction

-----------------------------------------------------------------------------
(* Data. *)

(* The kinds of tasks cannot be mistaken for each other. *)
LEMMA TaskKinds ==
    /\ \A t \in ProfileTasks : IsProfile(t) /\ t.profile \in Profiles /\ t = [profile |-> t.profile]
    /\ \A t \in JobTasks : ~IsProfile(t) /\ t.list \in JobLists /\ t = [list |-> t.list]
    /\ ~IsProfile(Nothing)
<1>1. DOMAIN Nothing = {"list"}
  BY DEF Nothing
<1>2. \A t \in ProfileTasks : DOMAIN t = {"profile"}
  BY DEF ProfileTasks
<1>3. \A t \in JobTasks : DOMAIN t = {"list"}
  BY DEF JobTasks
<1>4. {"profile"} # {"list"}
  BY "profile" # "list"
<1> QED
  BY <1>1, <1>2, <1>3, <1>4 DEF IsProfile, ProfileTasks, JobTasks

(* A profile has at least one point, and its points are known. *)
LEMMA PointsOfProfile ==
    ASSUME NEW c \in Profiles
    PROVE  /\ Points(c) \in Seq(PointIds)
           /\ Len(Points(c)) \in Nat \ {0}
<1> DEFINE exps == <<"exp_0", "exp_1">>
           skills == IF c.skills THEN <<"skills">> ELSE <<>>
           part == SubSeq(exps, 1, c.experiences)
<1>1. c.skills \in BOOLEAN /\ c.experiences \in 0..2
  BY PipelineAssumption
<1>2. <<"full_profile">> \in Seq(PointIds) /\ Len(<<"full_profile">>) = 1
  BY DEF PointIds
<1>3. skills \in Seq(PointIds) /\ Len(skills) \in Nat
  <2>1. CASE c.skills
    <3>1. skills = <<"skills">>
      BY <2>1
    <3>2. <<"skills">> \in Seq(PointIds) /\ Len(<<"skills">>) = 1
      BY DEF PointIds
    <3> QED BY <3>1, <3>2
  <2>2. CASE ~c.skills
    <3>1. skills = <<>>
      BY <2>2
    <3> QED BY <3>1
  <2> QED BY <2>1, <2>2
<1>4. exps \in Seq(PointIds) /\ Len(exps) = 2
  BY DEF PointIds
<1>5. part \in Seq(PointIds) /\ Len(part) \in Nat
  BY <1>1, <1>4, SubSeqProperties, LenProperties
<1>6. Points(c) = (<<"full_profile">> \o skills) \o part
  BY DEF Points
<1> HIDE DEF skills, part
<1>7. /\ <<"full_profile">> \o skills \in Seq(PointIds)
      /\ Len(<<"full_profile">> \o skills) = 1 + Len(skills)
  BY <1>2, <1>3, ConcatProperties
<1> QED
  BY <1>3, <1>5, <1>6, <1>7, ConcatProperties

(* The smaller of two naturals. *)
LEMMA SmallerOfTwo ==
    ASSUME NEW a \in Nat, NEW b \in Nat
    PROVE  Min({a, b}) = IF a <= b THEN a ELSE b
BY DEF Min

(* A set of numbers up to a bound has a largest one. *)
LEMMA LargestNumber ==
    ASSUME NEW n \in Nat, NEW S \in SUBSET (0..n), S # {}
    PROVE  Max(S) \in S /\ \A i \in S : Max(S) >= i
<1> DEFINE R == OpToRel(<, Nat)
           D == {n - i : i \in S}
<1>1. IsWellFoundedOn(R, Nat)
  BY NatLessThanWellFounded
<1>2. \A i \in S : i \in Nat /\ n - i \in Nat
  OBVIOUS
<1>3. D \in SUBSET Nat /\ D # {}
  BY <1>2
<1>4. PICK d \in D : \A m \in D : ~ (<<m, d>> \in R)
  <2> HIDE DEF R, D
  <2> QED BY <1>1, <1>3, WFMin
<1>5. \A m \in D : m \in Nat /\ d \in Nat /\ ~(m < d)
  BY <1>3, <1>4 DEF OpToRel
<1>6. PICK k \in S : d = n - k
  BY <1>4
<1>7. \A i \in S : k >= i
  <2>1. TAKE i \in S
  <2>2. n - i \in D
    OBVIOUS
  <2>3. ~(n - i < n - k)
    BY <1>5, <1>6, <2>2
  <2> QED BY <1>2, <2>3
<1>8. \E x \in S : \A y \in S : x >= y
  BY <1>7
<1> QED
  BY <1>8 DEF Max

(* What embed has after one more batch is again the beginning of the list. *)
LEMMA LongerBeginning ==
    ASSUME NEW list \in Seq(Texts), NEW v \in Seq(Texts), NEW n \in 1..Len(list),
           NEW m \in n..Len(list), Len(v) = n - 1, \A i \in 1..Len(v) : v[i] = list[i]
    PROVE  /\ v \o SubSeq(list, n, m) \in Seq(Texts)
           /\ Len(v \o SubSeq(list, n, m)) = m
           /\ \A i \in 1..m : (v \o SubSeq(list, n, m))[i] = list[i]
<1>1. v \o SubSeq(list, n, m) \in Seq(Texts)
  OBVIOUS
<1>2. Len(v \o SubSeq(list, n, m)) = m
  OBVIOUS
<1>3. \A i \in 1..m : (v \o SubSeq(list, n, m))[i] = list[i]
  OBVIOUS
<1> QED
  BY <1>1, <1>2, <1>3

(* Where a batch that begins at n ends. *)
LEMMA BatchBounds ==
    ASSUME NEW l \in Nat, NEW n \in 1..l, NEW m, m = Min({n + BatchSize - 1, l})
    PROVE  /\ m \in Nat /\ n <= m /\ m <= l
           /\ m = IF n + BatchSize > l THEN l ELSE n + BatchSize - 1
<1>1. n + BatchSize - 1 \in Nat /\ BatchSize \in Nat \ {0}
  BY PipelineAssumption
<1>2. m = IF n + BatchSize - 1 <= l THEN n + BatchSize - 1 ELSE l
  BY <1>1, SmallerOfTwo
<1> QED
  BY <1>1, <1>2

-----------------------------------------------------------------------------
(* The inductive invariant of the pipeline. *)

(* A process at its second collection found or created the first; one past  *)
(* the setup knows of both.                                                 *)
SetupSound ==
    \A p \in Processes :
        /\ at[p] \in {"list", "create"} => \A k \in 1..(setup[p] - 1) : Collections[k] \in exists
        /\ at[p] \notin {"down", "list", "create"} => exists = Range(Collections)

Generating(p) == at[p] \in {"embed", "upsert", "done"}

TasksStarted == \A p \in Processes : Generating(p) => task[p] \in started

(* Nobody can have written another version of a profile since p began. *)
Sure(p) == p \in alone \/ started \cap ProfileTasks = {task[p]}

(* The points before the next one are stored, or all of them at the end. *)
ProfileProgress ==
    \A p \in Processes : Generating(p) /\ IsProfile(task[p]) =>
        LET ids == Points(task[p].profile) IN
        /\ Serving(p) => next[p] \in 1..Len(ids)
        /\ Sure(p) => \A i \in 1..Len(ids) :
             at[p] = "done" \/ i < next[p] => store[ids[i]] = task[p].profile

(* The vectors are those of the beginning of the list. *)
ListProgress ==
    \A p \in Processes : Serving(p) /\ ~IsProfile(task[p]) =>
        LET list == task[p].list IN
        /\ at[p] = "embed" => next[p] \in 1..Len(list) /\ Len(vectors[p]) = next[p] - 1
        /\ at[p] = "upsert" => Len(vectors[p]) = Len(list)
        /\ \A i \in 1..Len(vectors[p]) : vectors[p][i] = list[i]

PInv ==
    /\ PipelineTypeOK
    /\ SetupSound
    /\ TasksStarted
    /\ ProfileProgress
    /\ ListProgress
    /\ JobListsWhole

LEMMA PInvInit == PipelineInit => PInv
<1> SUFFICES ASSUME PipelineInit PROVE PInv
  OBVIOUS
<1> USE DEF PipelineInit
<1>1. PipelineTypeOK
  BY DEF PipelineTypeOK, Collections, Nothing
<1>2. SetupSound /\ TasksStarted /\ ProfileProgress /\ ListProgress
  BY DEF SetupSound, TasksStarted, ProfileProgress, ListProgress, Generating, Serving
<1>3. JobListsWhole
  BY DEF JobListsWhole
<1> QED BY <1>1, <1>2, <1>3 DEF PInv

LEMMA CollectionsKnown ==
    /\ Len(Collections) = 2 /\ DOMAIN Collections = 1..2
    /\ Range(Collections) = {Collections[1], Collections[2]}
<1>1. Len(Collections) = 2 /\ DOMAIN Collections = 1..2
  BY DEF Collections
<1> QED BY <1>1 DEF Range

(* The steps that leave the collections alone. *)
LEMMA SetupStep ==
    ASSUME PipelineTypeOK, SetupSound, NEW p \in Processes,
           Embedded(p) \/ Stores(p) \/ Crash(p)
    PROVE  SetupSound'
<1> USE CollectionsKnown
<1>1. /\ at \in [Processes -> {"down", "list", "create", "ready", "embed", "upsert", "done"}]
      /\ setup \in [Processes -> 1..2]
      /\ exists \subseteq Range(Collections)
  BY DEF PipelineTypeOK
<1>2. ASSUME exists' = exists, setup' = setup, NEW x \in {"ready", "embed", "upsert", "done"},
             at' = [at EXCEPT ![p] = x], at[p] \notin {"down", "list", "create"}
      PROVE  SetupSound'
  BY <1>1, <1>2 DEF SetupSound
<1>3. ASSUME exists \subseteq exists', exists' \subseteq Range(Collections), setup' = setup,
             at' = [at EXCEPT ![p] = "down"]
      PROVE  SetupSound'
  BY <1>1, <1>3 DEF SetupSound
<1>4. ASSUME exists \subseteq exists', exists' \subseteq Range(Collections), at[p] \in {"list", "create"},
             Collections[setup[p]] \in exists', NextCollection(p)
      PROVE  SetupSound'
  <2>1. CASE setup[p] = 1
    BY <1>1, <1>4, <2>1 DEF SetupSound, NextCollection
  <2>2. CASE setup[p] = 2
    <3>1. Collections[1] \in exists
      BY <1>4, <2>2 DEF SetupSound
    <3>2. exists' = Range(Collections)
      BY <1>4, <2>2, <3>1
    <3>3. at' = [at EXCEPT ![p] = "ready"] /\ setup' = setup
      BY <1>4, <2>2 DEF NextCollection
    <3> QED BY <1>1, <1>4, <3>2, <3>3 DEF SetupSound
  <2> QED BY <1>1, <2>1, <2>2
<1>5. CASE Ensure(p)
  BY <1>1, <1>5 DEF Ensure, SetupSound
<1>6. CASE Listed(p)
  <2>1. CASE Collections[setup[p]] \in exists
    BY <1>1, <1>4, <1>6, <2>1 DEF Listed
  <2>2. CASE Collections[setup[p]] \notin exists
    BY <1>1, <1>6, <2>2 DEF Listed, SetupSound
  <2> QED BY <2>1, <2>2
<1>7. CASE Created(p)
  <2>1. exists \subseteq exists' /\ exists' \subseteq Range(Collections) /\ Collections[setup[p]] \in exists'
    BY <1>1, <1>7 DEF Created
  <2> QED BY <1>3, <1>4, <1>7, <2>1 DEF Created
<1>8. CASE \E t \in ProfileTasks \cup JobTasks : Generate(p, t)
  BY <1>2, <1>8 DEF Generate
<1>9. CASE PointEmbedded(p)
  BY <1>2, <1>9 DEF PointEmbedded
<1>10. CASE BatchEmbedded(p)
  <2>1. PICK x \in {"upsert", "embed"} : at' = [at EXCEPT ![p] = x]
    BY <1>10 DEF BatchEmbedded
  <2> QED BY <1>2, <1>10, <2>1 DEF BatchEmbedded
<1>11. CASE PointWritten(p)
  BY <1>2, <1>11 DEF PointWritten, Fail
<1>12. CASE BatchWritten(p)
  BY <1>2, <1>12 DEF BatchWritten, Fail
<1>13. CASE Raises(p)
  BY <1>2, <1>3, <1>1, <1>13 DEF Raises, Fail, Serving
<1>14. CASE Crash(p)
  BY <1>3, <1>1, <1>14 DEF Crash
<1> QED
  BY <1>5, <1>6, <1>7, <1>8, <1>9, <1>10, <1>11, <1>12, <1>13, <1>14 DEF Embedded, Stores

-----------------------------------------------------------------------------
(* Types and the progress through a list. *)

(* A batch is appended. *)
LEMMA BatchStep ==
    ASSUME PipelineTypeOK, TasksStarted, ListProgress, NEW p \in Processes, BatchEmbedded(p)
    PROVE  LET list == task[p].list IN
           /\ task[p] \in JobTasks /\ list \in Seq(Texts) /\ Len(list) \in Nat
           /\ vectors'[p] \in Seq(Texts)
           /\ next'[p] \in Nat
           /\ at'[p] = "embed" => next'[p] \in 1..Len(list) /\ Len(vectors'[p]) = next'[p] - 1
           /\ at'[p] = "upsert" => Len(vectors'[p]) = Len(list)
           /\ at'[p] \in {"embed", "upsert"}
           /\ \A i \in 1..Len(vectors'[p]) : vectors'[p][i] = list[i]
<1>1. at[p] = "embed" /\ ~IsProfile(task[p])
  BY DEF BatchEmbedded
<1>2. task[p] \in JobTasks
  BY <1>1, TaskKinds DEF TasksStarted, Generating, PipelineTypeOK
<1>3. PICK list \in Seq(Texts) : list = task[p].list
  BY <1>2, TaskKinds, PipelineAssumption
<1>4. Len(list) \in Nat
  BY LenProperties
<1>5. PICK n \in 1..Len(list) : n = next[p]
  BY <1>1, <1>3 DEF ListProgress, Serving
<1>6. PICK v \in Seq(Texts) : v = vectors[p]
  BY DEF PipelineTypeOK
<1>7. Len(v) = n - 1 /\ \A i \in 1..Len(v) : v[i] = list[i]
  BY <1>1, <1>3, <1>5, <1>6 DEF ListProgress, Serving
<1>8. PICK m : m = Min({n + BatchSize - 1, Len(list)})
  OBVIOUS
<1>9. /\ m \in Nat /\ n <= m /\ m <= Len(list)
      /\ m = IF n + BatchSize > Len(list) THEN Len(list) ELSE n + BatchSize - 1
  BY <1>4, <1>8, BatchBounds
<1>10. m \in n..Len(list)
  BY <1>4, <1>9
<1>11. PICK w : w = v \o SubSeq(list, n, m)
  OBVIOUS
<1>12. w \in Seq(Texts) /\ Len(w) = m /\ \A i \in 1..m : w[i] = list[i]
  BY <1>7, <1>10, <1>11, LongerBeginning
<1>13. vectors'[p] = w
  BY <1>3, <1>5, <1>6, <1>8, <1>11 DEF BatchEmbedded, PipelineTypeOK
<1>14. /\ next'[p] = n + BatchSize
       /\ at'[p] = IF n + BatchSize > Len(list) THEN "upsert" ELSE "embed"
  BY <1>3, <1>5 DEF BatchEmbedded, Stride, PipelineTypeOK
<1>15. BatchSize \in Nat \ {0}
  BY PipelineAssumption
<1>16. /\ next'[p] \in Nat
       /\ at'[p] = "embed" => next'[p] \in 1..Len(list) /\ Len(w) = next'[p] - 1
       /\ at'[p] = "upsert" => Len(w) = Len(list)
       /\ at'[p] \in {"embed", "upsert"}
  BY <1>4, <1>9, <1>12, <1>14, <1>15
<1> QED
  BY <1>2, <1>3, <1>4, <1>12, <1>13, <1>16

(* The batch that is written pairs every text of the list with its vector.  *)
LEMMA WrittenStep ==
    ASSUME PipelineTypeOK, TasksStarted, ListProgress, NEW p \in Processes, BatchWritten(p)
    PROVE  /\ task[p] \in started /\ task[p] \in JobTasks /\ task[p] = [list |-> task[p].list]
           /\ \A t \in Texts : jobs'[t] = IF t \in ToSet(task[p].list) THEN t ELSE jobs[t]
<1>1. at[p] = "upsert" /\ ~IsProfile(task[p])
  BY DEF BatchWritten
<1>2. task[p] \in started /\ task[p] \in JobTasks
  BY <1>1, TaskKinds DEF TasksStarted, Generating, PipelineTypeOK
<1>3. PICK list \in Seq(Texts) : list = task[p].list /\ task[p] = [list |-> list]
  BY <1>2, TaskKinds, PipelineAssumption
<1>4. Len(list) \in Nat /\ DOMAIN list = 1..Len(list)
  BY LenProperties
<1>5. Len(vectors[p]) = Len(list) /\ \A i \in 1..Len(list) : vectors[p][i] = list[i]
  BY <1>1, <1>3 DEF ListProgress, Serving
<1>6. ASSUME NEW t \in Texts, t \in ToSet(list)
      PROVE  vectors[p][Max({i \in DOMAIN list : list[i] = t})] = t
  <2> DEFINE S == {i \in DOMAIN list : list[i] = t}
  <2>1. S \in SUBSET (1..Len(list)) /\ S # {}
    BY <1>4, <1>6 DEF ToSet
  <2>2. Max(S) \in S
    <3>1. S \in SUBSET (0..Len(list))
      BY <1>4, <2>1
    <3> HIDE DEF S
    <3> QED BY <1>4, <2>1, <3>1, LargestNumber
  <2>3. PICK k \in 1..Len(list) : k = Max(S) /\ list[k] = t
    BY <1>4, <2>2
  <2> QED
    BY <1>5, <2>3
<1>7. jobs' = [t \in Texts |->
        IF t \in ToSet(list) THEN vectors[p][Max({i \in DOMAIN list : list[i] = t})] ELSE jobs[t]]
  BY <1>3 DEF BatchWritten
<1> QED
  BY <1>2, <1>3, <1>6, <1>7

LEMMA TypeStep ==
    ASSUME PipelineTypeOK, TasksStarted, ListProgress, NEW p \in Processes,
           Embedded(p) \/ Stores(p) \/ Crash(p)
    PROVE  PipelineTypeOK'
<1> USE CollectionsKnown
<1>1. /\ exists \subseteq Range(Collections)
      /\ at \in [Processes -> {"down", "list", "create", "ready", "embed", "upsert", "done"}]
      /\ setup \in [Processes -> DOMAIN Collections]
      /\ task \in [Processes -> ProfileTasks \cup JobTasks \cup {Nothing}]
      /\ next \in [Processes -> Nat]
      /\ vectors \in [Processes -> Seq(Texts)]
      /\ alone \subseteq Processes
      /\ started \subseteq ProfileTasks \cup JobTasks
      /\ store \in [PointIds -> Profiles \cup {None}]
      /\ jobs \in [Texts -> Texts \cup {None}]
  BY DEF PipelineTypeOK
<1>2. Forget(p) => next' \in [Processes -> Nat] /\ vectors' \in [Processes -> Seq(Texts)]
  BY <1>1 DEF Forget
<1>3. Fail(p) =>
        /\ at' \in [Processes -> {"down", "list", "create", "ready", "embed", "upsert", "done"}]
        /\ task' \in [Processes -> ProfileTasks \cup JobTasks \cup {Nothing}]
        /\ Forget(p)
  BY <1>1 DEF Fail
<1>4. NextCollection(p) =>
        /\ at' \in [Processes -> {"down", "list", "create", "ready", "embed", "upsert", "done"}]
        /\ setup' \in [Processes -> DOMAIN Collections]
  <2> SUFFICES ASSUME NextCollection(p)
               PROVE  /\ at' \in [Processes -> {"down", "list", "create", "ready", "embed", "upsert", "done"}]
                      /\ setup' \in [Processes -> DOMAIN Collections]
    OBVIOUS
  <2>1. CASE setup[p] = 1
    <3>1. at' = [at EXCEPT ![p] = "list"] /\ setup' = [setup EXCEPT ![p] = @ + 1]
      BY <2>1 DEF NextCollection
    <3> QED BY <1>1, <2>1, <3>1
  <2>2. CASE setup[p] = 2
    <3>1. at' = [at EXCEPT ![p] = "ready"] /\ setup' = setup
      BY <2>2 DEF NextCollection
    <3> QED BY <1>1, <3>1
  <2> QED BY <1>1, <2>1, <2>2
<1>5. CASE Ensure(p)
  BY <1>1, <1>5 DEF Ensure, PipelineTypeOK
<1>6. CASE Listed(p)
  BY <1>1, <1>4, <1>6 DEF Listed, PipelineTypeOK
<1>7. CASE Created(p)
  <2>1. exists' \subseteq Range(Collections)
    BY <1>1, <1>7 DEF Created
  <2> QED BY <1>1, <1>4, <1>7, <2>1 DEF Created, PipelineTypeOK
<1>8. ASSUME NEW t \in ProfileTasks \cup JobTasks, Generate(p, t) PROVE PipelineTypeOK'
  BY <1>1, <1>8 DEF Generate, PipelineTypeOK
<1>9. CASE PointEmbedded(p)
  BY <1>1, <1>9 DEF PointEmbedded, PipelineTypeOK
<1>10. CASE BatchEmbedded(p)
  <2>1. /\ \E x \in {"upsert", "embed"} : at' = [at EXCEPT ![p] = x]
        /\ \E n : next' = [next EXCEPT ![p] = n]
        /\ \E w : vectors' = [vectors EXCEPT ![p] = w]
        /\ UNCHANGED <<exists, setup, task, alone, started, store, jobs>>
    BY <1>10 DEF BatchEmbedded
  <2>2. vectors'[p] \in Seq(Texts) /\ next'[p] \in Nat
    BY <1>10, BatchStep
  <2>3. next' \in [Processes -> Nat]
    BY <1>1, <2>1, <2>2
  <2>4. vectors' \in [Processes -> Seq(Texts)]
    BY <1>1, <2>1, <2>2
  <2> QED BY <1>1, <2>1, <2>3, <2>4 DEF PipelineTypeOK
<1>11. CASE PointWritten(p)
  <2>1. /\ IsProfile(task[p]) /\ at[p] = "upsert"
        /\ Write(p) /\ alone' = alone \cap {p}
        /\ UNCHANGED <<exists, setup, started, jobs>>
    BY <1>11 DEF PointWritten
  <2>2. task[p] \in ProfileTasks
    BY <1>1, <2>1, TaskKinds
  <2>3. store' \in [PointIds -> Profiles \cup {None}]
    BY <1>1, <2>1, <2>2, TaskKinds DEF Write
  <2>4. /\ at' \in [Processes -> {"down", "list", "create", "ready", "embed", "upsert", "done"}]
        /\ task' \in [Processes -> ProfileTasks \cup JobTasks \cup {Nothing}]
        /\ next' \in [Processes -> Nat]
        /\ vectors' \in [Processes -> Seq(Texts)]
    <3>1. CASE at' = [at EXCEPT ![p] = "embed"] /\ next' = [next EXCEPT ![p] = @ + 1] /\ UNCHANGED <<task, vectors>>
      BY <1>1, <3>1
    <3>2. CASE at' = [at EXCEPT ![p] = "done"] /\ task' = task /\ Forget(p)
      BY <1>1, <1>2, <3>2
    <3>3. CASE Fail(p)
      BY <1>2, <1>3, <3>3
    <3> QED BY <1>11, <3>1, <3>2, <3>3 DEF PointWritten
  <2> QED BY <1>1, <2>1, <2>3, <2>4 DEF PipelineTypeOK
<1>12. CASE BatchWritten(p)
  <2>1. /\ \A t \in Texts : jobs'[t] \in Texts \cup {None}
        /\ jobs' = [t \in Texts |-> jobs'[t]]
    <3>1. \A t \in Texts : jobs'[t] \in Texts \cup {None}
      BY <1>1, <1>12, WrittenStep
    <3>2. \E f : jobs' = [t \in Texts |-> f[t]]
      <4>1. PICK f : f = jobs'
        OBVIOUS
      <4>2. DOMAIN f = Texts /\ f = [t \in DOMAIN f |-> f[t]]
        BY <1>12, <4>1 DEF BatchWritten
      <4> QED BY <4>1, <4>2
    <3> QED BY <3>1, <3>2
  <2>2. /\ at' \in [Processes -> {"down", "list", "create", "ready", "embed", "upsert", "done"}]
        /\ task' \in [Processes -> ProfileTasks \cup JobTasks \cup {Nothing}]
        /\ next' \in [Processes -> Nat]
        /\ vectors' \in [Processes -> Seq(Texts)]
    BY <1>1, <1>2, <1>3, <1>12 DEF BatchWritten
  <2>3. UNCHANGED <<exists, setup, alone, started, store>>
    BY <1>12 DEF BatchWritten
  <2> QED BY <1>1, <2>1, <2>2, <2>3 DEF PipelineTypeOK
<1>13. CASE Raises(p)
  BY <1>1, <1>2, <1>3, <1>13 DEF Raises, PipelineTypeOK
<1>14. CASE Crash(p)
  <2>1. exists' \subseteq Range(Collections)
    <3>1. setup[p] \in 1..2
      BY <1>1
    <3>2. Collections[setup[p]] \in Range(Collections)
      BY <3>1
    <3>3. exists' = exists \/ exists' = exists \cup {Collections[setup[p]]}
      BY <1>14 DEF Crash
    <3> QED BY <1>1, <3>2, <3>3
  <2>2. at' \in [Processes -> {"down", "list", "create", "ready", "embed", "upsert", "done"}]
    BY <1>1, <1>14 DEF Crash
  <2>3. task' \in [Processes -> ProfileTasks \cup JobTasks \cup {Nothing}]
    BY <1>1, <1>14 DEF Crash
  <2>4. Forget(p) /\ UNCHANGED <<setup, alone, started, store, jobs>>
    BY <1>14 DEF Crash
  <2> QED BY <1>1, <1>2, <2>1, <2>2, <2>3, <2>4 DEF PipelineTypeOK
<1> QED
  BY <1>5, <1>6, <1>7, <1>8, <1>9, <1>10, <1>11, <1>12, <1>13, <1>14 DEF Embedded, Stores

(* A step is of one process, which goes on with its task, begins one or     *)
(* ends up with none.                                                       *)
LEMMA StepShape ==
    ASSUME PipelineTypeOK, NEW p \in Processes, Embedded(p) \/ Stores(p) \/ Crash(p)
    PROVE  /\ \A q \in Processes \ {p} :
                /\ at'[q] = at[q] /\ task'[q] = task[q]
                /\ next'[q] = next[q] /\ vectors'[q] = vectors[q]
           /\ \/ ~Generating(p)' /\ started' = started
              \/ \E t \in ProfileTasks \cup JobTasks : Generate(p, t)
              \/ Generating(p) /\ task'[p] = task[p] /\ started' = started
<1>1. at \in [Processes -> {"down", "list", "create", "ready", "embed", "upsert", "done"}]
  BY DEF PipelineTypeOK
<1>2. DOMAIN task = Processes /\ DOMAIN next = Processes /\ DOMAIN vectors = Processes /\ DOMAIN setup = Processes
  BY DEF PipelineTypeOK
<1> DEFINE Others == \A q \in Processes \ {p} :
                /\ at'[q] = at[q] /\ task'[q] = task[q]
                /\ next'[q] = next[q] /\ vectors'[q] = vectors[q]
<1>3. Fail(p) => Others /\ ~Generating(p)'
  BY <1>1, <1>2 DEF Fail, Forget, Generating
<1>4. Forget(p) => \A q \in Processes \ {p} : next'[q] = next[q] /\ vectors'[q] = vectors[q]
  BY <1>2 DEF Forget
<1>5. CASE Ensure(p)
  BY <1>1, <1>5 DEF Ensure, Generating
<1>6. CASE Listed(p)
  <2>1. \E x \in {"list", "create", "ready"} : at' = [at EXCEPT ![p] = x]
    BY <1>6 DEF Listed, NextCollection
  <2> QED BY <1>1, <1>6, <2>1 DEF Listed, Generating
<1>7. CASE Created(p)
  <2>1. \E x \in {"list", "down", "ready"} : at' = [at EXCEPT ![p] = x]
    BY <1>7 DEF Created, NextCollection
  <2> QED BY <1>1, <1>7, <2>1 DEF Created, Generating
<1>8. ASSUME NEW t \in ProfileTasks \cup JobTasks, Generate(p, t)
      PROVE  Others
  BY <1>1, <1>2, <1>8 DEF Generate
<1>9. CASE PointEmbedded(p)
  BY <1>1, <1>9 DEF PointEmbedded, Generating
<1>10. CASE BatchEmbedded(p)
  <2>1. \E x \in {"upsert", "embed"} : at' = [at EXCEPT ![p] = x]
    BY <1>10 DEF BatchEmbedded
  <2>2. \E n : next' = [next EXCEPT ![p] = n]
    BY <1>10 DEF BatchEmbedded
  <2>3. \E w : vectors' = [vectors EXCEPT ![p] = w]
    BY <1>10 DEF BatchEmbedded
  <2>4. task' = task /\ started' = started /\ at[p] = "embed"
    BY <1>10 DEF BatchEmbedded
  <2> QED BY <1>1, <1>2, <2>1, <2>2, <2>3, <2>4 DEF Generating
<1>11. CASE PointWritten(p)
  <2>1. CASE at' = [at EXCEPT ![p] = "embed"] /\ next' = [next EXCEPT ![p] = @ + 1] /\ UNCHANGED <<task, vectors>>
    BY <1>1, <1>2, <1>11, <2>1 DEF PointWritten, Generating
  <2>2. CASE at' = [at EXCEPT ![p] = "done"] /\ task' = task /\ Forget(p)
    BY <1>1, <1>4, <1>11, <2>2 DEF PointWritten, Generating
  <2>3. CASE Fail(p)
    BY <1>3, <1>11, <2>3 DEF PointWritten
  <2> QED BY <1>11, <2>1, <2>2, <2>3 DEF PointWritten
<1>12. CASE BatchWritten(p)
  <2>1. at[p] = "upsert" /\ started' = started
    BY <1>12 DEF BatchWritten
  <2>2. CASE at' = [at EXCEPT ![p] = "done"] /\ task' = task /\ Forget(p)
    BY <1>1, <1>4, <2>1, <2>2 DEF Generating
  <2>3. CASE Fail(p)
    BY <1>3, <2>1, <2>3
  <2> QED BY <1>12, <2>2, <2>3 DEF BatchWritten
<1>13. CASE Raises(p)
  <2>1. CASE Fail(p)
    BY <1>3, <1>13, <2>1 DEF Raises
  <2>2. CASE at' = [at EXCEPT ![p] = "down"] /\ UNCHANGED <<task, next, vectors>>
    BY <1>1, <1>13, <2>2 DEF Raises, Generating
  <2> QED BY <1>13, <2>1, <2>2 DEF Raises
<1>14. CASE Crash(p)
  <2>1. at' = [at EXCEPT ![p] = "down"] /\ task' = [task EXCEPT ![p] = Nothing] /\ Forget(p) /\ started' = started
    BY <1>14 DEF Crash
  <2> QED BY <1>1, <1>2, <1>4, <2>1 DEF Generating
<1> QED
  BY <1>5, <1>6, <1>7, <1>8, <1>9, <1>10, <1>11, <1>12, <1>13, <1>14 DEF Embedded, Stores

LEMMA StartedStep ==
    ASSUME PipelineTypeOK, TasksStarted, NEW p \in Processes, Embedded(p) \/ Stores(p) \/ Crash(p)
    PROVE  TasksStarted'
<1>1. \A q \in Processes \ {p} : at'[q] = at[q] /\ task'[q] = task[q]
  BY StepShape
<1>2. CASE started' = started /\ ~Generating(p)'
  BY <1>1, <1>2 DEF TasksStarted, Generating
<1>3. ASSUME NEW t \in ProfileTasks \cup JobTasks, Generate(p, t) PROVE TasksStarted'
  <2>1. started \subseteq started' /\ t \in started' /\ task'[p] = t
    BY <1>3 DEF Generate, PipelineTypeOK
  <2> QED BY <1>1, <2>1 DEF TasksStarted, Generating
<1>4. CASE Generating(p) /\ task'[p] = task[p] /\ started' = started
  BY <1>1, <1>4 DEF TasksStarted, Generating
<1> QED
  BY <1>2, <1>3, <1>4, StepShape

LEMMA ListStep ==
    ASSUME PipelineTypeOK, TasksStarted, ListProgress, NEW p \in Processes,
           Embedded(p) \/ Stores(p) \/ Crash(p)
    PROVE  ListProgress'
<1>1. \A q \in Processes \ {p} :
        at'[q] = at[q] /\ task'[q] = task[q] /\ next'[q] = next[q] /\ vectors'[q] = vectors[q]
  BY StepShape
<1> SUFFICES ASSUME Serving(p)', ~IsProfile(task[p])'
             PROVE  LET list == task'[p].list IN
                    /\ at'[p] = "embed" => next'[p] \in 1..Len(list) /\ Len(vectors'[p]) = next'[p] - 1
                    /\ at'[p] = "upsert" => Len(vectors'[p]) = Len(list)
                    /\ \A i \in 1..Len(vectors'[p]) : vectors'[p][i] = list[i]
  BY <1>1 DEF ListProgress, Serving
<1>2. at'[p] \in {"embed", "upsert"}
  BY DEF Serving
<1>3. ASSUME NEW t \in ProfileTasks \cup JobTasks, Generate(p, t)
      PROVE  LET list == task'[p].list IN
             /\ at'[p] = "embed" /\ next'[p] \in 1..Len(list) /\ Len(vectors'[p]) = next'[p] - 1
             /\ \A i \in 1..Len(vectors'[p]) : vectors'[p][i] = list[i]
  <2>1. task'[p] = t /\ next'[p] = 1 /\ vectors'[p] = <<>> /\ at'[p] = "embed"
    BY <1>3 DEF Generate, PipelineTypeOK
  <2>2. t \in JobTasks
    BY <2>1, TaskKinds
  <2>3. PICK list \in Seq(Texts) : list = t.list /\ list # <<>>
    BY <2>2, TaskKinds, PipelineAssumption
  <2>4. Len(list) \in Nat /\ Len(list) # 0
    BY <2>3, EmptySeq, LenProperties
  <2>5. Len(<<>>) = 0
    OBVIOUS
  <2> QED BY <2>1, <2>3, <2>4, <2>5
<1>4. CASE BatchEmbedded(p)
  <2>1. task'[p] = task[p]
    BY <1>4 DEF BatchEmbedded
  <2> QED BY <1>4, <2>1, BatchStep
<1>5. ~PointEmbedded(p)
  BY DEF PointEmbedded
<1>6. ASSUME Ensure(p) \/ Listed(p) \/ Created(p) \/ Raises(p) \/ Crash(p) \/ BatchWritten(p) PROVE FALSE
  <2>1. \E x \in {"down", "ready", "list", "create", "done"} : at' = [at EXCEPT ![p] = x]
    BY <1>6 DEF Ensure, Listed, Created, Raises, Crash, BatchWritten, Fail, NextCollection
  <2> QED BY <1>2, <2>1 DEF PipelineTypeOK
<1>7. ~PointWritten(p)
  <2> SUFFICES ASSUME PointWritten(p) PROVE FALSE
    OBVIOUS
  <2>1. CASE task' = task
    BY <2>1 DEF PointWritten
  <2>2. CASE Fail(p)
    BY <1>2, <2>2 DEF Fail, PipelineTypeOK
  <2> QED BY <2>1, <2>2 DEF PointWritten
<1> QED
  BY <1>3, <1>4, <1>5, <1>6, <1>7 DEF Embedded, Stores

-----------------------------------------------------------------------------
(* The progress through a profile. *)

(* The step of a process keeps what is known of the others' points: what it *)
(* writes is either their own profile or makes them unsure.                 *)
LEMMA OthersPoints ==
    ASSUME PipelineTypeOK, TasksStarted, ProfileProgress, NEW p \in Processes,
           Embedded(p) \/ Stores(p) \/ Crash(p),
           NEW q \in Processes \ {p}, Generating(q), IsProfile(task[q]), Sure(q)'
    PROVE  /\ Sure(q)
           /\ \A i \in PointIds : store[i] = task[q].profile => store'[i] = task[q].profile
<1>1. /\ at'[q] = at[q] /\ task'[q] = task[q]
      /\ task[q] \in started /\ task[q] \in ProfileTasks
  BY StepShape, TaskKinds DEF TasksStarted, PipelineTypeOK
<1>2. CASE PointWritten(p)
  <2>1. /\ Write(p) /\ alone' = alone \cap {p} /\ started' = started
        /\ at[p] = "upsert" /\ IsProfile(task[p])
    BY <1>2 DEF PointWritten
  <2>2. started \cap ProfileTasks = {task[q]}
    BY <1>1, <2>1 DEF Sure
  <2>3. task[p] \in started /\ task[p] \in ProfileTasks
    BY <2>1, TaskKinds DEF TasksStarted, Generating, PipelineTypeOK
  <2>4. task[p] = task[q]
    BY <2>2, <2>3
  <2>5. \E j : store' = [store EXCEPT ![j] = task[q].profile]
    BY <2>1, <2>4 DEF Write
  <2> QED BY <2>2, <2>5 DEF Sure, PipelineTypeOK
<1>3. ASSUME NEW t \in ProfileTasks \cup JobTasks, Generate(p, t)
      PROVE  Sure(q) /\ store' = store
  <2>1. store' = store /\ started' = started \cup {t} /\ (q \in alone' => q \in alone)
    BY <1>3 DEF Generate
  <2>2. CASE q \in alone'
    BY <2>1, <2>2 DEF Sure
  <2>3. CASE started' \cap ProfileTasks = {task[q]}
    BY <1>1, <2>1, <2>3 DEF Sure
  <2> QED BY <1>1, <2>1, <2>2, <2>3 DEF Sure
<1>4. ASSUME UNCHANGED <<store, alone, started>>
      PROVE  Sure(q) /\ store' = store
  BY <1>1, <1>4 DEF Sure
<1> QED
  BY <1>2, <1>3, <1>4
     DEF Embedded, Stores, Ensure, Listed, Created, PointEmbedded, BatchEmbedded, BatchWritten, Raises, Crash

LEMMA ProfileStep ==
    ASSUME PipelineTypeOK, TasksStarted, ProfileProgress, NEW p \in Processes,
           Embedded(p) \/ Stores(p) \/ Crash(p)
    PROVE  ProfileProgress'
<1> DEFINE Goal(q) ==
        /\ Serving(q)' => next'[q] \in 1..Len(Points(task'[q].profile))
        /\ Sure(q)' => \A i \in 1..Len(Points(task'[q].profile)) :
             at'[q] = "done" \/ i < next'[q] => store'[Points(task'[q].profile)[i]] = task'[q].profile
<1> SUFFICES ASSUME NEW q \in Processes, Generating(q)', IsProfile(task[q])'
             PROVE  Goal(q)
  BY DEF ProfileProgress
<1>1. CASE q # p
  <2>1. /\ at'[q] = at[q] /\ task'[q] = task[q] /\ next'[q] = next[q]
        /\ Generating(q) /\ IsProfile(task[q])
    BY <1>1, StepShape DEF Generating
  <2>2. task[q] \in ProfileTasks
    BY <2>1, TaskKinds DEF PipelineTypeOK
  <2>3. PICK ids \in Seq(PointIds) : ids = Points(task[q].profile)
    BY <2>2, TaskKinds, PointsOfProfile
  <2>4. /\ Serving(q) => next[q] \in 1..Len(ids)
        /\ Sure(q) => \A i \in 1..Len(ids) :
             at[q] = "done" \/ i < next[q] => store[ids[i]] = task[q].profile
    BY <2>1, <2>3 DEF ProfileProgress
  <2>5. Sure(q)' => \A i \in 1..Len(ids) :
             at[q] = "done" \/ i < next[q] => store'[ids[i]] = task[q].profile
    <3>1. SUFFICES ASSUME Sure(q)', NEW i \in 1..Len(ids), at[q] = "done" \/ i < next[q]
                   PROVE  store'[ids[i]] = task[q].profile
      OBVIOUS
    <3>2. ids[i] \in PointIds
      BY ElementOfSeq
    <3>3. /\ Sure(q)
          /\ \A j \in PointIds : store[j] = task[q].profile => store'[j] = task[q].profile
      BY <1>1, <2>1, <3>1, OthersPoints
    <3> QED BY <2>4, <3>1, <3>2, <3>3
  <2>6. Serving(q)' = Serving(q)
    BY <2>1 DEF Serving
  <2> QED BY <2>1, <2>3, <2>4, <2>5, <2>6
<1>2. CASE q = p
  <2>1. ASSUME NEW t \in ProfileTasks \cup JobTasks, Generate(p, t) PROVE Goal(q)
    <3>1. task'[p] = t /\ next'[p] = 1 /\ at'[p] = "embed"
      BY <2>1 DEF Generate, PipelineTypeOK
    <3>2. t \in ProfileTasks
      BY <1>2, <3>1, TaskKinds
    <3>3. Len(Points(t.profile)) \in Nat \ {0}
      BY <3>2, TaskKinds, PointsOfProfile
    <3> QED BY <1>2, <3>1, <3>3
  <2>2. CASE Generating(p) /\ task'[p] = task[p] /\ started' = started
    <3>1. IsProfile(task[p]) /\ task[p] \in ProfileTasks
      BY <1>2, <2>2, TaskKinds DEF PipelineTypeOK
    <3>2. PICK ids \in Seq(PointIds) : ids = Points(task[p].profile)
      BY <3>1, TaskKinds, PointsOfProfile
    <3>3. /\ Serving(p) => next[p] \in 1..Len(ids)
          /\ Sure(p) => \A i \in 1..Len(ids) :
               at[p] = "done" \/ i < next[p] => store[ids[i]] = task[p].profile
      BY <2>2, <3>1, <3>2 DEF ProfileProgress
    <3>4. CASE PointEmbedded(p)
      <4>1. /\ at[p] = "embed" /\ at'[p] = "upsert"
            /\ UNCHANGED <<next, alone, started, store, task>>
        BY <3>4 DEF PointEmbedded, PipelineTypeOK
      <4> QED BY <1>2, <3>2, <3>3, <4>1 DEF Serving, Sure
    <3>5. CASE PointWritten(p)
      <4>1. /\ at[p] = "upsert" /\ alone' = alone \cap {p}
            /\ store' = [store EXCEPT ![ids[next[p]]] = task[p].profile]
        BY <3>2, <3>5 DEF PointWritten, Write
      <4>2. PICK n \in 1..Len(ids) : n = next[p]
        BY <3>3, <4>1 DEF Serving
      <4>3. ids[n] \in PointIds /\ Len(ids) \in Nat
        BY ElementOfSeq, LenProperties
      <4>4. Sure(p)' => Sure(p)
        BY <2>2, <4>1 DEF Sure
      <4>5. Sure(p)' => \A i \in 1..Len(ids) : i < n + 1 => store'[ids[i]] = task[p].profile
        <5>1. SUFFICES ASSUME Sure(p)', NEW i \in 1..Len(ids), i < n + 1
                       PROVE  store'[ids[i]] = task[p].profile
          OBVIOUS
        <5>2. ids[i] \in PointIds
          BY ElementOfSeq
        <5>3. CASE i = n
          BY <4>1, <4>2, <4>3, <5>3 DEF PipelineTypeOK
        <5>4. CASE i < n
          BY <3>3, <4>1, <4>2, <4>4, <5>1, <5>2, <5>4 DEF PipelineTypeOK
        <5> QED BY <5>1, <5>3, <5>4
      <4>6. \/ n < Len(ids) /\ at'[p] = "embed" /\ next'[p] = n + 1
            \/ n = Len(ids) /\ at'[p] = "done"
        <5>1. ~Fail(p)
          BY <1>2 DEF Fail, Generating, PipelineTypeOK
        <5> QED BY <3>2, <3>5, <4>2, <5>1 DEF PointWritten, PipelineTypeOK
      <4> QED BY <1>2, <2>2, <3>2, <4>2, <4>3, <4>5, <4>6 DEF Serving
    <3>6. ~BatchEmbedded(p) /\ ~BatchWritten(p)
      BY <3>1 DEF BatchEmbedded, BatchWritten
    <3>7. ASSUME Ensure(p) \/ Listed(p) \/ Created(p) \/ Raises(p) \/ Crash(p) PROVE FALSE
      <4>1. \E x \in {"down", "ready", "list", "create"} : at' = [at EXCEPT ![p] = x]
        BY <3>7 DEF Ensure, Listed, Created, Raises, Crash, Fail, NextCollection
      <4> QED BY <1>2, <4>1 DEF Generating, PipelineTypeOK
    <3> QED BY <2>1, <3>4, <3>5, <3>6, <3>7 DEF Embedded, Stores
  <2> QED BY <1>2, <2>1, <2>2, StepShape
<1> QED
  BY <1>1, <1>2

-----------------------------------------------------------------------------
(* The jobs that are stored. *)

Stored == {t \in Texts : jobs[t] # None}

LEMMA JobsStep ==
    ASSUME PipelineTypeOK, TasksStarted, ListProgress, JobListsWhole, NEW p \in Processes,
           Embedded(p) \/ Stores(p) \/ Crash(p)
    PROVE  JobListsWhole'
<1>1. /\ \A t \in Stored : jobs[t] = t
      /\ \A t \in Stored : \E l \in JobLists :
           [list |-> l] \in started /\ t \in ToSet(l) /\ ToSet(l) \subseteq Stored
      /\ \A q \in Processes : at[q] = "done" /\ ~IsProfile(task[q]) => ToSet(task[q].list) \subseteq Stored
  BY DEF JobListsWhole, Stored
<1>2. SUFFICES
        /\ \A t \in Stored' : jobs'[t] = t
        /\ \A t \in Stored' : \E l \in JobLists :
             [list |-> l] \in started' /\ t \in ToSet(l) /\ ToSet(l) \subseteq Stored'
        /\ \A q \in Processes : at'[q] = "done" /\ ~IsProfile(task'[q]) => ToSet(task'[q].list) \subseteq Stored'
  BY DEF JobListsWhole, Stored, IsProfile
<1>3. \A q \in Processes \ {p} : at'[q] = at[q] /\ task'[q] = task[q]
  BY StepShape
<1>4. CASE BatchWritten(p)
  <2>1. PICK list : list = task[p].list
    OBVIOUS
  <2>2. /\ [list |-> list] \in started /\ list \in JobLists
        /\ \A t \in Texts : jobs'[t] = IF t \in ToSet(list) THEN t ELSE jobs[t]
    BY <1>4, <2>1, WrittenStep, TaskKinds
  <2>3. ToSet(list) \subseteq Texts
    <3>1. list \in Seq(Texts)
      BY <2>2, PipelineAssumption
    <3> QED BY <3>1, ElementOfSeq, LenProperties DEF ToSet
  <2>4. None \notin Texts
    BY PipelineAssumption
  <2>5. Stored' = Stored \cup ToSet(list)
    BY <2>2, <2>3, <2>4 DEF Stored
  <2>6. started' = started
    BY <1>4 DEF BatchWritten
  <2>7. at'[p] = "done" => task'[p] = task[p]
    BY <1>4 DEF BatchWritten, Fail, PipelineTypeOK
  <2>8. \A t \in Stored' : jobs'[t] = t
    BY <1>1, <2>2, <2>5 DEF Stored
  <2>9. ASSUME NEW t \in Stored'
        PROVE  \E l \in JobLists : [list |-> l] \in started' /\ t \in ToSet(l) /\ ToSet(l) \subseteq Stored'
    <3>1. CASE t \in ToSet(list)
      BY <2>2, <2>5, <2>6, <3>1
    <3>2. CASE t \in Stored
      BY <1>1, <2>5, <2>6, <3>2
    <3> QED BY <2>5, <3>1, <3>2
  <2>10. \A q \in Processes : at'[q] = "done" /\ ~IsProfile(task'[q]) => ToSet(task'[q].list) \subseteq Stored'
    BY <1>1, <1>3, <2>1, <2>5, <2>7
  <2> QED BY <2>8, <2>9, <2>10
<1>5. CASE ~BatchWritten(p)
  <2>1. jobs' = jobs /\ started \subseteq started'
    BY <1>5 DEF Embedded, Stores, Ensure, Listed, Created, Generate, PointEmbedded, BatchEmbedded,
                PointWritten, Raises, Crash
  <2>2. Stored' = Stored
    BY <2>1 DEF Stored
  <2>3. ~(at'[p] = "done" /\ ~IsProfile(task'[p]))
    <3> SUFFICES ASSUME at'[p] = "done", ~IsProfile(task'[p]) PROVE FALSE
      OBVIOUS
    <3>1. CASE PointWritten(p)
      <4>1. ~Fail(p)
        BY DEF Fail, PipelineTypeOK
      <4> QED BY <3>1, <4>1 DEF PointWritten
    <3>2. ASSUME ~PointWritten(p) PROVE FALSE
      <4>1. \E x \in {"down", "ready", "list", "create", "embed", "upsert"} : at' = [at EXCEPT ![p] = x]
        BY <1>5, <3>2 DEF Embedded, Stores, Ensure, Listed, Created, Generate, PointEmbedded, BatchEmbedded,
                          Raises, Crash, Fail, NextCollection
      <4> QED BY <4>1 DEF PipelineTypeOK
    <3> QED BY <3>1, <3>2
  <2>4. \A q \in Processes : at'[q] = "done" /\ ~IsProfile(task'[q]) => ToSet(task'[q].list) \subseteq Stored'
    BY <1>1, <1>3, <2>2, <2>3
  <2> QED BY <1>1, <2>1, <2>2, <2>4
<1> QED
  BY <1>4, <1>5

LEMMA PInvStep == PInv /\ [PipelineNext]_pipelineVars => PInv'
<1> SUFFICES ASSUME PInv, [PipelineNext]_pipelineVars PROVE PInv'
  OBVIOUS
<1>1. ASSUME NEW p \in Processes, Embedded(p) \/ Stores(p) \/ Crash(p) PROVE PInv'
  <2>1. PipelineTypeOK /\ SetupSound /\ TasksStarted /\ ProfileProgress /\ ListProgress /\ JobListsWhole
    BY DEF PInv
  <2>2. PipelineTypeOK'
    BY <1>1, <2>1, TypeStep
  <2>3. SetupSound'
    BY <1>1, <2>1, SetupStep
  <2>4. TasksStarted'
    BY <1>1, <2>1, StartedStep
  <2>5. ProfileProgress'
    BY <1>1, <2>1, ProfileStep
  <2>6. ListProgress'
    BY <1>1, <2>1, ListStep
  <2>7. JobListsWhole'
    BY <1>1, <2>1, JobsStep
  <2> QED BY <2>2, <2>3, <2>4, <2>5, <2>6, <2>7 DEF PInv
<1>2. CASE UNCHANGED pipelineVars
  <2> USE <1>2 DEF pipelineVars, PInv
  <2>1. PipelineTypeOK'
    BY DEF PipelineTypeOK
  <2>2. SetupSound' /\ TasksStarted'
    BY DEF SetupSound, TasksStarted, Generating
  <2>3. ProfileProgress'
    BY DEF ProfileProgress, Generating, Serving, Sure, IsProfile
  <2>4. ListProgress'
    BY DEF ListProgress, Serving, IsProfile
  <2>5. JobListsWhole'
    BY DEF JobListsWhole, IsProfile
  <2> QED BY <2>1, <2>2, <2>3, <2>4, <2>5
<1> QED
  BY <1>1, <1>2 DEF PipelineNext

(* The parser, the gateway's totals and the crashes beside them leave the   *)
(* pipeline what it is.                                                     *)
THEOREM PipelineBehaves == Spec => PipelineSpec
<1>1. Init => PipelineInit
  BY DEF Init
<1>2. [Next]_vars => [PipelineNext]_pipelineVars
  <2> SUFFICES ASSUME Next PROVE PipelineNext \/ UNCHANGED pipelineVars
    BY DEF vars
  <2>1. ASSUME NEW r \in Runs, (\E d \in Documents : Execute(r, d)) \/ CompletionAnswers(r) \/ CompletionFails(r)
        PROVE  UNCHANGED pipelineVars
    BY <2>1 DEF Execute, CompletionAnswers, CompletionFails
  <2>2. ASSUME NEW p \in Processes, EmbeddingAnswers(p) \/ Stores(p) \/ Restart(p)
        PROVE  PipelineNext
    BY <2>2 DEF EmbeddingAnswers, Restart, PipelineNext
  <2> QED BY <2>1, <2>2 DEF Next
<1> QED
  BY <1>1, <1>2, PTL DEF Spec, PipelineSpec

LEMMA PipelineInvariant == Spec => []PInv
BY PInvInit, PInvStep, PipelineBehaves, PTL DEF PipelineSpec

(* A process past ensure_collections finds both collections, however many   *)
(* processes race, fail or die in their setup.                              *)
THEOREM CollectionsAreComplete == Spec => []SetupComplete
<1>1. PInv => SetupComplete
  BY DEF PInv, SetupSound, SetupComplete
<1> QED
  BY <1>1, PipelineInvariant, PTL

(* A finished generation of a profile, undisturbed or among generations of  *)
(* the same profile, has all its points in the store.                       *)
THEOREM FinishedProfilesAreStored == Spec => []FinishedGenerationVisible
<1>1. PInv => FinishedGenerationVisible
  <2> SUFFICES ASSUME PInv, NEW p \in Processes, at[p] = "done", IsProfile(task[p]),
                      p \in alone \/ started \cap ProfileTasks = {task[p]},
                      NEW i \in ToSet(Points(task[p].profile))
               PROVE  store[i] = task[p].profile
    BY DEF FinishedGenerationVisible
  <2>1. \A k \in 1..Len(Points(task[p].profile)) : store[Points(task[p].profile)[k]] = task[p].profile
    BY DEF PInv, ProfileProgress, Generating, Serving, Sure
  <2>2. task[p].profile \in Profiles
    BY TaskKinds DEF PInv, PipelineTypeOK
  <2>3. DOMAIN Points(task[p].profile) = 1..Len(Points(task[p].profile))
    BY <2>2, PointsOfProfile, LenProperties
  <2> QED BY <2>1, <2>3 DEF ToSet
<1> QED
  BY <1>1, PipelineInvariant, PTL

(* What is stored of jobs are whole lists, every vector with its own text,  *)
(* for every size of a batch and whatever failed between the batches.       *)
THEOREM JobListsAreWhole == Spec => []JobListsWhole
<1>1. PInv => JobListsWhole
  BY DEF PInv
<1> QED
  BY <1>1, PipelineInvariant, PTL

-----------------------------------------------------------------------------
(* The parser's results. *)

(* The inductive invariant: only a document with text is ever awaited at    *)
(* the provider, and what a run reports is what it recorded as its cost.    *)
RInv ==
    /\ step \in [Runs -> {"idle", "llm", "done"}]
    /\ result \in [Runs -> [success : BOOLEAN, profile : {"none", "minimal", "parsed"}, tokens : Nat]]
    /\ DOMAIN document = Runs
    /\ DOMAIN used = Runs
    /\ \A r \in Runs : step[r] = "llm" => Method(document[r]) # "vision_needed"
    /\ ResultContract

LEMMA RInvStep == RInv /\ [Next]_vars => RInv'
<1> SUFFICES ASSUME RInv, [Next]_vars PROVE RInv'
  OBVIOUS
<1> DEFINE Results == [success : BOOLEAN, profile : {"none", "minimal", "parsed"}, tokens : Nat]
           Sound(res, d, u) ==
             \/ res.profile = "none" /\ ~res.success /\ res.tokens = 0
             \/ res.profile = "minimal" /\ res.success /\ res.tokens = 0 /\ Method(d) = "vision_needed"
             \/ res.profile = "parsed" /\ res.success /\ res.tokens = u /\ Method(d) # "vision_needed"
<1>1. /\ step \in [Runs -> {"idle", "llm", "done"}]
      /\ result \in [Runs -> Results]
      /\ DOMAIN document = Runs /\ DOMAIN used = Runs
      /\ \A r \in Runs : step[r] = "llm" => Method(document[r]) # "vision_needed"
      /\ \A r \in Runs : step[r] = "done" => Sound(result[r], document[r], used[r])
  BY DEF RInv, ResultContract
<1>2. ASSUME step' \in [Runs -> {"idle", "llm", "done"}],
             result' \in [Runs -> Results],
             DOMAIN document' = Runs, DOMAIN used' = Runs,
             \A r \in Runs : step'[r] = "llm" => Method(document'[r]) # "vision_needed",
             \A r \in Runs : step'[r] = "done" => Sound(result'[r], document'[r], used'[r])
      PROVE  RInv'
  BY <1>2 DEF RInv, ResultContract, Method
<1> HIDE DEF Results, Sound
(* A run that ends with a result that is true of it. *)
<1>3. ASSUME NEW r \in Runs, NEW res \in Results, NEW called, Conclude(r, res, called),
             DOMAIN document' = Runs, DOMAIN used' = Runs,
             \A q \in Runs \ {r} : document'[q] = document[q] /\ used'[q] = used[q],
             Sound(res, document'[r], used'[r])
      PROVE  RInv'
  <2>1. /\ step' = [step EXCEPT ![r] = "done"]
        /\ result' = [result EXCEPT ![r] = res]
    BY <1>3 DEF Conclude
  <2>2. step' \in [Runs -> {"idle", "llm", "done"}] /\ result' \in [Runs -> Results]
    BY <1>1, <1>3, <2>1
  <2>3. ASSUME NEW q \in Runs
        PROVE  /\ step'[q] = "llm" => Method(document'[q]) # "vision_needed"
               /\ step'[q] = "done" => Sound(result'[q], document'[q], used'[q])
    BY <1>1, <1>3, <2>1
  <2> QED BY <1>2, <1>3, <2>2, <2>3
<1>4. Failure \in Results /\ \A d, u : Sound(Failure, d, u)
  BY DEF Results, Sound, Failure
<1>5. ASSUME NEW r \in Runs, NEW d \in Documents, Execute(r, d) PROVE RInv'
  <2>1. /\ document' = [document EXCEPT ![r] = d] /\ used' = used
        /\ DOMAIN document' = Runs /\ DOMAIN used' = Runs /\ document'[r] = d
        /\ \A q \in Runs \ {r} : document'[q] = document[q] /\ used'[q] = used[q]
    BY <1>1, <1>5 DEF Execute
  <2>2. CASE \E called : Conclude(r, Failure, called)
    BY <1>3, <1>4, <2>1, <2>2
  <2>3. CASE Method(d) = "vision_needed" /\ \E called : Conclude(r, Success("minimal", 0), called)
    <3>1. Success("minimal", 0) \in Results /\ Sound(Success("minimal", 0), d, used[r])
      BY <2>3 DEF Success, Results, Sound
    <3> QED BY <1>3, <2>1, <2>3, <3>1
  <2>4. CASE Method(d) # "vision_needed" /\ step' = [step EXCEPT ![r] = "llm"] /\ UNCHANGED result
    <3>1. /\ step' \in [Runs -> {"idle", "llm", "done"}] /\ step'[r] = "llm"
          /\ \A q \in Runs \ {r} : step'[q] = step[q]
      BY <1>1, <2>4
    <3>2. result' \in [Runs -> Results]
      BY <1>1, <2>4
    <3>3. ASSUME NEW q \in Runs
          PROVE  /\ step'[q] = "llm" => Method(document'[q]) # "vision_needed"
                 /\ step'[q] = "done" => Sound(result'[q], document'[q], used'[q])
      BY <1>1, <2>1, <2>4, <3>1
    <3> QED BY <1>2, <2>1, <3>1, <3>2, <3>3
  <2> QED BY <1>5, <2>2, <2>3, <2>4 DEF Execute
<1>6. ASSUME NEW r \in Runs, CompletionAnswers(r) PROVE RInv'
  <2>1. PICK use \in Uses, content \in Contents :
          used' = [used EXCEPT ![r] = use.prompt + use.completion] /\ Report(r, content, use)
    BY <1>6 DEF CompletionAnswers
  <2>2. /\ document' = document /\ DOMAIN document' = Runs /\ DOMAIN used' = Runs
        /\ used'[r] = use.prompt + use.completion
        /\ \A q \in Runs \ {r} : document'[q] = document[q] /\ used'[q] = used[q]
    BY <1>1, <1>6, <2>1 DEF CompletionAnswers
  <2>3. use.prompt + use.completion \in Nat
    BY IntakeAssumption
  <2>4. Method(document[r]) # "vision_needed"
    BY <1>1, <1>6 DEF CompletionAnswers
  <2>5. CASE Conclude(r, Failure, {"on_error"})
    BY <1>3, <1>4, <2>1, <2>2, <2>5
  <2>6. CASE Conclude(r, Success("parsed", use.prompt + use.completion), {"on_end"})
    <3>1. /\ Success("parsed", use.prompt + use.completion) \in Results
          /\ Sound(Success("parsed", use.prompt + use.completion), document[r], use.prompt + use.completion)
      BY <2>3, <2>4 DEF Success, Results, Sound
    <3> QED BY <1>3, <2>1, <2>2, <2>6, <3>1
  <2> QED BY <2>1, <2>5, <2>6 DEF Report
<1>7. ASSUME NEW r \in Runs, CompletionFails(r) PROVE RInv'
  <2>1. document' = document /\ used' = used /\ Conclude(r, Failure, {"on_error"})
    BY <1>7 DEF CompletionFails
  <2> QED BY <1>1, <1>3, <1>4, <2>1
<1>8. CASE UNCHANGED runVars
  BY <1>1, <1>2, <1>8 DEF runVars
<1>9. ASSUME NEW p \in Processes, Restart(p) PROVE RInv'
  <2>1. CASE UNCHANGED <<runVars, totals>>
    BY <1>8, <2>1
  <2>2. CASE /\ step' = [r \in Runs |-> IF step[r] = "llm" THEN "idle" ELSE step[r]]
             /\ UNCHANGED <<document, result, used>>
    <3>1. /\ step' \in [Runs -> {"idle", "llm", "done"}]
          /\ \A r \in Runs : step'[r] # "llm" /\ (step'[r] = "done" => step[r] = "done")
      BY <1>1, <2>2
    <3> QED BY <1>1, <1>2, <2>2, <3>1
  <2> QED BY <1>9, <2>1, <2>2 DEF Restart
<1> QED
  <2>1. CASE UNCHANGED vars
    BY <1>8, <2>1 DEF vars
  <2>2. ASSUME NEW r \in Runs, (\E d \in Documents : Execute(r, d)) \/ CompletionAnswers(r) \/ CompletionFails(r)
        PROVE  RInv'
    BY <1>5, <1>6, <1>7, <2>2
  <2>3. ASSUME NEW p \in Processes, EmbeddingAnswers(p) \/ (Stores(p) /\ UNCHANGED <<runVars, totals>>) \/ Restart(p)
        PROVE  RInv'
    <3>1. CASE Restart(p)
      BY <1>9, <3>1
    <3>2. CASE UNCHANGED runVars
      BY <1>8, <3>2
    <3> QED BY <2>3, <3>1, <3>2 DEF EmbeddingAnswers
  <2> QED BY <2>1, <2>2, <2>3 DEF Next

(* A run reports the tokens of its own call although all runs of a process  *)
(* share the gateway's totals; a failure and a minimal profile report none. *)
THEOREM ResultsAreTrue == Spec => []ResultContract
<1>1. Init => RInv
  BY DEF Init, RInv, ResultContract, Failure
<1>2. RInv => ResultContract
  BY DEF RInv
<1> QED
  BY <1>1, <1>2, RInvStep, PTL DEF Spec

-----------------------------------------------------------------------------
(* Sets and numbers. *)

LEMMA IntervalSize ==
    ASSUME NEW n \in Nat
    PROVE  IsFiniteSet(1..n) /\ Cardinality(1..n) = n
<1>1. IsFiniteSet(1..n) /\ Cardinality(1..n) = IF 1 > n THEN 0 ELSE n - 1 + 1
  BY FS_Interval
<1> QED BY <1>1

(* What a function makes of finitely many values is finitely many. *)
LEMMA FiniteImage ==
    ASSUME NEW S, IsFiniteSet(S), NEW f
    PROVE  /\ IsFiniteSet({f[x] : x \in S})
           /\ Cardinality({f[x] : x \in S}) <= Cardinality(S)
<1> DEFINE T == {f[x] : x \in S}
           g == [x \in S |-> f[x]]
<1>1. g \in Surjection(S, T)
  BY DEF Surjection
<1> HIDE DEF g, T
<1>2. IsFiniteSet(T) /\ Cardinality(T) <= Cardinality(S)
  BY <1>1, FS_Surjection
<1> QED BY <1>2 DEF T

-----------------------------------------------------------------------------
(* Skills. *)

LEMMA WeightBounds == \A x, y : Weight(x, y) \in SUBSET (0..100)
<1> SUFFICES ASSUME NEW x, NEW y, NEW e \in Edges PROVE e[3] \in 0..100
  BY DEF Weight
<1> QED BY DEF Edges

(* A skill is worth at most itself, whatever the tables hold. *)
LEMMA AdjacencyBounds ==
    ASSUME NEW a, NEW b
    PROVE  Adjacency(a, b) \in 0..100 /\ Adjacency(a, a) = 100
<1> DEFINE x == Canonicalize(a)
           y == Canonicalize(b)
           S == {0} \cup Weight(x, y)
<1>1. S \in SUBSET (0..100) /\ S # {}
  BY WeightBounds
<1> HIDE DEF S
<1>2. Max(S) \in 0..100
  BY <1>1, LargestNumber
<1> QED BY <1>2 DEF Adjacency, S

LEMMA BestBounds ==
    ASSUME NEW own, NEW s
    PROVE  Best(own, s) \in 0..100
<1> DEFINE S == {0} \cup {Adjacency(t, s) : t \in own}
<1>1. S \in SUBSET (0..100) /\ S # {}
  BY AdjacencyBounds
<1> HIDE DEF S
<1>2. Max(S) \in 0..100
  BY <1>1, LargestNumber
<1> QED BY <1>2 DEF Best, S

(* The credits of n skills are at most 100 n percents. *)
LEMMA CreditBounds ==
    ASSUME NEW own, NEW S, IsFiniteSet(S)
    PROVE  /\ IsFiniteSet(Credits(own, S))
           /\ Cardinality(Credits(own, S)) \in Nat
           /\ Cardinality(Credits(own, S)) <= 100 * Cardinality(S)
<1>1. Credits(own, S) \in SUBSET (S \X (1..100))
  <2> SUFFICES ASSUME NEW s \in S, NEW p \in {s} \X (1..Best(own, s))
               PROVE  p \in S \X (1..100)
    BY DEF Credits
  <2>1. Best(own, s) \in 0..100
    BY BestBounds
  <2>2. PICK k \in 1..Best(own, s) : p = <<s, k>>
    OBVIOUS
  <2>3. k \in 1..100
    BY <2>1, <2>2
  <2> QED BY <2>2, <2>3
<1>2. IsFiniteSet(1..100) /\ Cardinality(1..100) = 100
  <2>1. 100 \in Nat
    OBVIOUS
  <2> QED BY <2>1, IntervalSize
<1>3. IsFiniteSet(S \X (1..100)) /\ Cardinality(S \X (1..100)) = Cardinality(S) * Cardinality(1..100)
  BY <1>2, FS_Product
<1>4. /\ IsFiniteSet(Credits(own, S))
      /\ Cardinality(Credits(own, S)) <= Cardinality(S \X (1..100))
  BY <1>1, <1>3, FS_Subset
<1>5. Cardinality(Credits(own, S)) \in Nat /\ Cardinality(S) \in Nat
  BY <1>4, FS_CardinalityType
<1>6. Cardinality(S \X (1..100)) = 100 * Cardinality(S)
  BY <1>2, <1>3, <1>5
<1> QED BY <1>4, <1>5, <1>6

(* A finite list of skills has finitely many canonical ones. *)
LEMMA CanonicalFinite ==
    ASSUME NEW S, IsFiniteSet(S)
    PROVE  IsFiniteSet(Canonical(S)) /\ IsFiniteSet(Asked(S))
<1> DEFINE N == [s \in S |-> NormalizeSkill(s)]
           T == S \cup NormalizeSkills(S)
           C == [s \in T |-> Canonicalize(s)]
<1>1. NormalizeSkills(S) = {N[s] : s \in S}
  BY DEF NormalizeSkills
<1>2. IsFiniteSet(NormalizeSkills(S))
  <2> HIDE DEF N
  <2> QED BY <1>1, FiniteImage
<1>3. IsFiniteSet(T)
  BY <1>2, FS_Union
<1>4. Canonical(S) = {C[s] : s \in T} /\ Asked(S) = {C[s] : s \in S}
  BY DEF Canonical, Asked
<1> HIDE DEF T, C
<1>5. IsFiniteSet({C[s] : s \in T}) /\ IsFiniteSet({C[s] : s \in S})
  BY <1>3, FiniteImage
<1> QED BY <1>4, <1>5

-----------------------------------------------------------------------------
(* Shares.  Divisions round down, so what they lose is on the safe side.    *)

LEMMA QuotientBounds ==
    ASSUME NEW a \in Nat, NEW n \in Nat \ {0}
    PROVE  a \div n \in Nat /\ n * (a \div n) <= a /\ a < n * (a \div n) + n
OBVIOUS

LEMMA SmallerFactor ==
    ASSUME NEW n \in Nat \ {0}, NEW x \in Nat, NEW y \in Nat, n * x <= y * n
    PROVE  x <= y
<1> SUFFICES ASSUME x > y PROVE FALSE
  OBVIOUS
<1>1. x - y \in Nat \ {0} /\ n * x = n * y + n * (x - y)
  OBVIOUS
<1>2. n * (x - y) >= n
  BY <1>1
<1> QED BY <1>1, <1>2

LEMMA SmallerDivisor ==
    ASSUME NEW a \in Nat, NEW n \in Nat \ {0}, NEW m \in Nat, n <= m
    PROVE  a \div m <= a \div n
OBVIOUS

LEMMA UnitType == Unit \in Nat \ {0} /\ Unit = Percent(100)
BY SMT DEF Unit, Percent

LEMMA PercentType == \A p \in Nat : Percent(p) \in Nat
BY SMT DEF Unit, Percent

LEMMA PercentOrder == \A p, q \in Nat : p <= q => Percent(p) <= Percent(q)
BY SMT DEF Unit, Percent

LEMMA PercentOfUnit == \A p \in Nat : 100 * Percent(p) = p * Unit
BY SMT DEF Unit, Percent

LEMMA ProductOrder ==
    ASSUME NEW a \in Nat, NEW b \in Nat, NEW k \in Nat, a <= b
    PROVE  a * k \in Nat /\ a * k <= b * k
<1>1. PICK d \in Nat : b = a + d
  <2>1. b - a \in Nat /\ b = a + (b - a)
    OBVIOUS
  <2> QED BY <2>1
<1>2. b * k = a * k + d * k /\ d * k \in Nat /\ a * k \in Nat
  BY <1>1
<1> QED BY <1>2

LEMMA PercentBounds == \A p \in 0..100 : Percent(p) \in 0..Unit
BY UnitType, PercentType, PercentOrder

(* Half of the asked skills: what a share of at least a half says. *)
LEMMA HalfShare ==
    ASSUME NEW n \in Nat \ {0}, NEW k \in Nat, (Unit \div n) * k >= Percent(50)
    PROVE  2 * k >= n
<1> DEFINE q == Unit \div n
<1>1. q \in Nat /\ n * q <= Unit
  BY UnitType, QuotientBounds
<1>2. Unit = 2 * Percent(50) /\ Percent(50) \in Nat \ {0}
  BY SMT DEF Unit, Percent
<1> DEFINE h == Percent(50)
<1>3. n * q <= 2 * h /\ h \in Nat \ {0} /\ q * k >= h
  BY <1>1, <1>2
<1> HIDE DEF q, h
<1>4. n * (q * k) <= (2 * h) * k
  <2>1. (n * q) * k <= (2 * h) * k
    BY <1>1, <1>3
  <2> QED BY <2>1, <1>1
<1>5. n * h <= n * (q * k)
  BY <1>1, <1>3
<1>6. n * h <= (2 * k) * h
  BY <1>1, <1>3, <1>4, <1>5
<1> QED BY <1>3, <1>6

(* The hard match and the adjacency credit share one Unit: a skill that is  *)
(* matched gives no credit.                                                 *)
LEMMA MatchAndCredit ==
    ASSUME NEW own, NEW asked, IsFiniteSet(own), IsFiniteSet(asked), asked # {}
    PROVE  /\ Jaccard(own, asked) \in Nat
           /\ AdjacencyCredit(own, asked) \in Nat
           /\ Jaccard(own, asked) + AdjacencyCredit(own, asked) <= Unit
<1> DEFINE n == Cardinality(asked)
           i == Cardinality(own \cap asked)
           r == Cardinality(asked \ own)
           m == Cardinality(own \cup asked)
           c == Cardinality(Credits(own, asked \ own))
<1>1. /\ n \in Nat \ {0} /\ i \in Nat /\ r \in Nat /\ m \in Nat
      /\ n = i + r /\ n <= m
  <2>1. IsFiniteSet(own \cap asked) /\ IsFiniteSet(asked \ own) /\ IsFiniteSet(own \cup asked)
    BY FS_Subset, FS_Union, FS_Intersection, FS_Difference
  <2>2. n \in Nat /\ i \in Nat /\ r \in Nat /\ m \in Nat
    BY <2>1, FS_CardinalityType
  <2>3. n # 0
    BY FS_EmptySet
  <2>4. n <= m
    <3>1. asked \in SUBSET (own \cup asked)
      OBVIOUS
    <3> QED BY <2>1, <3>1, FS_Subset
  <2>5. n = i + r
    <3> DEFINE X == own \cap asked
               Y == asked \ own
    <3>1. X \cup Y = asked /\ X \cap Y = {}
      OBVIOUS
    <3>2. IsFiniteSet(X) /\ IsFiniteSet(Y)
      BY <2>1
    <3> HIDE DEF X, Y
    <3>3. Cardinality(X \cup Y) = Cardinality(X) + Cardinality(Y) - Cardinality(X \cap Y)
      BY <3>2, FS_Union
    <3>4. Cardinality(X \cap Y) = 0
      BY <3>1, FS_EmptySet
    <3>5. Cardinality(X) \in Nat /\ Cardinality(Y) \in Nat
      BY <3>2, FS_CardinalityType
    <3>6. Cardinality(X \cup Y) = Cardinality(asked)
      BY <3>1
    <3>7. Cardinality(asked) = Cardinality(X) + Cardinality(Y)
      BY <3>3, <3>4, <3>5, <3>6
    <3> QED BY <3>7 DEF X, Y
  <2> QED BY <2>2, <2>3, <2>4, <2>5
<1>2. c \in Nat /\ c <= 100 * r
  <2>1. IsFiniteSet(asked \ own)
    BY FS_Difference
  <2> QED BY <2>1, CreditBounds
<1>3. /\ Jaccard(own, asked) = (Unit \div m) * i
      /\ AdjacencyCredit(own, asked) = Percent(c) \div n
  BY DEF Jaccard, Share, AdjacencyCredit
<1> HIDE DEF n, i, r, m, c
<1> DEFINE u == Unit
           p == Percent(c)
           J == u \div m
           K == u \div n
           A == p \div n
<1>4. u \in Nat /\ p \in Nat /\ p <= r * u
  BY <1>1, <1>2, SMT DEF Unit, Percent
<1> HIDE DEF u, p
<1>5. J \in Nat /\ J <= K /\ K \in Nat /\ n * K <= u /\ A \in Nat /\ n * A <= p
  <2>1. m \in Nat \ {0}
    BY <1>1
  <2>2. J \in Nat /\ K \in Nat /\ n * K <= u /\ A \in Nat /\ n * A <= p
    BY <1>1, <1>4, <2>1, QuotientBounds
  <2>3. J <= K
    BY <1>1, <1>4, SmallerDivisor
  <2> QED BY <2>2, <2>3
<1> HIDE DEF J, K, A
<1>6. J * i \in Nat /\ J * i <= K * i
  BY <1>1, <1>5
<1>7. n * (K * i) <= u * i
  <2>1. (n * K) * i <= u * i
    BY <1>1, <1>4, <1>5
  <2> QED BY <2>1, <1>1, <1>5
<1>8. n * (K * i + A) <= u * n
  <2>1. n * (K * i + A) = n * (K * i) + n * A
    BY <1>1, <1>5
  <2>2. u * n = u * i + r * u
    BY <1>1, <1>4
  <2> QED BY <2>1, <2>2, <1>1, <1>4, <1>5, <1>7
<1>9. K * i + A <= u
  <2>1. K * i + A \in Nat
    BY <1>1, <1>5
  <2> DEFINE z == K * i + A
  <2>2. z \in Nat /\ n * z <= u * n
    BY <2>1, <1>8
  <2> HIDE DEF z
  <2>3. z <= u
    BY <1>1, <1>4, <2>2, SmallerFactor
  <2> QED BY <2>3 DEF z
<1>10. Jaccard(own, asked) = J * i /\ AdjacencyCredit(own, asked) = A /\ u = Unit
  BY <1>3 DEF J, A, u, p
<1>11. J * i + A <= u
  <2>1. K * i \in Nat
    BY <1>1, <1>5
  <2> QED BY <2>1, <1>4, <1>5, <1>6, <1>9
<1> QED BY <1>5, <1>6, <1>10, <1>11

-----------------------------------------------------------------------------
(* The signals. *)

LEMMA CosineBounds ==
    ASSUME NEW v \in Optional(0..100)
    PROVE  /\ Cosine(v) \in Nat /\ Cosine(v) <= Unit
           /\ Cosine(v) > 0 => v # Missing /\ v > 0
<1>1. Percent(0) = 0
  BY SMT DEF Percent, Unit
<1>2. CASE v = Missing
  BY <1>2, UnitType DEF Cosine
<1>3. CASE v \in 0..100 /\ v # Missing
  <2>1. Cosine(v) = Percent(v)
    BY <1>3 DEF Cosine
  <2>2. Percent(v) \in Nat /\ Percent(v) <= Percent(100)
    BY <1>3, PercentType, PercentOrder
  <2>3. Percent(v) > 0 => v > 0
    BY <1>1, <1>3
  <2> QED BY <1>3, <2>1, <2>2, <2>3, UnitType
<1> QED BY <1>2, <1>3 DEF Optional

LEMMA SkillSets ==
    ASSUME NEW r, Scorable(r)
    PROVE  IsFiniteSet(Own(r.candidate)) /\ IsFiniteSet(AllAsked(r.job))
BY CanonicalFinite DEF Scorable, Own, AllAsked

(* The skills signal never gets beyond the 40 % that match and credit share *)
(* and the 20 % of the cosine.                                              *)
LEMMA SkillsBounds ==
    ASSUME NEW r, Scorable(r)
    PROVE  LET s == SkillsSignal(r.candidate, r.job, r.views.skills)
           IN  s \in Nat /\ s <= Percent(60)
<1> DEFINE own == Own(r.candidate)
           asked == AllAsked(r.job)
           J == Jaccard(own, asked)
           A == AdjacencyCredit(own, asked)
           C == Cosine(r.views.skills)
           s == SkillsSignal(r.candidate, r.job, r.views.skills)
<1>1. CASE asked = {}
  <2>1. s = Percent(50)
    BY <1>1 DEF SkillsSignal
  <2> QED BY <2>1, PercentType, PercentOrder
<1>2. CASE asked # {}
  <2>1. J \in Nat /\ A \in Nat /\ J + A <= Unit
    BY <1>2, SkillSets, MatchAndCredit
  <2>2. C \in Nat /\ C <= Unit
    <3>1. r.views.skills \in Optional(0..100)
      BY DEF Scorable, Views
    <3> QED BY <3>1, CosineBounds
  <2>3. s = (40 * J + 40 * A + 20 * C) \div 100
    BY <1>2 DEF SkillsSignal
  <2> HIDE DEF J, A, C, s
  <2>4. 100 * Percent(60) = 60 * Unit
    BY SMT DEF Percent, Unit
  <2>5. (40 * J + 40 * A + 20 * C) \div 100 <= Percent(60)
    BY <2>1, <2>2, <2>4, PercentType, UnitType
  <2>6. (40 * J + 40 * A + 20 * C) \div 100 \in Nat
    BY <2>1, <2>2
  <2>7. s \in Nat /\ s <= Percent(60)
    BY <2>3, <2>5, <2>6
  <2> QED BY <2>7 DEF s
<1> QED BY <1>1, <1>2

LEMMA ToSetFinite ==
    ASSUME NEW T, NEW s \in Seq(T)
    PROVE  IsFiniteSet(ToSet(s))
<1>1. IsFiniteSet(DOMAIN s)
  BY LenProperties, FS_Interval
<1> QED BY <1>1, FiniteImage DEF ToSet

LEMMA RoleBounds ==
    ASSUME NEW role \in Seq(STRING), NEW title \in Seq(STRING)
    PROVE  RoleMatch(role, title) \in 0..Unit
<1> DEFINE R == ToSet(role)
           T == ToSet(title)
           c == Cardinality(R \cap T)
           l == Max({Cardinality(R), Cardinality(T)})
           a == IF Overlaps(role, title) THEN Percent(70) ELSE 0
           b == IF R \cap T = {} THEN 0 ELSE (Percent(80) \div l) * c
<1>1. IsFiniteSet(R) /\ IsFiniteSet(T)
  BY ToSetFinite
<1> HIDE DEF R, T
<1>2. /\ Cardinality(R) \in Nat /\ Cardinality(T) \in Nat /\ c \in Nat
      /\ c <= Cardinality(R) /\ IsFiniteSet(R \cap T)
  BY <1>1, FS_CardinalityType, FS_Intersection
<1>3. l \in Nat /\ Cardinality(R) <= l
  <2> DEFINE S == {Cardinality(R), Cardinality(T)}
             n == Cardinality(R) + Cardinality(T)
  <2>1. n \in Nat /\ S \in SUBSET (0..n) /\ S # {} /\ Cardinality(R) \in S /\ S \in SUBSET Nat
    BY <1>2
  <2> HIDE DEF n, S
  <2>2. Max(S) \in S /\ \A i \in S : Max(S) >= i
    BY <2>1, LargestNumber
  <2>3. Max(S) \in Nat /\ Max(S) >= Cardinality(R)
    BY <2>1, <2>2
  <2>4. l = Max(S)
    BY DEF S
  <2> QED BY <1>2, <2>3, <2>4
<1>4. a \in 0..Unit
  <2>1. Percent(70) \in 0..Unit
    BY PercentBounds
  <2> QED BY <2>1, UnitType
<1>5. b \in 0..Unit
  <2>1. CASE R \cap T = {}
    BY <2>1, UnitType
  <2>2. CASE R \cap T # {}
    <3> DEFINE p == Percent(80)
               q == p \div l
    <3>1. c # 0
      BY <1>2, <2>2, FS_EmptySet
    <3>2. l \in Nat \ {0} /\ c <= l
      BY <1>2, <1>3, <3>1
    <3>3. p \in Nat /\ p <= Unit
      <4>1. p \in 0..Unit
        BY PercentBounds
      <4> QED BY <4>1, UnitType
    <3>4. q \in Nat /\ l * q <= p
      BY <3>2, <3>3, QuotientBounds
    <3>5. b = q * c
      BY <2>2
    <3> HIDE DEF b, c, l, p, q
    <3>6. q * c \in Nat /\ q * c <= l * q
      <4>1. c \in Nat /\ l \in Nat /\ q \in Nat /\ c <= l
        BY <1>2, <3>2, <3>4
      <4>2. c * q \in Nat /\ c * q <= l * q
        BY <4>1, ProductOrder
      <4>3. c * q = q * c
        BY <4>1
      <4> QED BY <4>2, <4>3
    <3>7. b \in Nat /\ b <= Unit
      <4> DEFINE y == l * q
      <4>1. b \in Nat /\ b <= y
        BY <3>5, <3>6
      <4>2. y \in Nat /\ y <= p
        BY <3>2, <3>4
      <4> HIDE DEF y
      <4> QED BY <3>3, <4>1, <4>2, UnitType
    <3> QED BY <3>7, UnitType
  <2> QED BY <2>1, <2>2
<1>6. Max({a, b}) \in 0..Unit
  <2> DEFINE S == {a, b}
  <2> HIDE DEF a, b
  <2>1. S \in SUBSET (0..Unit) /\ S # {}
    BY <1>4, <1>5
  <2> HIDE DEF S
  <2>2. Max(S) \in S
    BY <2>1, UnitType, LargestNumber
  <2> QED BY <2>1, <2>2 DEF S
<1> QED BY <1>6 DEF RoleMatch, R, T

LEMMA TitleBounds ==
    ASSUME NEW r, Scorable(r)
    PROVE  TitleSignal(r.candidate, r.job, r.views.title) \in 0..Unit
<1> DEFINE S == {0} \cup {RoleMatch(e, r.job.title) : e \in r.candidate.roles}
<1>1. /\ r.views.title \in Optional(0..100) /\ r.job.title \in Seq(STRING)
      /\ \A e \in r.candidate.roles : e \in Seq(STRING)
  BY DEF Scorable, Views, JobDescription, CandidateProfile
<1>2. Cosine(r.views.title) \in 0..Unit
  BY <1>1, CosineBounds, UnitType
<1>3. S \in SUBSET (0..Unit) /\ S # {}
  BY <1>1, RoleBounds, UnitType
<1> HIDE DEF S
<1>4. Max(S) \in 0..Unit
  BY <1>3, UnitType, LargestNumber
<1> QED BY <1>2, <1>4, UnitType DEF TitleSignal, S

LEMMA ExperienceBounds ==
    ASSUME NEW r, Scorable(r)
    PROVE  ExperienceSignal(r.candidate, r.job) \in 0..Unit
<1>1. \A y : Decay(y) \in 0..Unit
  <2>1. \A y \in DOMAIN Decays : Decays[y] \in Nat /\ Decays[y] <= Unit
    BY SMT DEF Decays, Unit
  <2> QED BY <2>1, UnitType DEF Decay
<1>2. Percent(50) \in 0..Unit /\ Percent(80) \in 0..Unit /\ Unit \in 0..Unit
  BY UnitType, PercentType, PercentOrder
<1> QED BY <1>1, <1>2 DEF ExperienceSignal

LEMMA OtherBounds ==
    ASSUME NEW r, Scorable(r)
    PROVE  /\ CompanySignal(r.candidate, r.job) \in 0..Unit
           /\ LocationSignal(r.candidate, r.job) \in 0..Unit
           /\ RecencySignal(r.job) \in 0..Unit
           /\ SourceSignal(r.job) \in 0..Unit
<1>1. \A p \in 0..100 : Percent(p) \in 0..Unit
  BY PercentBounds
<1>2. /\ {Percent(10), Percent(40), Percent(50), Percent(70), Percent(90)} \subseteq 0..Unit
      /\ Unit \in 0..Unit /\ 0 \in 0..Unit
  BY <1>1, UnitType
<1>3. CompanySignal(r.candidate, r.job) \in 0..Unit
  BY <1>2 DEF CompanySignal
<1>4. LocationSignal(r.candidate, r.job) \in 0..Unit
  BY <1>2 DEF LocationSignal
<1>5. RecencySignal(r.job) \in 0..Unit
  <2>1. \A k \in DOMAIN Halves : Halves[k] \in Nat /\ Halves[k] <= Unit
    BY SMT DEF Halves, Unit
  <2>2. \A k \in DOMAIN Halves : Halves[k] \in 0..Unit
    BY <2>1, UnitType
  <2> QED BY <1>2, <2>2 DEF RecencySignal
<1>6. SourceSignal(r.job) \in 0..Unit
  <2> DEFINE k == IF r.job.source \in DOMAIN SourceConfidence THEN r.job.source ELSE "unknown"
  <2>1. k \in DOMAIN SourceConfidence /\ \A e \in DOMAIN SourceConfidence : SourceConfidence[e] \in 0..100
    BY DEF SourceConfidence
  <2> HIDE DEF k
  <2>2. Percent(SourceConfidence[k]) \in 0..Unit
    BY <1>1, <2>1
  <2> QED BY <2>2 DEF SourceSignal, k
<1> QED BY <1>3, <1>4, <1>5, <1>6

-----------------------------------------------------------------------------
(* The sum, the tiers and the shown score. *)

(* The weighted sum of signals in their bounds. *)
LEMMA SumBounds ==
    ASSUME NEW s, s.skills \in Nat, s.skills <= Percent(60),
           s.title \in 0..Unit, s.experience \in 0..Unit, s.semantic \in 0..Unit,
           s.company \in 0..Unit, s.location \in 0..Unit, s.recency \in 0..Unit,
           s.source \in 0..Unit
    PROVE  /\ WeightedSum(s) \in Nat
           /\ s.semantic = 0 => WeightedSum(s) < Percent(80)
<1> DEFINE u == Unit
           p == Percent(60)
           q == Percent(80)
           sum == 30 * s.skills + 15 * s.title + 15 * s.experience + 10 * s.semantic
                    + 10 * s.company + 8 * s.location + 7 * s.recency + 5 * s.source
<1>1. WeightedSum(s) = sum \div 100
  BY DEF WeightedSum, Weights
<1>2. 100 * p = 60 * u /\ 100 * q = 80 * u /\ u \in Nat \ {0} /\ p \in Nat /\ q \in Nat
  <2>1. 100 * p = 60 * u /\ 100 * q = 80 * u
    BY PercentOfUnit
  <2> QED BY <2>1, UnitType, PercentType
<1>3. s.skills \in Nat /\ s.skills <= p
  OBVIOUS
<1>4. /\ s.title \in Nat /\ s.title <= u /\ s.experience \in Nat /\ s.experience <= u
      /\ s.semantic \in Nat /\ s.company \in Nat /\ s.company <= u
      /\ s.location \in Nat /\ s.location <= u /\ s.recency \in Nat /\ s.recency <= u
      /\ s.source \in Nat /\ s.source <= u
  BY UnitType
<1> HIDE DEF u, p, q
<1>5. sum \in Nat
  BY <1>3, <1>4
<1>6. s.semantic = 0 => sum <= 78 * u
  BY <1>2, <1>3, <1>4
<1> HIDE DEF sum
<1>7. sum \div 100 \in Nat /\ (s.semantic = 0 => sum \div 100 < q)
  BY <1>2, <1>5, <1>6
<1> QED BY <1>1, <1>7 DEF q

(* Every signal of a request that can be scored is in its bounds. *)
LEMMA SignalBounds ==
    ASSUME NEW r, Scorable(r), NEW s, s = Signals(r.candidate, r.job, r.views)
    PROVE  /\ s.skills \in Nat /\ s.skills <= Percent(60)
           /\ s.title \in 0..Unit /\ s.experience \in 0..Unit /\ s.semantic \in 0..Unit
           /\ s.company \in 0..Unit /\ s.location \in 0..Unit /\ s.recency \in 0..Unit
           /\ s.source \in 0..Unit
<1>1. r.views.profile \in Optional(0..100)
  BY DEF Scorable, Views
<1>2. Cosine(r.views.profile) \in 0..Unit
  BY <1>1, CosineBounds, UnitType
<1> QED BY <1>2, SkillsBounds, TitleBounds, ExperienceBounds, OtherBounds DEF Signals

(* What a breakdown shows and keeps. *)
LEMMA ScoreFields ==
    ASSUME NEW r, NEW s, s = Signals(r.candidate, r.job, r.views)
    PROVE  /\ ScoreOf(r).exact = WeightedSum(s)
           /\ ScoreOf(r).final = Round4(WeightedSum(s))
           /\ ScoreOf(r).tier = Arbitrate(TierOf(WeightedSum(s)), Cosine(r.views.profile),
                                          HardOverlap(r.candidate, r.job))
           /\ ScoreOf(r).signals.skills = Round4(SkillsSignal(r.candidate, r.job, r.views.skills))
BY DEF ScoreOf, FinalScore, Signals

(* A score is rounded by half a digit at most. *)
LEMMA Rounding ==
    ASSUME NEW x \in Nat
    PROVE  /\ Round4(x) \in Nat
           /\ 1200 * Round4(x) <= x + 600
           /\ x < 1200 * Round4(x) + 600
BY SMT DEF Round4, Unit

LEMMA RoundingOrder ==
    ASSUME NEW x \in Nat, NEW y \in Nat, x <= y
    PROVE  Round4(x) <= Round4(y)
BY SMT DEF Round4, Unit

-----------------------------------------------------------------------------
(* The invariant: what is shown is what the functions make of the request,  *)
(* and the verdict is that of the review of what was reviewed.              *)

(* Flags of errors are for what is unfit. *)
Unfit(j) == j.title = <<>> \/ j.company = <<>> \/ "injection" \in j.phrases

VerdictFits ==
    verdict # Missing =>
        (verdict.passed <=> \A i \in DOMAIN reviewed : ~Unfit(reviewed[i]))

ShortlistInv ==
    /\ Scorable(request)
    /\ breakdown # Missing => breakdown = ScoreOf(request)
    /\ assessment # Missing => assessment = Checks!Assessment(request.job)
    /\ VerdictFits

LEMMA ShortlistStart == ShortlistInit => ShortlistInv
BY ShortlistAssumption DEF ShortlistInit, ShortlistInv, VerdictFits

LEMMA ExtractionVerdict ==
    ASSUME NEW postings
    PROVE  Checks!CheckExtraction(postings).passed <=> \A i \in DOMAIN postings : ~Unfit(postings[i])
<1> DEFINE flags == UNION {Checks!PostingFlags(postings[i], i) : i \in DOMAIN postings}
<1>1. Checks!CheckExtraction(postings).passed <=> \A f \in flags : f.severity # "error"
  BY DEF Checks!CheckExtraction, Checks!QAOutput
<1>2. ASSUME NEW i \in DOMAIN postings
      PROVE  (\E f \in Checks!PostingFlags(postings[i], i) : f.severity = "error") <=> Unfit(postings[i])
  <2> DEFINE j == postings[i]
             a == j.title = <<>> \/ j.company = <<>>
             b == \/ Checks!Exceeds(j.min, j.max) \/ Checks!Exceeds(j.salaryMin, j.salaryMax)
                  \/ j.posted \in {"future", "garbled"}
             c == "injection" \in j.phrases
             A == Checks!FlagIf(a, Checks!Flag("error", "schema", i))
             B == Checks!FlagIf(b, Checks!Flag("warning", "consistency", i))
             C == Checks!FlagIf(c, Checks!Flag("error", "injection", i))
  <2>1. Checks!PostingFlags(j, i) = A \cup B \cup C
    BY DEF Checks!PostingFlags
  <2>2. (\E f \in A : f.severity = "error") <=> a
    BY DEF Checks!FlagIf, Checks!Flag
  <2>3. \A f \in B : f.severity # "error"
    BY DEF Checks!FlagIf, Checks!Flag
  <2>4. (\E f \in C : f.severity = "error") <=> c
    BY DEF Checks!FlagIf, Checks!Flag
  <2>5. Unfit(j) <=> a \/ c
    BY DEF Unfit
  <2> HIDE DEF a, b, c, A, B, C
  <2> QED BY <2>1, <2>2, <2>3, <2>4, <2>5
<1> QED BY <1>1, <1>2

LEMMA RankingVerdict ==
    ASSUME NEW matches
    PROVE  Checks!CheckRanking(matches).passed
<1> DEFINE flags == UNION {Checks!MatchFlags(matches[i], i) : i \in DOMAIN matches}
<1>1. Checks!CheckRanking(matches).passed <=> \A f \in flags : f.severity # "error"
  BY DEF Checks!CheckRanking, Checks!QAOutput
<1>2. \A i \in DOMAIN matches : \A f \in Checks!MatchFlags(matches[i], i) : f.severity # "error"
  BY DEF Checks!MatchFlags, Checks!FlagIf, Checks!Flag
<1> QED BY <1>1, <1>2

LEMMA OutreachVerdict ==
    ASSUME NEW contacts, NEW drafts
    PROVE  Checks!CheckOutreach(contacts, drafts).passed
<1> DEFINE cf == UNION {Checks!ContactFlags(contacts[i], i) : i \in DOMAIN contacts}
           df == UNION {Checks!DraftFlags(drafts[i], i) : i \in DOMAIN drafts}
<1>1. Checks!CheckOutreach(contacts, drafts).passed <=> \A f \in cf \cup df : f.severity # "error"
  BY DEF Checks!CheckOutreach, Checks!QAOutput
<1>2. \A i \in DOMAIN contacts : \A f \in Checks!ContactFlags(contacts[i], i) : f.severity # "error"
  BY DEF Checks!ContactFlags, Checks!FlagIf, Checks!Flag
<1>3. \A i \in DOMAIN drafts : \A f \in Checks!DraftFlags(drafts[i], i) : f.severity # "error"
  <2> SUFFICES ASSUME NEW i \in DOMAIN drafts, NEW f \in Checks!DraftFlags(drafts[i], i)
               PROVE  f.severity # "error"
    OBVIOUS
  <2>1. \/ f = Checks!Flag("warning", "confidence", i)
        \/ f = Checks!Flag("warning", "hallucination", i)
        \/ f = Checks!Flag("info", "hallucination", i)
    BY DEF Checks!DraftFlags, Checks!FlagIf
  <2> QED BY <2>1 DEF Checks!Flag
<1> QED BY <1>1, <1>2, <1>3

(* A longer resume and an older posting can be scored as well. *)
LEMMA LearnedScorable ==
    ASSUME Scorable(request), NEW s \in NewSkills, NEW k \in Cosines, NEW p \in Cosines,
           request' = [request EXCEPT !.candidate.skills = @ \cup {s},
                                      !.views.skills = k, !.views.profile = p]
    PROVE  Scorable(request')
<1> DEFINE S == request.candidate.skills
<1>1. /\ request \in [candidate : CandidateProfile, job : JobDescription, views : Views]
      /\ IsFiniteSet(S) /\ IsFiniteSet(request.job.required \cup request.job.preferred)
  BY DEF Scorable
<1>2. request.candidate \in CandidateProfile /\ s \in STRING
  BY <1>1, ShortlistAssumption
<1>3. /\ request'.candidate = [request.candidate EXCEPT !.skills = @ \cup {s}]
      /\ request'.views = [request.views EXCEPT !.skills = k, !.profile = p]
  BY <1>1
<1>4. request'.candidate \in CandidateProfile /\ request'.candidate.skills = S \cup {s}
  BY <1>2, <1>3 DEF CandidateProfile
<1>5. request'.job = request.job
  BY <1>1
<1>6. request' \in [candidate : CandidateProfile, job : JobDescription, views : Views]
  <2>1. request'.views \in Views
    BY <1>1, <1>3, ShortlistAssumption DEF Views
  <2> QED BY <1>1, <1>3, <1>4, <2>1
<1>7. IsFiniteSet(S \cup {s})
  BY <1>1, FS_Singleton, FS_Union
<1> QED BY <1>1, <1>4, <1>5, <1>6, <1>7 DEF Scorable

LEMMA AgedPosting ==
    ASSUME NEW j \in JobDescription, NEW v \in Optional(Int)
    PROVE  [j EXCEPT !.age = v] \in JobDescription
BY DEF JobDescription

LEMMA AgedScorable ==
    ASSUME Scorable(request), request.job.age # Missing,
           request' = [request EXCEPT !.job.age = @ + 1]
    PROVE  Scorable(request')
<1>1. /\ request \in [candidate : CandidateProfile, job : JobDescription, views : Views]
      /\ IsFiniteSet(request.candidate.skills)
      /\ IsFiniteSet(request.job.required \cup request.job.preferred)
  BY DEF Scorable
<1>2. request.job \in JobDescription
  BY <1>1
<1>3. request.job.age \in Int
  BY <1>2 DEF JobDescription, Optional
<1>4. request'.job = [request.job EXCEPT !.age = @ + 1]
  BY <1>1
<1>5. request.job.age + 1 \in Optional(Int)
  BY <1>3 DEF Optional
<1>6. /\ request'.job \in JobDescription
      /\ request'.job.required = request.job.required /\ request'.job.preferred = request.job.preferred
  <2>1. request'.job = [request.job EXCEPT !.age = request.job.age + 1]
    BY <1>4
  <2>2. request'.job \in JobDescription
    BY <1>2, <1>5, <2>1, AgedPosting
  <2>3. request'.job.required = request.job.required /\ request'.job.preferred = request.job.preferred
    BY <1>2, <2>1 DEF JobDescription
  <2> QED BY <2>2, <2>3
<1>7. request'.candidate = request.candidate
  BY <1>1
<1>8. request' \in [candidate : CandidateProfile, job : JobDescription, views : Views]
  BY <1>1, <1>4, <1>6
<1> QED BY <1>1, <1>6, <1>7, <1>8 DEF Scorable

LEMMA ShortlistStep == ShortlistInv /\ [ShortlistNext]_shortlistVars => ShortlistInv'
<1> SUFFICES ASSUME ShortlistInv, [ShortlistNext]_shortlistVars PROVE ShortlistInv'
  OBVIOUS
<1> USE DEF ShortlistInv
<1>1. CASE Score
  BY <1>1 DEF Score, VerdictFits, ScoreOf
<1>2. CASE Assess
  BY <1>2 DEF Assess, VerdictFits, ScoreOf
<1>3. CASE ReviewExtraction
  <2>1. VerdictFits'
    BY <1>3, ExtractionVerdict DEF ReviewExtraction, VerdictFits
  <2> QED BY <1>3, <2>1 DEF ReviewExtraction, ScoreOf
<1>4. CASE ReviewRanking
  <2>1. VerdictFits'
    BY <1>4, RankingVerdict DEF ReviewRanking, VerdictFits
  <2> QED BY <1>4, <2>1 DEF ReviewRanking, ScoreOf
<1>5. CASE ReviewOutreach
  <2>1. VerdictFits'
    BY <1>5, OutreachVerdict DEF ReviewOutreach, VerdictFits
  <2> QED BY <1>5, <2>1 DEF ReviewOutreach, ScoreOf
<1>6. CASE ReviewUnknown
  <2>1. Checks!CheckUnknown("post_research").passed
    BY DEF Checks!CheckUnknown, Checks!QAOutput
  <2>2. VerdictFits'
    BY <1>6, <2>1 DEF ReviewUnknown, VerdictFits
  <2> QED BY <1>6, <2>2 DEF ReviewUnknown, ScoreOf
<1>7. CASE LearnSkill
  BY <1>7, LearnedScorable DEF LearnSkill, Rescore, VerdictFits, ScoreOf
<1>8. CASE PostingAges
  BY <1>8, AgedScorable DEF PostingAges, Rescore, VerdictFits, ScoreOf
<1>9. CASE UNCHANGED shortlistVars
  BY <1>9 DEF shortlistVars, VerdictFits, ScoreOf
<1> QED BY <1>1, <1>2, <1>3, <1>4, <1>5, <1>6, <1>7, <1>8, <1>9 DEF ShortlistNext

LEMMA ShortlistInvariant == ShortlistSpec => []ShortlistInv
BY ShortlistStart, ShortlistStep, PTL DEF ShortlistSpec

-----------------------------------------------------------------------------
(* The theorems. *)

(* Whatever the resume, the posting and the embeddings: without a similar   *)
(* embedding of the whole profile nothing is strong.  The skills signal     *)
(* lacks 40 % of its weight of 30 %, and 100 - 10 - 12 is less than 80.     *)
THEOREM StrongMatchesAreBacked == ShortlistSpec => []StrongIsBacked
<1>1. ShortlistInv => StrongIsBacked
  <2> SUFFICES ASSUME ShortlistInv, breakdown # Missing, breakdown.tier = "strong"
               PROVE  /\ request.views.profile # Missing /\ request.views.profile > 0
                      /\ \/ request.views.profile <= 80
                         \/ 2 * Cardinality(Own(request.candidate) \cap AllAsked(request.job))
                               >= Cardinality(AllAsked(request.job))
    BY DEF StrongIsBacked
  <2> DEFINE own == Own(request.candidate)
             asked == AllAsked(request.job)
             s == Signals(request.candidate, request.job, request.views)
             v == request.views.profile
             overlap == HardOverlap(request.candidate, request.job)
  <2>1. Scorable(request) /\ breakdown = ScoreOf(request)
    BY DEF ShortlistInv
  <2>2. Arbitrate(TierOf(WeightedSum(s)), Cosine(v), overlap) = "strong"
    BY <2>1, ScoreFields
  <2>3. WeightedSum(s) >= Percent(80) /\ (Cosine(v) <= Percent(80) \/ overlap >= Percent(50))
    <3>1. WeightedSum(s) \in Nat
      BY <2>1, SignalBounds, SumBounds
    <3>2. overlap \in Nat
      <4>1. CASE asked = {}
        BY <4>1, UnitType DEF HardOverlap
      <4>2. CASE asked # {}
        <5>1. IsFiniteSet(asked) /\ IsFiniteSet(own \cap asked)
          BY <2>1, SkillSets, FS_Intersection
        <5>2. Cardinality(asked) \in Nat \ {0} /\ Cardinality(own \cap asked) \in Nat
          BY <4>2, <5>1, FS_CardinalityType, FS_EmptySet
        <5>3. Unit \div Cardinality(asked) \in Nat
          BY <5>2, UnitType, QuotientBounds
        <5> QED BY <4>2, <5>2, <5>3 DEF HardOverlap, Share
      <4> QED BY <4>1, <4>2
    <3>3. v \in Optional(0..100)
      BY <2>1 DEF Scorable, Views
    <3>4. Cosine(v) \in Nat
      BY <3>3, CosineBounds
    <3> HIDE DEF s, overlap, v
    <3>5. TierOf(WeightedSum(s)) = "strong"
          /\ ~(Cosine(v) > Percent(80) /\ overlap < Percent(50))
      BY <2>2 DEF Arbitrate, TierOf
    <3>6. WeightedSum(s) >= Percent(80)
      BY <3>5 DEF TierOf
    <3> QED BY <3>1, <3>2, <3>4, <3>5, <3>6, PercentType
  <2>4. Cosine(v) > 0
    <3>1. s.semantic # 0
      <4>1. WeightedSum(s) \in Nat /\ (s.semantic = 0 => WeightedSum(s) < Percent(80))
        BY <2>1, SignalBounds, SumBounds
      <4> HIDE DEF s
      <4> QED BY <2>3, <4>1, PercentType
    <3>2. s.semantic = Cosine(v)
      BY DEF Signals
    <3>3. v \in Optional(0..100)
      BY <2>1 DEF Scorable, Views
    <3>4. Cosine(v) \in Nat
      BY <3>3, CosineBounds
    <3> QED BY <3>1, <3>2, <3>4
  <2>5. v \in 0..100 /\ v # Missing /\ v > 0 /\ Cosine(v) = Percent(v)
    <3>1. v \in Optional(0..100)
      BY <2>1 DEF Scorable, Views
    <3> QED BY <2>4, <3>1, CosineBounds DEF Optional, Cosine
  <2>6. ASSUME v > 80
        PROVE  2 * Cardinality(own \cap asked) >= Cardinality(asked)
    <3>1. Percent(v) > Percent(80)
      BY <2>5, <2>6, SMT DEF Percent, Unit
    <3>2. overlap >= Percent(50)
      BY <2>3, <2>5, <3>1, PercentType
    <3>3. IsFiniteSet(asked) /\ IsFiniteSet(own \cap asked)
      BY <2>1, SkillSets, FS_Intersection
    <3>4. Cardinality(asked) \in Nat /\ Cardinality(own \cap asked) \in Nat
      BY <3>3, FS_CardinalityType
    <3>5. CASE Cardinality(asked) = 0
      BY <3>4, <3>5
    <3>6. CASE Cardinality(asked) # 0
      <4>1. asked # {}
        BY <3>6, FS_EmptySet
      <4>2. overlap = (Unit \div Cardinality(asked)) * Cardinality(own \cap asked)
        BY <4>1 DEF HardOverlap, Share
      <4> QED BY <3>2, <3>4, <3>6, <4>2, HalfShare
    <3> QED BY <3>5, <3>6
  <2> QED BY <2>5, <2>6
<1> QED BY <1>1, ShortlistInvariant, PTL

(* Whatever is rounded and capped: the tier of the shown score is the tier  *)
(* shown, but for the half digit rounded up to a threshold and the cap.     *)
THEOREM ShownScoresFitTiers == ShortlistSpec => []ShownScoreFitsTier
<1>1. ShortlistInv => ShownScoreFitsTier
  <2> SUFFICES ASSUME ShortlistInv, breakdown # Missing,
                      NEW tier, tier = TierOf((Unit \div 10000) * breakdown.final)
               PROVE  \/ breakdown.tier = tier
                      \/ breakdown.tier = "good" /\ tier = "strong" /\ request.views.profile > 80
                      \/ /\ breakdown.final \in {4000, 6000, 8000}
                         /\ (Unit \div 10000) * breakdown.final - breakdown.exact
                               \in 1..(Unit \div 20000)
    BY DEF ShownScoreFitsTier
  <2> DEFINE s == Signals(request.candidate, request.job, request.views)
             v == request.views.profile
             overlap == HardOverlap(request.candidate, request.job)
             x == WeightedSum(s)
             f == Round4(x)
  <2>1. Scorable(request) /\ breakdown = ScoreOf(request)
    BY DEF ShortlistInv
  <2>2. /\ breakdown.exact = x /\ breakdown.final = f
        /\ breakdown.tier = Arbitrate(TierOf(x), Cosine(v), overlap)
    BY <2>1, ScoreFields
  <2>3. x \in Nat
    BY <2>1, SignalBounds, SumBounds
  <2>4. f \in Nat /\ 1200 * f <= x + 600 /\ x < 1200 * f + 600
    BY <2>3, Rounding
  <2> HIDE DEF x, f, overlap
  <2>5. Unit \div 10000 = 1200 /\ Unit \div 20000 = 600
    BY SMT DEF Unit
  <2>6. tier = TierOf(1200 * f)
    BY <2>2, <2>5
  <2>7. \/ TierOf(x) = tier
        \/ f \in {4000, 6000, 8000} /\ 1200 * f - x \in 1..600
    <3>1. Percent(80) = 1200 * 8000 /\ Percent(60) = 1200 * 6000 /\ Percent(40) = 1200 * 4000
      BY SMT DEF Percent, Unit
    <3>2. ASSUME NEW d \in {4000, 6000, 8000}
          PROVE  (x >= 1200 * d <=> 1200 * f >= 1200 * d) \/ (f = d /\ 1200 * f - x \in 1..600)
      BY <2>3, <2>4
    <3>3. CASE f \in {4000, 6000, 8000} /\ 1200 * f - x \in 1..600
      BY <3>3
    <3>4. CASE \A d \in {4000, 6000, 8000} : x >= 1200 * d <=> 1200 * f >= 1200 * d
      <4>1. /\ x >= 1200 * 8000 <=> 1200 * f >= 1200 * 8000
            /\ x >= 1200 * 6000 <=> 1200 * f >= 1200 * 6000
            /\ x >= 1200 * 4000 <=> 1200 * f >= 1200 * 4000
        BY <3>4
      <4>2. /\ x >= Percent(80) <=> 1200 * f >= Percent(80)
            /\ x >= Percent(60) <=> 1200 * f >= Percent(60)
            /\ x >= Percent(40) <=> 1200 * f >= Percent(40)
        BY <3>1, <4>1, SMT
      <4> QED BY <2>6, <4>2 DEF TierOf
    <3> QED BY <3>2, <3>3, <3>4
  <2>8. \/ breakdown.tier = TierOf(x)
        \/ breakdown.tier = "good" /\ TierOf(x) = "strong" /\ v > 80
    <3>1. CASE Cosine(v) > Percent(80) /\ overlap < Percent(50) /\ TierOf(x) = "strong"
      <4>1. v \in Optional(0..100)
        BY <2>1 DEF Scorable, Views
      <4>2. Percent(80) > 0
        BY SMT DEF Percent, Unit
      <4>3. v \in 0..100 /\ Cosine(v) = Percent(v)
        <5>1. Cosine(v) > 0
          BY <3>1, <4>1, <4>2, CosineBounds, PercentType
        <5> QED BY <4>1, <5>1, CosineBounds DEF Optional, Cosine
      <4>4. Percent(v) > Percent(80)
        BY <3>1, <4>3
      <4>5. v > 80
        BY <4>3, <4>4, SMT DEF Percent, Unit
      <4> QED BY <2>2, <3>1, <4>5 DEF Arbitrate
    <3>2. CASE ~(Cosine(v) > Percent(80) /\ overlap < Percent(50) /\ TierOf(x) = "strong")
      BY <2>2, <3>2 DEF Arbitrate
    <3> QED BY <3>1, <3>2
  <2> QED BY <2>2, <2>5, <2>7, <2>8
<1> QED BY <1>1, ShortlistInvariant, PTL

(* However resume and posting spell their skills, the critic's check for    *)
(* hallucinated ones never fires for what the engine scored.                *)
THEOREM RankingsAreNotHallucinated == ShortlistSpec => []RankingReviewHasNoHallucination
<1>1. ShortlistInv => RankingReviewHasNoHallucination
  <2> SUFFICES ASSUME ShortlistInv, breakdown # Missing
               PROVE  /\ breakdown.signals.skills <= 6000
                      /\ \A f \in Checks!MatchFlags(Match, 1) : f.category # "hallucination"
    BY DEF RankingReviewHasNoHallucination
  <2> DEFINE s == SkillsSignal(request.candidate, request.job, request.views.skills)
  <2>1. Scorable(request) /\ breakdown = ScoreOf(request)
    BY DEF ShortlistInv
  <2>2. breakdown.signals.skills = Round4(s)
    BY <2>1, ScoreFields
  <2>3. s \in Nat /\ s <= Percent(60)
    BY <2>1, SkillsBounds
  <2> HIDE DEF s
  <2>4. Round4(s) \in Nat /\ Round4(s) <= 6000
    BY <2>3, SMT DEF Round4, Percent, Unit
  <2>5. Match.skills \in Nat /\ Match.skills <= 6000
    BY <2>2, <2>4 DEF Match
  <2>6. ~(Match.skills > 8000)
    BY <2>5
  <2>7. \A f \in Checks!MatchFlags(Match, 1) : f = Checks!Flag("warning", "contradiction", 1)
    BY <2>6 DEF Checks!MatchFlags, Checks!FlagIf
  <2>8. Checks!Flag("warning", "contradiction", 1).category # "hallucination"
    BY DEF Checks!Flag
  <2> QED BY <2>2, <2>4, <2>7, <2>8
<1> QED BY <1>1, ShortlistInvariant, PTL

(* What is stated of a salary, and in whatever form the upper end is        *)
(* missing: no stated amount above the benchmark escapes, and none below it *)
(* is flagged.                                                              *)
THEOREM SalariesAreJudgedWhole == ShortlistSpec => []SalaryRuleComplete
<1>1. ShortlistInv => SalaryRuleComplete
  <2> DEFINE j == request.job
             stated == {j.salaryMin, j.salaryMax} \ {Missing}
             b == Checks!Benchmark(j.currency, Checks!Seniority(j.title))
  <2> SUFFICES ASSUME ShortlistInv, assessment # Missing,
                      j.salaryMax = 0 \/ ~Checks!Exceeds(j.salaryMin, j.salaryMax)
               PROVE  ("SALARY_IMPLAUSIBLE" \in assessment.flags) <=> \E s \in stated : s > b
    BY DEF SalaryRuleComplete
  <2>1. Scorable(request) /\ assessment = Checks!Assessment(j)
    BY DEF ShortlistInv
  <2>2. ("SALARY_IMPLAUSIBLE" \in assessment.flags) <=> Checks!SalaryImplausible(j)
    <3>1. ("SALARY_IMPLAUSIBLE" \in assessment.flags) <=> Checks!Fires("SALARY_IMPLAUSIBLE", j)
      BY <2>1 DEF Checks!Assessment, Checks!YellowRules
    <3> QED BY <3>1 DEF Checks!Fires
  <2>3. b \in Nat \ {0}
    BY DEF Checks!Benchmark, Checks!Seniority
  <2>4. j.salaryMin \in Int \cup {Missing} /\ j.salaryMax \in Int \cup {Missing}
    BY <2>1 DEF Scorable, JobDescription, Optional
  <2>5. Missing \notin Int
    BY ShortlistAssumption
  <2> DEFINE lo == j.salaryMin
             hi == j.salaryMax
  <2>6. hi = 0 \/ ~(lo # Missing /\ hi # Missing /\ lo > hi)
    BY DEF Checks!Exceeds
  <2>7. Checks!SalaryImplausible(j) <=>
          LET judged == IF hi \in {Missing, 0} THEN lo ELSE hi
          IN judged # Missing /\ judged > 0 /\ judged > b
    BY DEF Checks!SalaryImplausible, Checks!JudgedSalary
  <2> HIDE DEF lo, hi, b
  <2>8. (\E s \in stated : s > b) <=> (lo # Missing /\ lo > b) \/ (hi # Missing /\ hi > b)
    BY DEF lo, hi
  <2>9. lo \in Int \cup {Missing} /\ hi \in Int \cup {Missing}
    BY <2>4 DEF lo, hi
  <2> HIDE DEF stated, j
  <2> QED BY <2>2, <2>3, <2>5, <2>6, <2>7, <2>8, <2>9
<1> QED BY <1>1, ShortlistInvariant, PTL

(* The verdict of the last review, after any reviews, assessments and new   *)
(* versions, is on its own postings and for errors alone.                   *)
THEOREM OnlyTheUnfitFail == ShortlistSpec => []OnlyUnfitPostingsFail
<1>1. ShortlistInv => OnlyUnfitPostingsFail
  BY DEF ShortlistInv, VerdictFits, Unfit, OnlyUnfitPostingsFail
<1> QED BY <1>1, ShortlistInvariant, PTL

(* Learning enlarges the own skills. *)
LEMMA CanonicalGrows ==
    ASSUME NEW S, NEW s
    PROVE  Canonical(S) \subseteq Canonical(S \cup {s})
BY DEF Canonical, NormalizeSkills

(* The skills signal of a longer list of skills, none of the new ones close *)
(* to what is asked for.                                                    *)
LEMMA UnrelatedSkills ==
    ASSUME NEW old, NEW new, NEW asked,
           IsFiniteSet(old), IsFiniteSet(new), IsFiniteSet(asked), asked # {},
           old \subseteq new,
           \A s \in new \ old, a \in asked : Adjacency(s, a) = 0
    PROVE  /\ Jaccard(new, asked) <= Jaccard(old, asked)
           /\ AdjacencyCredit(new, asked) = AdjacencyCredit(old, asked)
<1>1. new \cap asked = old \cap asked /\ asked \ new = asked \ old
  <2>1. \A a \in asked : a \in new => a \in old
    <3> SUFFICES ASSUME NEW a \in asked, a \in new \ old PROVE FALSE
      OBVIOUS
    <3>1. Adjacency(a, a) = 0 /\ Adjacency(a, a) = 100
      BY AdjacencyBounds
    <3> QED BY <3>1
  <2> QED BY <2>1
<1>2. Jaccard(new, asked) <= Jaccard(old, asked)
  <2> DEFINE X == old \cup asked
             Y == new \cup asked
             I == old \cap asked
             n == Cardinality(X)
             m == Cardinality(Y)
             i == Cardinality(I)
  <2>1. IsFiniteSet(X) /\ IsFiniteSet(Y) /\ IsFiniteSet(I) /\ X \in SUBSET Y /\ X # {}
    BY FS_Union, FS_Intersection
  <2>2. Jaccard(new, asked) = (Unit \div m) * i /\ Jaccard(old, asked) = (Unit \div n) * i
    BY <1>1 DEF Jaccard, Share
  <2> HIDE DEF X, Y, I
  <2>3. n \in Nat \ {0} /\ m \in Nat /\ i \in Nat /\ n <= m
    BY <2>1, FS_CardinalityType, FS_Subset, FS_EmptySet
  <2> HIDE DEF n, m, i
  <2>4. Unit \div m \in Nat /\ Unit \div n \in Nat /\ Unit \div m <= Unit \div n
    <3>1. m \in Nat \ {0}
      BY <2>3
    <3> QED BY <2>3, <3>1, UnitType, QuotientBounds, SmallerDivisor
  <2> DEFINE p == Unit \div m
             q == Unit \div n
  <2>5. p \in Nat /\ q \in Nat /\ p <= q
    BY <2>4
  <2>6. Jaccard(new, asked) = p * i /\ Jaccard(old, asked) = q * i
    BY <2>2
  <2> HIDE DEF p, q
  <2>7. p * i <= q * i
    BY <2>3, <2>5, ProductOrder
  <2> QED BY <2>6, <2>7
<1>3. AdjacencyCredit(new, asked) = AdjacencyCredit(old, asked)
  <2>1. \A a \in asked : Best(new, a) = Best(old, a)
    <3> SUFFICES ASSUME NEW a \in asked PROVE Best(new, a) = Best(old, a)
      OBVIOUS
    <3> DEFINE O == {0} \cup {Adjacency(s, a) : s \in old}
               N == {0} \cup {Adjacency(s, a) : s \in new}
    <3>1. N = O
      OBVIOUS
    <3> QED BY <3>1 DEF Best
  <2>2. Credits(new, asked \ new) = Credits(old, asked \ old)
    BY <1>1, <2>1 DEF Credits
  <2> QED BY <2>2 DEF AdjacencyCredit
<1> QED BY <1>2, <1>3

(* The rise of a cosine in parts of Unit. *)
LEMMA CosineRises ==
    ASSUME NEW u \in Optional(0..100), NEW v \in Optional(0..100)
    PROVE  /\ Rise(u, v) \in Nat
           /\ Cosine(v) <= Cosine(u) + Percent(Rise(u, v))
<1> DEFINE Counted(w) == IF w = Missing THEN 0 ELSE w
           x == Counted(u)
           y == Counted(v)
<1>1. x \in Nat /\ y \in Nat
  BY DEF Optional
<1>2. Cosine(u) = Percent(x) /\ Cosine(v) = Percent(y)
  <2>1. Percent(0) = 0
    BY SMT DEF Percent, Unit
  <2> QED BY <2>1 DEF Cosine
<1>3. Rise(u, v) = Max({0, y - x})
  BY DEF Rise
<1> HIDE DEF x, y
<1>4. Max({0, y - x}) = IF y > x THEN y - x ELSE 0
  BY <1>1 DEF Max
<1> DEFINE n == IF y > x THEN y - x ELSE 0
<1>5. n \in Nat /\ y <= x + n
  BY <1>1
<1> HIDE DEF n
<1>6. Percent(y) <= Percent(x) + Percent(n)
  BY <1>1, <1>5, SMT DEF Percent, Unit
<1> QED BY <1>2, <1>3, <1>4, <1>5, <1>6 DEF n

(* What a score gains before it is rounded, in whole digits, it gains after. *)
LEMMA RoundingRises ==
    ASSUME NEW x \in Nat, NEW y \in Nat, NEW n \in Nat, y <= x + 1200 * n
    PROVE  Round4(y) <= Round4(x) + n
BY SMT DEF Round4, Unit

(* A resume that lists more skills, close to nothing the posting asks for,  *)
(* gains what its new embeddings gain, in their share of the signal and of  *)
(* the score, and nothing else.                                             *)
THEOREM UnrelatedSkillsHelpOnlyByEmbedding == ShortlistSpec => UnrelatedSkillHelpsOnlyByEmbedding
<1> DEFINE Unrelated ==
      LearnSkill =>
        LET learned == Own(request'.candidate) \ Own(request.candidate)
            skills == Rise(request.views.skills, request'.views.skills)
            profile == Rise(request.views.profile, request'.views.profile)
        IN (\A s \in learned, a \in AllAsked(request.job) : Adjacency(s, a) = 0) =>
              /\ breakdown'.signals.skills <= breakdown.signals.skills + 20 * skills
              /\ breakdown'.final <= breakdown.final + 6 * skills + 10 * profile
<1>1. ASSUME ShortlistInv, ShortlistInv', LearnSkill,
             \A s \in Own(request'.candidate) \ Own(request.candidate),
                a \in AllAsked(request.job) : Adjacency(s, a) = 0,
             NEW n, n = Rise(request.views.skills, request'.views.skills),
             NEW m, m = Rise(request.views.profile, request'.views.profile)
      PROVE  /\ breakdown'.signals.skills <= breakdown.signals.skills + 20 * n
             /\ breakdown'.final <= breakdown.final + 6 * n + 10 * m
  <2>1. /\ Scorable(request) /\ breakdown = ScoreOf(request)
        /\ Scorable(request') /\ breakdown' = ScoreOf(request')
    BY <1>1 DEF ShortlistInv, LearnSkill, Rescore
  <2>2. PICK t \in NewSkills, k \in Cosines, p \in Cosines :
          request' = [request EXCEPT !.candidate.skills = @ \cup {t},
                                     !.views.skills = k, !.views.profile = p]
    BY <1>1 DEF LearnSkill
  <2> DEFINE c == request.candidate
             d == request'.candidate
             s == Signals(request.candidate, request.job, request.views)
             z == Signals(request'.candidate, request'.job, request'.views)
  <2>3. /\ request \in [candidate : CandidateProfile, job : JobDescription, views : Views]
        /\ request' \in [candidate : CandidateProfile, job : JobDescription, views : Views]
    BY <2>1 DEF Scorable
  <2>4. request'.job = request.job /\ request'.views.title = request.views.title
    BY <2>2, <2>3 DEF Views
  <2>5. d = [c EXCEPT !.skills = @ \cup {t}] /\ c \in CandidateProfile
    BY <2>2, <2>3
  <2>6. /\ d.skills = c.skills \cup {t}
        /\ d.roles = c.roles /\ d.years = c.years /\ d.companies = c.companies
        /\ d.location = c.location /\ d.targets = c.targets /\ d.openToRemote = c.openToRemote
    BY <2>5 DEF CandidateProfile
  <2>7. /\ z.title = s.title /\ z.experience = s.experience
        /\ z.company = s.company /\ z.location = s.location /\ z.recency = s.recency
        /\ z.source = s.source
    BY <2>4, <2>6
    DEF Signals, TitleSignal, ExperienceSignal, CompanySignal, LocationSignal
  <2>8. n \in Nat /\ m \in Nat
    BY <1>1, <2>3, CosineRises DEF Views
  <2>9. /\ s.semantic \in Nat /\ z.semantic \in Nat
        /\ z.semantic <= s.semantic + 120000 * m
    <3>1. s.semantic = Cosine(request.views.profile) /\ z.semantic = Cosine(request'.views.profile)
      BY DEF Signals
    <3>2. Percent(m) = 120000 * m
      BY <2>8, SMT DEF Percent, Unit
    <3> QED BY <1>1, <2>3, <3>1, <3>2, CosineRises, CosineBounds DEF Views
  <2>10. /\ s.skills \in Nat /\ z.skills \in Nat /\ z.skills <= s.skills + 24000 * n
         /\ s.skills = SkillsSignal(c, request.job, request.views.skills)
         /\ z.skills = SkillsSignal(d, request.job, request'.views.skills)
    <3> DEFINE asked == AllAsked(request.job)
               J == Jaccard(Own(c), asked)
               K == Jaccard(Own(d), asked)
               A == AdjacencyCredit(Own(c), asked)
               B == AdjacencyCredit(Own(d), asked)
               C == Cosine(request.views.skills)
               D == Cosine(request'.views.skills)
    <3>1. /\ s.skills = SkillsSignal(c, request.job, request.views.skills)
          /\ z.skills = SkillsSignal(d, request.job, request'.views.skills)
      BY <2>4 DEF Signals
    <3>2. s.skills \in Nat /\ z.skills \in Nat
      BY <2>1, SignalBounds
    <3>3. CASE asked = {}
      <4>1. s.skills = Percent(50) /\ z.skills = Percent(50)
        BY <3>1, <3>3 DEF SkillsSignal
      <4>2. s.skills = z.skills
        BY <4>1
      <4> HIDE DEF s, z
      <4>3. z.skills <= s.skills + 24000 * n
        BY <2>8, <3>2, <4>2
      <4> QED BY <3>1, <3>2, <4>3
    <3>4. CASE asked # {}
      <4>1. IsFiniteSet(Own(c)) /\ IsFiniteSet(Own(d)) /\ IsFiniteSet(asked)
        BY <2>1, <2>4, SkillSets
      <4>2. Own(c) \subseteq Own(d)
        BY <2>6, CanonicalGrows DEF Own
      <4>3. \A u \in Own(d) \ Own(c), a \in asked : Adjacency(u, a) = 0
        BY <1>1
      <4>4. K <= J /\ B = A
        BY <3>4, <4>1, <4>2, <4>3, UnrelatedSkills
      <4>5. J \in Nat /\ K \in Nat /\ A \in Nat
        BY <3>4, <4>1, MatchAndCredit
      <4>6. C \in Nat /\ D \in Nat /\ D <= C + 120000 * n
        <5>1. /\ request.views.skills \in Optional(0..100)
              /\ request'.views.skills \in Optional(0..100)
          BY <2>3 DEF Views
        <5>2. Percent(n) = 120000 * n
          BY <2>8, SMT DEF Percent, Unit
        <5> QED BY <1>1, <5>1, <5>2, CosineBounds, CosineRises
      <4>7. /\ s.skills = (40 * J + 40 * A + 20 * C) \div 100
            /\ z.skills = (40 * K + 40 * B + 20 * D) \div 100
        BY <3>1, <3>4 DEF SkillsSignal
      <4> HIDE DEF J, K, A, B, C, D
      <4>8. (40 * K + 40 * B + 20 * D) \div 100
              <= (40 * J + 40 * A + 20 * C) \div 100 + 24000 * n
        BY <2>8, <4>4, <4>5, <4>6
      <4> QED BY <3>1, <3>2, <4>7, <4>8
    <3> QED BY <3>3, <3>4
  <2>11. WeightedSum(s) \in Nat /\ WeightedSum(z) \in Nat
    BY <2>1, SignalBounds, SumBounds
  <2>12. WeightedSum(z) <= WeightedSum(s) + 1200 * (6 * n + 10 * m)
    <3> DEFINE rest == 15 * s.title + 15 * s.experience
                         + 10 * s.company + 8 * s.location + 7 * s.recency + 5 * s.source
    <3>1. /\ s.title \in Nat /\ s.experience \in Nat
          /\ s.company \in Nat /\ s.location \in Nat /\ s.recency \in Nat /\ s.source \in Nat
      <4>1. \A x \in 0..Unit : x \in Nat
        BY UnitType
      <4> QED BY <2>1, <4>1, SignalBounds
    <3> HIDE DEF s, z
    <3>2. rest \in Nat
      BY <3>1
    <3>3. /\ WeightedSum(s) = (30 * s.skills + 10 * s.semantic + rest) \div 100
          /\ WeightedSum(z) = (30 * z.skills + 10 * z.semantic + rest) \div 100
      BY <2>7, <2>9, <2>10, <3>1 DEF WeightedSum, Weights
    <3> HIDE DEF rest
    <3>4. (30 * z.skills + 10 * z.semantic + rest) \div 100
            <= (30 * s.skills + 10 * s.semantic + rest) \div 100 + 1200 * (6 * n + 10 * m)
      BY <2>8, <2>9, <2>10, <3>2
    <3> QED BY <3>3, <3>4
  <2>13. /\ breakdown.final = Round4(WeightedSum(s)) /\ breakdown'.final = Round4(WeightedSum(z))
         /\ breakdown.signals.skills = Round4(s.skills)
         /\ breakdown'.signals.skills = Round4(z.skills)
    BY <2>1, <2>4, <2>10, ScoreFields
  <2> HIDE DEF s, z
  <2>14. Round4(z.skills) <= Round4(s.skills) + 20 * n
    <3>1. 20 * n \in Nat /\ z.skills <= s.skills + 1200 * (20 * n)
      BY <2>8, <2>10
    <3> QED BY <2>10, <3>1, RoundingRises
  <2>15. Round4(WeightedSum(z)) <= Round4(WeightedSum(s)) + (6 * n + 10 * m)
    <3>1. 6 * n + 10 * m \in Nat
      BY <2>8
    <3> QED BY <2>11, <2>12, <3>1, RoundingRises
  <2>16. Round4(WeightedSum(s)) \in Nat
    BY <2>11, Rounding
  <2> QED BY <2>8, <2>13, <2>14, <2>15, <2>16
<1>2. ShortlistInv /\ ShortlistInv' /\ [ShortlistNext]_shortlistVars => [Unrelated]_shortlistVars
  BY <1>1
<1> QED BY <1>2, ShortlistInvariant, PTL DEF ShortlistSpec, UnrelatedSkillHelpsOnlyByEmbedding
=============================================================================
