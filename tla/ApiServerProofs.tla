--------------------------- MODULE ApiServerProofs ---------------------------
(***************************************************************************)
(* Safety of the API replicas, for any number of replicas, tasks, items,   *)
(* connections and broadcasts: what a gate released stands, and what a     *)
(* broadcast repeats or loses is bounded.                                  *)
(***************************************************************************)
EXTENDS ApiServer, FiniteSetTheorems, SequenceTheorems, TLAPS

-----------------------------------------------------------------------------
(* The gate.  An id is given once and its task lives in one memory, so the  *)
(* task that is remembered after a release is the one that was released.    *)
OneHolder ==
    \A i \in Ids, r, q \in Replicas :
        tasks[r][i] # NoTask /\ tasks[q][i] # NoTask => r = q

OnlyCreated ==
    \A i \in Ids : i \notin created =>
        released[i] = {} /\ \A r \in Replicas : tasks[r][i] = NoTask

GateInv == TypeOK /\ OneHolder /\ OnlyCreated /\ ReleaseStands

LEMMA NothingPendingApproved == ApprovedItems(Pending) = {}
BY GateAssumption DEF ApprovedItems, Pending, Decisions, Task

LEMMA GateInit == Init => GateInv
<1> SUFFICES ASSUME Init PROVE GateInv
  OBVIOUS
<1>1. TypeOK
  BY DEF Init, TypeOK
<1>2. OneHolder /\ OnlyCreated
  BY DEF Init, OneHolder, OnlyCreated
<1>3. ReleaseStands
  BY DEF Init, ReleaseStands
<1> QED BY <1>1, <1>2, <1>3 DEF GateInv

LEMMA CreateStep ==
    ASSUME GateInv, NEW r \in Replicas, NEW i \in Ids, Create(r, i)
    PROVE  GateInv'
<1>1. /\ i \notin created /\ created' = created \cup {i}
      /\ tasks' = [tasks EXCEPT ![r][i] = Pending]
      /\ UNCHANGED <<released, acknowledged>>
  BY DEF Create
<1>2. Pending \in Task
  BY DEF Task
<1>3. TypeOK'
  BY <1>1, <1>2 DEF GateInv, TypeOK
<1>4. /\ released[i] = {}
      /\ \A q \in Replicas : tasks[q][i] = NoTask
      /\ \A q \in Replicas, j \in Ids : ~(q = r /\ j = i) => tasks'[q][j] = tasks[q][j]
  BY <1>1 DEF GateInv, TypeOK, OnlyCreated
<1>5. OneHolder'
  BY <1>4 DEF GateInv, OneHolder
<1>6. OnlyCreated'
  BY <1>1, <1>4 DEF GateInv, OnlyCreated
<1>7. ReleaseStands'
  BY <1>1, <1>4 DEF GateInv, ReleaseStands
<1> QED BY <1>3, <1>5, <1>6, <1>7 DEF GateInv

(* A task that was released is decided, and takes no other decision. *)
LEMMA SubmitStep ==
    ASSUME GateInv, NEW r \in Replicas, NEW i \in Ids, NEW d \in Decisions, NEW items \in PerItem,
           SubmitDecision(r, i, d, items)
    PROVE  GateInv'
<1> DEFINE T == [status |-> "decided", decision |-> d, items |-> items]
<1>1. /\ tasks[r][i] # NoTask /\ tasks[r][i].status = "pending"
      /\ tasks' = [tasks EXCEPT ![r][i] = T]
      /\ UNCHANGED <<created, released, acknowledged>>
  BY DEF SubmitDecision, Open
<1>2. T \in Task
  BY DEF Task
<1>3. TypeOK'
  BY <1>1, <1>2 DEF GateInv, TypeOK
<1>4. \A q \in Replicas, j \in Ids : ~(q = r /\ j = i) => tasks'[q][j] = tasks[q][j]
  BY <1>1 DEF GateInv, TypeOK
<1>5. OneHolder' /\ OnlyCreated'
  BY <1>1, <1>4 DEF GateInv, OneHolder, OnlyCreated
<1>6. released[i] = {}
  <2>1. tasks[r][i] = Pending
    BY <1>1 DEF GateInv, TypeOK, Task
  <2> QED BY <1>1, <2>1, NothingPendingApproved DEF GateInv, ReleaseStands
<1>7. ReleaseStands'
  BY <1>1, <1>4, <1>6 DEF GateInv, ReleaseStands
<1> QED BY <1>3, <1>5, <1>7 DEF GateInv

LEMMA ReleaseStep ==
    ASSUME GateInv, NEW r \in Replicas, NEW i \in Ids, Release(r, i)
    PROVE  GateInv'
<1>1. /\ ApprovedItems(tasks[r][i]) # {}
      /\ released' = [released EXCEPT ![i] = ApprovedItems(tasks[r][i])]
      /\ UNCHANGED <<tasks, created, acknowledged>>
  BY DEF Release
<1>2. tasks[r][i] # NoTask
  <2>1. ApprovedItems(NoTask) = {} \/ tasks[r][i] # NoTask
    BY DEF ApprovedItems
  <2> QED BY <1>1, <2>1
<1>3. ApprovedItems(tasks[r][i]) \subseteq Items \cup {"all"}
  <2>1. tasks[r][i] \in Task /\ tasks[r][i] # Pending
    BY <1>1, <1>2, NothingPendingApproved DEF GateInv, TypeOK
  <2>2. DOMAIN tasks[r][i].items \subseteq Items
    BY <2>1 DEF Task, PerItem
  <2>3. ApprovedItems(tasks[r][i]) \subseteq DOMAIN tasks[r][i].items \cup {"all"}
    BY <1>2, <2>1 DEF Task, ApprovedItems, Approved, Decisions
  <2> QED BY <2>2, <2>3
<1>4. TypeOK'
  BY <1>1, <1>3 DEF GateInv, TypeOK
<1>5. OneHolder'
  BY <1>1 DEF GateInv, OneHolder
<1>6. OnlyCreated'
  BY <1>1, <1>2 DEF GateInv, TypeOK, OnlyCreated
<1>7. ReleaseStands'
  BY <1>1, <1>2 DEF GateInv, TypeOK, OneHolder, ReleaseStands
<1> QED BY <1>4, <1>5, <1>6, <1>7 DEF GateInv

LEMMA RestartStep == \A r \in Replicas : GateInv /\ Restart(r) => GateInv'
<1> SUFFICES ASSUME GateInv, NEW r \in Replicas, Restart(r) PROVE GateInv'
  OBVIOUS
<1>1. /\ tasks' = [tasks EXCEPT ![r] = [i \in Ids |-> NoTask]]
      /\ UNCHANGED <<created, released, acknowledged>>
  BY DEF Restart
<1>2. \A q \in Replicas, i \in Ids : tasks'[q][i] = tasks[q][i] \/ tasks'[q][i] = NoTask
  BY <1>1 DEF GateInv, TypeOK
<1>3. TypeOK'
  BY <1>1 DEF GateInv, TypeOK
<1>4. OneHolder' /\ OnlyCreated' /\ ReleaseStands'
  BY <1>1, <1>2 DEF GateInv, OneHolder, OnlyCreated, ReleaseStands
<1> QED BY <1>3, <1>4 DEF GateInv

LEMMA GateUnchanged == GateInv /\ UNCHANGED <<tasks, created, released>> /\ acknowledged' \subseteq Ids
                       => GateInv'
BY DEF GateInv, TypeOK, OneHolder, OnlyCreated, ReleaseStands

LEMMA GateStep == GateInv /\ [ServerNext]_serverVars => GateInv'
<1> SUFFICES ASSUME GateInv, [ServerNext]_serverVars PROVE GateInv'
  OBVIOUS
<1>1. CASE Step
  <2> PICK i \in Ids :
        \/ \E r \in Replicas :
             \/ Create(r, i)
             \/ \E d \in Decisions, items \in PerItem : SubmitDecision(r, i, d, items)
             \/ Release(r, i)
        \/ RouteDecision(i)
    BY <1>1 DEF Step
  <2>1. CASE \E r \in Replicas : Create(r, i)
    BY <2>1, CreateStep
  <2>2. CASE \E r \in Replicas, d \in Decisions, items \in PerItem : SubmitDecision(r, i, d, items)
    BY <2>2, SubmitStep
  <2>3. CASE \E r \in Replicas : Release(r, i)
    BY <2>3, ReleaseStep
  <2>4. CASE RouteDecision(i)
    BY <2>4, GateUnchanged DEF RouteDecision, GateInv, TypeOK
  <2> QED BY <2>1, <2>2, <2>3, <2>4
<1>2. CASE \E r \in Replicas : RestartReplica(r)
  BY <1>2, RestartStep DEF RestartReplica
<1>3. CASE UNCHANGED vars
  BY <1>3, GateUnchanged DEF vars, GateInv, TypeOK
<1> QED BY <1>1, <1>2, <1>3 DEF ServerNext, serverVars

LEMMA GateInvariant == ServerSpec => []GateInv
BY GateInit, GateStep, PTL DEF ServerSpec, ServerInit

(* A release is never taken back while its task is remembered.              *)
THEOREM ReleasesStand == ServerSpec => []ReleaseStands
<1>1. GateInv => ReleaseStands
  BY DEF GateInv
<1> QED BY <1>1, GateInvariant, PTL

(* Nothing leaves a gate but by an approval.                                *)
THEOREM OnlyApprovalsLeave == ServerSpec => []OnlyApprovalsRelease
<1>1. GateInv => OnlyApprovalsRelease
  <2> SUFFICES ASSUME GateInv, NEW i \in Ids, NEW r \in Replicas,
                      released[i] # {}, tasks[r][i] # NoTask
               PROVE  \/ tasks[r][i].decision = "approved"
                      \/ /\ tasks[r][i].decision = "partially_approved"
                         /\ released[i] = Approved(tasks[r][i])
    BY DEF OnlyApprovalsRelease
  <2>1. ApprovedItems(tasks[r][i]) = released[i]
    BY DEF GateInv, ReleaseStands
  <2> QED BY <2>1 DEF ApprovedItems
<1> QED BY <1>1, GateInvariant, PTL

(* A task is in the memory of one replica at most: a gate cannot be decided *)
(* differently in two places.                                               *)
THEOREM TasksHaveOneMemory == ServerSpec => []OneMemory
<1>1. GateInv => OneMemory
  <2> SUFFICES ASSUME GateInv, NEW i \in Ids
               PROVE  Cardinality({r \in Replicas : tasks[r][i] # NoTask}) <= 1
    BY DEF OneMemory
  <2> DEFINE H == {r \in Replicas : tasks[r][i] # NoTask}
  <2>1. H = {} \/ \E r \in Replicas : H = {r}
    <3> SUFFICES ASSUME H # {} PROVE \E r \in Replicas : H = {r}
      OBVIOUS
    <3>1. PICK r \in Replicas : r \in H
      OBVIOUS
    <3>2. \A q \in H : q = r
      BY <3>1 DEF GateInv, OneHolder
    <3> QED BY <3>1, <3>2
  <2>2. Cardinality(H) <= 1
    <3> HIDE DEF H
    <3>1. Cardinality({}) = 0
      BY FS_EmptySet
    <3>2. \A r \in Replicas : Cardinality({r}) = 1
      BY FS_Singleton
    <3>3. Cardinality(H) = 0 \/ Cardinality(H) = 1
      BY <2>1, <3>1, <3>2
    <3> QED BY <3>3
  <2> QED BY <2>2
<1> QED BY <1>1, GateInvariant, PTL

-----------------------------------------------------------------------------
(* The hub.  A broadcast has passed every connection it has sent to, and    *)
(* removals only move entries towards the part that was passed; a           *)
(* connection never registers twice.                                        *)
ListedOnce == \A j, k \in DOMAIN active : active[j] = active[k] => j = k

NewUnlisted == \A k \in DOMAIN active : client[active[k]] # "new"

SentAreBehind ==
    \A b \in Broadcasts, c \in Connections :
        /\ sent[b][c] <= 1
        /\ sent[b][c] # 0 => cursor[b].stage # "ready" /\ client[c] # "new"
        /\ sent[b][c] # 0 /\ cursor[b].stage = "sending" =>
             \A k \in DOMAIN active : active[k] = c => k <= cursor[b].at

HubInv == Hub!TypeOK /\ ListedOnce /\ NewUnlisted /\ SentAreBehind

LEMMA HubTypes ==
    ASSUME Hub!TypeOK
    PROVE  /\ active \in Seq(Connections)
           /\ \A k \in DOMAIN active : active[k] \in Connections
           /\ DOMAIN active = 1 .. Len(active) /\ Len(active) \in Nat
           /\ \A b \in Broadcasts : cursor[b].at \in Nat /\ departures[b] \in Nat
           /\ \A b \in Broadcasts, c \in Connections : sent[b][c] \in Nat
BY DEF Hub!TypeOK

LEMMA RemoveAtShifts ==
    ASSUME NEW S, NEW s \in Seq(S), NEW k \in 1 .. Len(s)
    PROVE  /\ Hub!RemoveAt(s, k) \in Seq(S)
           /\ Len(Hub!RemoveAt(s, k)) = Len(s) - 1
           /\ \A j \in 1 .. Len(s) - 1 :
                Hub!RemoveAt(s, k)[j] = s[IF j < k THEN j ELSE j + 1]
<1>1. /\ SubSeq(s, 1, k - 1) \in Seq(S)
      /\ Len(SubSeq(s, 1, k - 1)) = k - 1
      /\ \A j \in 1 .. k - 1 : SubSeq(s, 1, k - 1)[j] = s[j]
  OBVIOUS
<1>2. \A j \in k + 1 .. Len(s) : s[j] \in S
  OBVIOUS
<1>3. SubSeq(s, k + 1, Len(s)) \in Seq(S)
  BY <1>2, SubSeqProperties
<1>4. Len(SubSeq(s, k + 1, Len(s))) = Len(s) - k
  OBVIOUS
<1>5. \A j \in 1 .. Len(s) - k : SubSeq(s, k + 1, Len(s))[j] = s[k + j]
  OBVIOUS
<1> DEFINE a == SubSeq(s, 1, k - 1)
           b == SubSeq(s, k + 1, Len(s))
<1>6. /\ a \in Seq(S) /\ Len(a) = k - 1 /\ \A j \in 1 .. k - 1 : a[j] = s[j]
      /\ b \in Seq(S) /\ Len(b) = Len(s) - k /\ \A j \in 1 .. Len(s) - k : b[j] = s[k + j]
  BY <1>1, <1>3, <1>4, <1>5
<1>7. Hub!RemoveAt(s, k) = a \o b
  BY DEF Hub!RemoveAt
<1> HIDE DEF a, b
<1>8. a \o b \in Seq(S) /\ Len(a \o b) = Len(s) - 1
  BY <1>6
<1>9. ASSUME NEW j \in 1 .. Len(s) - 1 PROVE (a \o b)[j] = s[IF j < k THEN j ELSE j + 1]
  <2>1. CASE j < k
    BY <1>6, <2>1
  <2>2. CASE ~(j < k)
    <3>1. j - (k - 1) \in 1 .. Len(s) - k /\ k + (j - (k - 1)) = j + 1
      BY <2>2
    <3>2. (a \o b)[j] = b[j - Len(a)]
      BY <1>6, <2>2
    <3>3. b[j - (k - 1)] = s[j + 1]
      BY <1>6, <3>1
    <3> QED BY <1>6, <2>2, <3>2, <3>3
  <2> QED BY <2>1, <2>2
<1> QED BY <1>7, <1>8, <1>9

LEMMA HubInit == Hub!Init => HubInv
BY DEF Hub!Init, Hub!TypeOK, HubInv, ListedOnce, NewUnlisted, SentAreBehind

(* Of the connections registered throughout a broadcast, those it has       *)
(* passed without a send.                                                   *)
Passed(b) ==
    {c \in present[b] : sent[b][c] = 0 /\ \E k \in DOMAIN active : k <= cursor[b].at /\ active[k] = c}

Missed(b) == {c \in present[b] : sent[b][c] = 0}

LossInv ==
    \A b \in Broadcasts :
        /\ cursor[b].stage = "sending" =>
             /\ \A c \in present[b] : \E k \in DOMAIN active : active[k] = c
             /\ Cardinality(Passed(b)) <= departures[b]
        /\ cursor[b].stage = "done" => Cardinality(Missed(b)) <= departures[b]

LEMMA Sizes ==
    \A A \in SUBSET Connections :
        /\ Cardinality(A) \in Nat
        /\ \A B \in SUBSET A : Cardinality(B) <= Cardinality(A)
        /\ \A x : \A B \in SUBSET (A \cup {x}) : Cardinality(B) <= Cardinality(A) + 1
<1> SUFFICES ASSUME NEW A \in SUBSET Connections
             PROVE  /\ Cardinality(A) \in Nat
                    /\ \A B \in SUBSET A : Cardinality(B) <= Cardinality(A)
                    /\ \A x : \A B \in SUBSET (A \cup {x}) : Cardinality(B) <= Cardinality(A) + 1
  OBVIOUS
<1>1. IsFiniteSet(A)
  BY ServerAssumption, FS_Subset
<1>2. Cardinality(A) \in Nat
  BY <1>1, FS_CardinalityType
<1>3. ASSUME NEW B \in SUBSET A PROVE Cardinality(B) <= Cardinality(A)
  BY <1>1, FS_Subset
<1>4. ASSUME NEW x, NEW B \in SUBSET (A \cup {x}) PROVE Cardinality(B) <= Cardinality(A) + 1
  <2> DEFINE C == A \cup {x}
  <2>1. IsFiniteSet(C) /\ Cardinality(C) = IF x \in A THEN Cardinality(A) ELSE Cardinality(A) + 1
    BY <1>1, FS_AddElement
  <2> HIDE DEF C
  <2>2. B \in SUBSET C
    BY DEF C
  <2>3. IsFiniteSet(B) /\ Cardinality(B) <= Cardinality(C)
    BY <2>1, <2>2, FS_Subset
  <2>4. Cardinality(B) \in Nat
    BY <2>3, FS_CardinalityType
  <2> QED BY <1>2, <2>1, <2>3, <2>4
<1> QED BY <1>2, <1>3, <1>4

LEMMA ConnectStep ==
    ASSUME HubInv, LossInv, NEW c \in Connections, Hub!Connect(c)
    PROVE  HubInv' /\ LossInv'
<1>1. /\ client[c] = "new" /\ client' = [client EXCEPT ![c] = "open"]
      /\ active' = Append(active, c)
      /\ UNCHANGED <<cursor, sent, present, departures>>
  BY DEF Hub!Connect, Hub!Register
<1>2. Hub!TypeOK
  BY DEF HubInv
<1>3. Hub!TypeOK'
  BY <1>1, <1>2 DEF Hub!TypeOK
<1>4. /\ DOMAIN active' = 1 .. Len(active) + 1
      /\ \A k \in DOMAIN active : active'[k] = active[k]
      /\ active'[Len(active) + 1] = c
  BY <1>1, <1>2, HubTypes
<1>5. /\ client'[c] = "open" /\ \A d \in Connections : d # c => client'[d] = client[d]
  BY <1>1, <1>2 DEF Hub!TypeOK
<1>6. \A k \in DOMAIN active : active[k] # c /\ active[k] \in Connections
  BY <1>1, <1>2, HubTypes DEF HubInv, NewUnlisted
<1>7. ListedOnce'
  BY <1>2, <1>4, <1>6, HubTypes DEF HubInv, ListedOnce
<1>8. NewUnlisted'
  BY <1>2, <1>4, <1>5, <1>6, HubTypes DEF HubInv, NewUnlisted
<1>9. SentAreBehind'
  BY <1>1, <1>2, <1>4, <1>5, HubTypes DEF HubInv, SentAreBehind
<1>10. LossInv'
  <2> SUFFICES ASSUME NEW b \in Broadcasts
               PROVE  /\ cursor[b].stage = "sending" =>
                           /\ \A d \in present[b] : \E k \in DOMAIN active' : active'[k] = d
                           /\ Cardinality(Passed(b)') <= departures[b]
                      /\ cursor[b].stage = "done" => Cardinality(Missed(b)') <= departures[b]
    BY <1>1 DEF LossInv
  <2>1. Missed(b)' = Missed(b)
    BY <1>1 DEF Missed
  <2>2. CASE cursor[b].stage = "sending"
    <3>1. \A d \in present[b] : \E k \in DOMAIN active : active[k] = d
      BY <2>2 DEF LossInv
    <3>2. \A d \in present[b] : d # c
      BY <1>6, <3>1
    <3>3. Passed(b)' = Passed(b)
      BY <1>1, <1>2, <1>4, <3>2, HubTypes DEF Passed
    <3>4. \A d \in present[b] : \E k \in DOMAIN active' : active'[k] = d
      BY <1>2, <1>4, <3>1, HubTypes
    <3> QED BY <2>2, <3>3, <3>4 DEF LossInv
  <2> QED BY <2>1, <2>2 DEF LossInv
<1> QED BY <1>3, <1>7, <1>8, <1>9, <1>10 DEF HubInv

(* A removal brings one entry at most from ahead of a broadcast to behind   *)
(* it.                                                                      *)
LEMMA DisconnectStep ==
    ASSUME HubInv, LossInv, NEW c \in Connections, Hub!Disconnect(c)
    PROVE  HubInv' /\ LossInv'
<1>1. /\ client' = [client EXCEPT ![c] = "left"]
      /\ present' = [b \in Broadcasts |->
           IF cursor[b].stage = "sending" THEN present[b] \ {c} ELSE present[b]]
      /\ departures' = [b \in Broadcasts |->
           IF cursor[b].stage = "sending" THEN departures[b] + 1 ELSE departures[b]]
      /\ UNCHANGED <<cursor, sent>>
  BY DEF Hub!Disconnect, Hub!Running
<1>2. Hub!TypeOK
  BY DEF HubInv
<1>3. PICK k \in 1 .. Len(active) : active[k] = c /\ active' = Hub!RemoveAt(active, k)
  BY <1>2, HubTypes DEF Hub!Disconnect
<1>4. /\ active' \in Seq(Connections)
      /\ Len(active') = Len(active) - 1
      /\ \A j \in 1 .. Len(active) - 1 : active'[j] = active[IF j < k THEN j ELSE j + 1]
  <2>1. PICK s \in Seq(Connections) : s = active
    BY <1>2, HubTypes
  <2>2. k \in 1 .. Len(s)
    BY <2>1
  <2>3. /\ Hub!RemoveAt(s, k) \in Seq(Connections)
        /\ Len(Hub!RemoveAt(s, k)) = Len(s) - 1
        /\ \A j \in 1 .. Len(s) - 1 : Hub!RemoveAt(s, k)[j] = s[IF j < k THEN j ELSE j + 1]
    BY <2>2, RemoveAtShifts
  <2> QED BY <1>3, <2>1, <2>3
<1>5. Hub!TypeOK'
  BY <1>1, <1>2, <1>4 DEF Hub!TypeOK
<1>6. DOMAIN active' = 1 .. Len(active) - 1
  BY <1>4
<1>7. \A j \in DOMAIN active' :
        \E i \in DOMAIN active :
            active'[j] = active[i] /\ i # k /\ j <= i /\ i <= j + 1 /\ (i = IF j < k THEN j ELSE j + 1)
  BY <1>2, <1>4, <1>6, HubTypes
<1>8. \A i \in DOMAIN active : i # k => \E j \in DOMAIN active' : active'[j] = active[i]
  <2> SUFFICES ASSUME NEW i \in 1 .. Len(active), i # k
               PROVE  \E j \in DOMAIN active' : active'[j] = active[i]
    BY <1>2, HubTypes
  <2>0. Len(active) \in Nat
    BY <1>2, HubTypes
  <2>1. CASE i < k
    BY <1>4, <1>6, <2>0, <2>1
  <2>2. CASE i > k
    <3>1. i - 1 \in DOMAIN active' /\ ~(i - 1 < k) /\ (i - 1) + 1 = i
      BY <1>6, <2>0, <2>2
    <3> QED BY <1>4, <1>6, <3>1
  <2> QED BY <2>1, <2>2
<1>9. ListedOnce'
  <2> SUFFICES ASSUME NEW j \in DOMAIN active', NEW l \in DOMAIN active', active'[j] = active'[l]
               PROVE  j = l
    BY DEF ListedOnce
  <2>1. PICK i \in DOMAIN active : active'[j] = active[i] /\ (i = IF j < k THEN j ELSE j + 1)
    BY <1>7
  <2>2. PICK m \in DOMAIN active : active'[l] = active[m] /\ (m = IF l < k THEN l ELSE l + 1)
    BY <1>7
  <2>3. i = m
    BY <2>1, <2>2 DEF HubInv, ListedOnce
  <2>4. j \in Int /\ l \in Int /\ k \in Int
    BY <1>2, <1>6, HubTypes
  <2> QED BY <2>1, <2>2, <2>3, <2>4
<1>10. \A d \in Connections : client'[d] = IF d = c THEN "left" ELSE client[d]
  BY <1>1, <1>2 DEF Hub!TypeOK
<1>11. NewUnlisted'
  BY <1>2, <1>7, <1>10, HubTypes DEF HubInv, NewUnlisted
<1>12. SentAreBehind'
  <2> SUFFICES ASSUME NEW b \in Broadcasts, NEW d \in Connections
               PROVE  /\ sent[b][d] <= 1
                      /\ sent[b][d] # 0 => cursor[b].stage # "ready" /\ client'[d] # "new"
                      /\ sent[b][d] # 0 /\ cursor[b].stage = "sending" =>
                           \A j \in DOMAIN active' : active'[j] = d => j <= cursor[b].at
    BY <1>1 DEF SentAreBehind
  <2>1. /\ sent[b][d] <= 1
        /\ sent[b][d] # 0 => cursor[b].stage # "ready" /\ client'[d] # "new"
    BY <1>10 DEF HubInv, SentAreBehind
  <2>2. ASSUME sent[b][d] # 0, cursor[b].stage = "sending",
               NEW j \in DOMAIN active', active'[j] = d
        PROVE  j <= cursor[b].at
    <3>1. PICK i \in DOMAIN active : active'[j] = active[i] /\ j <= i
      BY <1>7
    <3>2. i <= cursor[b].at
      BY <2>2, <3>1 DEF HubInv, SentAreBehind
    <3>3. i \in Int /\ j \in Int /\ cursor[b].at \in Int
      BY <1>2, <1>6, HubTypes
    <3> QED BY <3>1, <3>2, <3>3
  <2> QED BY <2>1, <2>2
<1>13. LossInv'
  <2> SUFFICES ASSUME NEW b \in Broadcasts
               PROVE  /\ cursor[b].stage = "sending" =>
                           /\ \A d \in present'[b] : \E j \in DOMAIN active' : active'[j] = d
                           /\ Cardinality(Passed(b)') <= departures'[b]
                      /\ cursor[b].stage = "done" => Cardinality(Missed(b)') <= departures'[b]
    BY <1>1 DEF LossInv
  <2>1. CASE cursor[b].stage = "sending"
    <3>1. present'[b] = present[b] \ {c} /\ departures'[b] = departures[b] + 1
      BY <1>1, <2>1
    <3>2. \A d \in present'[b] : \E j \in DOMAIN active' : active'[j] = d
      <4> SUFFICES ASSUME NEW d \in present[b], d # c
                   PROVE  \E j \in DOMAIN active' : active'[j] = d
        BY <3>1
      <4>1. PICK i \in DOMAIN active : active[i] = d
        BY <2>1 DEF LossInv
      <4> QED BY <1>3, <1>8, <4>1
    <3>3. Passed(b)' \subseteq Passed(b) \cup {active[cursor[b].at + 1]}
      <4> SUFFICES ASSUME NEW d \in present[b], sent[b][d] = 0,
                          NEW j \in DOMAIN active', j <= cursor[b].at, active'[j] = d
                   PROVE  d \in Passed(b) \cup {active[cursor[b].at + 1]}
        BY <1>1, <3>1 DEF Passed
      <4>1. PICK i \in DOMAIN active : d = active[i] /\ i <= j + 1
        BY <1>7
      <4>2. i \in Int /\ j \in Int /\ cursor[b].at \in Int
        BY <1>2, <1>6, HubTypes
      <4>3. i <= cursor[b].at \/ i = cursor[b].at + 1
        BY <4>1, <4>2
      <4> QED BY <4>1, <4>3 DEF Passed
    <3>4. Passed(b) \in SUBSET Connections
      BY <1>2 DEF Passed, Hub!TypeOK
    <3>5. Cardinality(Passed(b)) \in Nat
          /\ Cardinality(Passed(b)') <= Cardinality(Passed(b)) + 1
      BY <3>3, <3>4, Sizes
    <3>6. Passed(b)' \in SUBSET Connections
      BY <1>5 DEF Passed, Hub!TypeOK
    <3>7. Cardinality(Passed(b)') \in Nat
      BY <3>6, Sizes
    <3>8. Cardinality(Passed(b)) <= departures[b] /\ departures[b] \in Nat
      BY <1>2, <2>1, HubTypes DEF LossInv
    <3>9. Cardinality(Passed(b)') <= departures[b] + 1
      BY <3>5, <3>7, <3>8
    <3> QED BY <2>1, <3>1, <3>2, <3>9
  <2>2. CASE cursor[b].stage # "sending"
    <3>1. Missed(b)' = Missed(b) /\ departures'[b] = departures[b]
      BY <1>1, <2>2 DEF Missed
    <3> QED BY <2>2, <3>1 DEF LossInv
  <2> QED BY <2>1, <2>2
<1> QED BY <1>5, <1>9, <1>11, <1>12, <1>13 DEF HubInv

(* A send is to the entry next to the ones passed, which were the only ones *)
(* sent to.                                                                 *)
LEMMA BroadcastStep ==
    ASSUME HubInv, LossInv, NEW b \in Broadcasts, Hub!Begin(b) \/ Hub!Resume(b)
    PROVE  HubInv' /\ LossInv'
<1> DEFINE at == IF Hub!Begin(b) THEN 0 ELSE cursor[b].at
           send == /\ at < Len(active)
                   /\ cursor' = [cursor EXCEPT ![b] = [stage |-> "sending", at |-> at + 1]]
                   /\ client[active[at + 1]] = "open"
                   /\ sent' = [sent EXCEPT ![b][active[at + 1]] = @ + 1]
           stop == /\ cursor' = [cursor EXCEPT ![b] = [stage |-> "done", at |-> at]]
                   /\ at >= Len(active) /\ sent' = sent
           raise == /\ cursor' = [cursor EXCEPT ![b] = [stage |-> "raised", at |-> at]]
                    /\ sent' = sent
<1>1. Hub!TypeOK
  BY DEF HubInv
<1>2. at \in Nat /\ cursor[b].at \in Nat /\ Len(active) \in Nat
      /\ DOMAIN active = 1 .. Len(active)
  BY <1>1, HubTypes
<1>3. UNCHANGED <<client, active, departures>>
  BY DEF Hub!Begin, Hub!Resume
<1>4. Hub!Iterate(b, at)
  BY DEF Hub!Begin, Hub!Resume
<1>5. present' = [present EXCEPT ![b] = IF Hub!Begin(b) THEN {active[k] : k \in DOMAIN active} ELSE @]
  BY <1>1 DEF Hub!Begin, Hub!Resume, Hub!TypeOK
<1>6. cursor[b].stage = IF Hub!Begin(b) THEN "ready" ELSE "sending"
  BY DEF Hub!Begin, Hub!Resume, Hub!Running
<1> HIDE DEF at
<1>7. send \/ stop \/ raise
  BY <1>2, <1>4 DEF Hub!Iterate, Hub!Exhausted
<1>8. {active[k] : k \in DOMAIN active} \in SUBSET Connections
  BY <1>1, HubTypes
<1>9. present' \in [Broadcasts -> SUBSET Connections]
  BY <1>1, <1>5, <1>8 DEF Hub!TypeOK
<1>10. \A e \in Broadcasts : e # b =>
         cursor'[e] = cursor[e] /\ sent'[e] = sent[e] /\ present'[e] = present[e]
  BY <1>1, <1>5, <1>7 DEF Hub!TypeOK
<1>11. ListedOnce' /\ NewUnlisted'
  BY <1>3 DEF HubInv, ListedOnce, NewUnlisted
<1>12. \A d \in Connections : sent[b][d] \in Nat /\ sent[b][d] <= 1
         /\ (sent[b][d] # 0 => cursor[b].stage # "ready" /\ client[d] # "new"
              /\ \A k \in DOMAIN active : active[k] = d => k <= at)
  <2> SUFFICES ASSUME NEW d \in Connections
               PROVE sent[b][d] \in Nat /\ sent[b][d] <= 1
         /\ (sent[b][d] # 0 => cursor[b].stage # "ready" /\ client[d] # "new"
              /\ \A k \in DOMAIN active : active[k] = d => k <= at)
    OBVIOUS
  <2>1. sent[b][d] \in Nat /\ sent[b][d] <= 1
         /\ (sent[b][d] # 0 => cursor[b].stage # "ready" /\ client[d] # "new")
    BY <1>1, HubTypes DEF HubInv, SentAreBehind
  <2>2. sent[b][d] # 0 => cursor[b].stage = "sending" /\ at = cursor[b].at
    BY <1>6, <2>1 DEF at
  <2>3. sent[b][d] # 0 => \A k \in DOMAIN active : active[k] = d => k <= at
    BY <2>2 DEF HubInv, SentAreBehind
  <2> QED BY <2>1, <2>3
<1>13. CASE send
  <2> DEFINE x == active[at + 1]
  <2>1. x \in Connections /\ at + 1 \in DOMAIN active
    BY <1>1, <1>2, <1>13, HubTypes
  <2>2. sent[b][x] = 0
    BY <1>2, <1>12, <2>1
  <2>3. /\ cursor'[b].stage = "sending" /\ cursor'[b].at = at + 1
        /\ sent'[b][x] = 1
        /\ \A d \in Connections : d # x => sent'[b][d] = sent[b][d]
    BY <1>1, <1>13, <2>1, <2>2 DEF Hub!TypeOK
  <2>4. Hub!TypeOK'
    <3>1. [stage |-> "sending", at |-> at + 1] \in [stage : {"ready", "sending", "done", "raised"}, at : Nat]
      BY <1>2
    <3>2. cursor' \in [Broadcasts -> [stage : {"ready", "sending", "done", "raised"}, at : Nat]]
      BY <1>1, <1>13, <3>1 DEF Hub!TypeOK
    <3>3. sent' \in [Broadcasts -> [Connections -> Nat]]
      BY <1>1, <1>13, <2>1 DEF Hub!TypeOK
    <3> QED BY <1>1, <1>3, <1>9, <3>2, <3>3 DEF Hub!TypeOK
  <2>5. SentAreBehind'
    <3> SUFFICES ASSUME NEW e \in Broadcasts, NEW d \in Connections
                 PROVE  /\ sent'[e][d] <= 1
                        /\ sent'[e][d] # 0 => cursor'[e].stage # "ready" /\ client[d] # "new"
                        /\ sent'[e][d] # 0 /\ cursor'[e].stage = "sending" =>
                             \A k \in DOMAIN active : active[k] = d => k <= cursor'[e].at
      BY <1>3 DEF SentAreBehind
    <3>1. CASE e # b
      BY <1>10, <3>1 DEF HubInv, SentAreBehind
    <3>2. CASE e = b /\ d = x
      BY <1>2, <1>13, <2>1, <2>3, <3>2 DEF HubInv, ListedOnce
    <3>3. CASE e = b /\ d # x
      BY <1>2, <1>12, <2>3, <3>3
    <3> QED BY <3>1, <3>2, <3>3
  <2>6. Passed(b)' \subseteq IF Hub!Begin(b) THEN {} ELSE Passed(b)
    <3> SUFFICES ASSUME NEW d \in present'[b], sent'[b][d] = 0,
                        NEW k \in DOMAIN active, k <= at + 1, active[k] = d
                 PROVE  ~Hub!Begin(b) /\ d \in Passed(b)
      BY <1>3, <2>3 DEF Passed
    <3>1. d # x /\ d \in Connections
      BY <1>1, <2>3, HubTypes
    <3>2. k # at + 1 /\ k \in Nat /\ k >= 1
      BY <1>2, <3>1
    <3>3. k <= at
      BY <1>2, <3>2
    <3>4. ~Hub!Begin(b)
      BY <3>2, <3>3 DEF at
    <3> QED BY <1>1, <1>5, <2>3, <3>1, <3>3, <3>4 DEF Passed, at, Hub!TypeOK
  <2>7. Cardinality(Passed(b)') <= departures[b]
    <3>1. departures[b] \in Nat
      BY <1>1, HubTypes
    <3>2. CASE Hub!Begin(b)
      <4>1. Passed(b)' = {}
        BY <2>6, <3>2
      <4> QED BY <3>1, <4>1, FS_EmptySet
    <3>3. CASE ~Hub!Begin(b)
      <4>1. Passed(b)' \in SUBSET Passed(b)
        BY <2>6, <3>3
      <4>2. Passed(b) \in SUBSET Connections
        BY <1>1 DEF Passed, Hub!TypeOK
      <4>3. Passed(b)' \in SUBSET Connections
        BY <4>1, <4>2
      <4>4. Cardinality(Passed(b)') \in Nat /\ Cardinality(Passed(b)) \in Nat
            /\ Cardinality(Passed(b)') <= Cardinality(Passed(b))
        BY <4>1, <4>2, <4>3, Sizes
      <4>5. Cardinality(Passed(b)) <= departures[b]
        BY <1>6, <3>3 DEF LossInv
      <4> QED BY <3>1, <4>4, <4>5
    <3> QED BY <3>2, <3>3
  <2>8. \A d \in present'[b] : \E k \in DOMAIN active : active[k] = d
    <3>1. CASE Hub!Begin(b)
      BY <1>1, <1>5, <3>1 DEF Hub!TypeOK
    <3>2. CASE ~Hub!Begin(b)
      BY <1>1, <1>5, <1>6, <3>2 DEF Hub!TypeOK, LossInv
    <3> QED BY <3>1, <3>2
  <2>9. LossInv'
    <3> SUFFICES ASSUME NEW e \in Broadcasts, e # b
                 PROVE  /\ cursor[e].stage = "sending" =>
                             /\ \A c \in present[e] : \E k \in DOMAIN active : active[k] = c
                             /\ Cardinality(Passed(e)') <= departures[e]
                        /\ cursor[e].stage = "done" => Cardinality(Missed(e)') <= departures[e]
      BY <1>3, <1>10, <2>3, <2>7, <2>8 DEF LossInv
    <3>1. Passed(e)' = Passed(e) /\ Missed(e)' = Missed(e)
      BY <1>3, <1>10 DEF Passed, Missed
    <3> QED BY <3>1 DEF LossInv
  <2> QED BY <1>11, <2>4, <2>5, <2>9 DEF HubInv
<1>14. CASE stop \/ raise
  <2>1. /\ cursor'[b].stage = (IF stop THEN "done" ELSE "raised") /\ sent' = sent
        /\ cursor'[b].stage \in {"done", "raised"}
    BY <1>1, <1>14 DEF Hub!TypeOK
  <2>2. Hub!TypeOK'
    <3>1. \A t \in {"done", "raised"} :
            [stage |-> t, at |-> at] \in [stage : {"ready", "sending", "done", "raised"}, at : Nat]
      BY <1>2
    <3>2. cursor' \in [Broadcasts -> [stage : {"ready", "sending", "done", "raised"}, at : Nat]]
      BY <1>1, <1>14, <3>1 DEF Hub!TypeOK
    <3> QED BY <1>1, <1>3, <1>9, <2>1, <3>2 DEF Hub!TypeOK
  <2>3. SentAreBehind'
    BY <1>3, <1>10, <1>12, <2>1 DEF HubInv, SentAreBehind
  <2>4. cursor'[b].stage = "done" => Cardinality(Missed(b)') <= departures[b]
    <3> SUFFICES ASSUME stop PROVE Cardinality(Missed(b)') <= departures[b]
      BY <2>1
    <3>0. at >= Len(active) /\ departures[b] \in Nat
      BY <1>1, HubTypes
    <3>1. CASE Hub!Begin(b)
      <4>1. DOMAIN active = {}
        BY <1>2, <3>0, <3>1 DEF at
      <4>2. present'[b] = {}
        BY <1>1, <1>5, <3>1, <4>1 DEF Hub!TypeOK
      <4>3. Missed(b)' = {}
        BY <4>2 DEF Missed
      <4> QED BY <3>0, <4>3, FS_EmptySet
    <3>2. CASE ~Hub!Begin(b)
      <4>1. present'[b] = present[b] /\ cursor[b].stage = "sending" /\ at = cursor[b].at
        BY <1>1, <1>5, <1>6, <3>2 DEF Hub!TypeOK, at
      <4>2. Missed(b)' \in SUBSET Passed(b)
        <5> SUFFICES ASSUME NEW d \in present[b], sent[b][d] = 0 PROVE d \in Passed(b)
          BY <2>1, <4>1 DEF Missed
        <5>1. PICK k \in DOMAIN active : active[k] = d
          BY <4>1 DEF LossInv
        <5>2. k <= cursor[b].at
          BY <1>2, <3>0, <4>1
        <5> QED BY <5>1, <5>2 DEF Passed
      <4>3. Passed(b) \in SUBSET Connections
        BY <1>1 DEF Passed, Hub!TypeOK
      <4>4. Missed(b)' \in SUBSET Connections
        BY <4>2, <4>3
      <4>5. Cardinality(Missed(b)') \in Nat /\ Cardinality(Passed(b)) \in Nat
            /\ Cardinality(Missed(b)') <= Cardinality(Passed(b))
        BY <4>2, <4>3, <4>4, Sizes
      <4>6. Cardinality(Passed(b)) <= departures[b]
        BY <4>1 DEF LossInv
      <4> QED BY <3>0, <4>5, <4>6
    <3> QED BY <3>1, <3>2
  <2>5. LossInv'
    <3> SUFFICES ASSUME NEW e \in Broadcasts, e # b
                 PROVE  /\ cursor[e].stage = "sending" =>
                             /\ \A c \in present[e] : \E k \in DOMAIN active : active[k] = c
                             /\ Cardinality(Passed(e)') <= departures[e]
                        /\ cursor[e].stage = "done" => Cardinality(Missed(e)') <= departures[e]
      BY <1>3, <1>10, <2>1, <2>4 DEF LossInv
    <3>1. Passed(e)' = Passed(e) /\ Missed(e)' = Missed(e)
      BY <1>3, <1>10 DEF Passed, Missed
    <3> QED BY <3>1 DEF LossInv
  <2> QED BY <1>11, <2>2, <2>3, <2>5 DEF HubInv
<1> QED BY <1>7, <1>13, <1>14

LEMMA DropStep ==
    ASSUME HubInv, LossInv, NEW c \in Connections, Hub!Drop(c)
    PROVE  HubInv' /\ LossInv'
<1>1. /\ client[c] = "open" /\ client' = [client EXCEPT ![c] = "dropped"]
      /\ UNCHANGED <<active, cursor, sent, present, departures>>
  BY DEF Hub!Drop
<1>2. Hub!TypeOK'
  BY <1>1 DEF HubInv, Hub!TypeOK
<1>3. \A d \in Connections : client[d] # "new" => client'[d] # "new"
  BY <1>1 DEF HubInv, Hub!TypeOK
<1>4. ListedOnce'
  BY <1>1 DEF HubInv, ListedOnce
<1>6. LossInv'
  <2>1. \A b \in Broadcasts : Passed(b)' = Passed(b) /\ Missed(b)' = Missed(b)
    BY <1>1 DEF Passed, Missed
  <2> QED BY <1>1, <2>1 DEF LossInv
<1>5. NewUnlisted' /\ SentAreBehind'
  BY <1>1, <1>3, HubTypes DEF HubInv, NewUnlisted, SentAreBehind
<1> QED BY <1>2, <1>4, <1>5, <1>6 DEF HubInv

LEMMA ShutdownStep == HubInv /\ LossInv /\ Hub!Shutdown => HubInv' /\ LossInv'
<1> SUFFICES ASSUME HubInv, LossInv, Hub!Shutdown PROVE HubInv' /\ LossInv'
  OBVIOUS
<1>1. /\ client' = [c \in Connections |-> IF client[c] = "new" THEN "new" ELSE "left"]
      /\ active' = <<>>
      /\ UNCHANGED <<sent, present, departures>>
  BY DEF Hub!Shutdown
<1>2. \A b \in Broadcasts :
        cursor'[b] = IF cursor[b].stage = "sending" THEN [cursor[b] EXCEPT !.stage = "raised"] ELSE cursor[b]
  BY DEF Hub!Shutdown, Hub!Running
<1>3. \A b \in Broadcasts : cursor[b] \in [stage : {"ready", "sending", "done", "raised"}, at : Nat]
  BY DEF HubInv, Hub!TypeOK
<1>4. \A b \in Broadcasts :
        /\ cursor'[b] \in [stage : {"ready", "sending", "done", "raised"}, at : Nat]
        /\ cursor'[b].stage = IF cursor[b].stage = "sending" THEN "raised" ELSE cursor[b].stage
  BY <1>2, <1>3
<1>5. Hub!TypeOK'
  <2>1. cursor' \in [Broadcasts -> [stage : {"ready", "sending", "done", "raised"}, at : Nat]]
    BY <1>4 DEF Hub!Shutdown
  <2>2. client' \in [Connections -> {"new", "open", "left", "dropped"}] /\ active' \in Seq(Connections)
    BY <1>1
  <2> QED BY <1>1, <2>1, <2>2 DEF HubInv, Hub!TypeOK
<1>6. DOMAIN active' = {}
  BY <1>1
<1>7. ListedOnce' /\ NewUnlisted'
  BY <1>6 DEF ListedOnce, NewUnlisted
<1>8. SentAreBehind'
  BY <1>1, <1>4 DEF HubInv, SentAreBehind
<1>9. LossInv'
  <2>1. \A b \in Broadcasts : Missed(b)' = Missed(b)
    BY <1>1 DEF Missed
  <2> QED BY <1>1, <1>4, <2>1 DEF LossInv
<1> QED BY <1>5, <1>7, <1>8, <1>9 DEF HubInv

LEMMA LossInit == Hub!Init => LossInv
BY DEF Hub!Init, LossInv

LEMMA HubStep == HubInv /\ LossInv /\ [ServerNext]_serverVars => HubInv' /\ LossInv'
<1> SUFFICES ASSUME HubInv, LossInv, [ServerNext]_serverVars PROVE HubInv' /\ LossInv'
  OBVIOUS
<1>1. CASE Hub!Step
  <2>1. CASE \E c \in Connections : Hub!Connect(c)
    BY <2>1, ConnectStep
  <2>2. CASE \E c \in Connections : Hub!Disconnect(c)
    BY <2>2, DisconnectStep
  <2>3. CASE \E c \in Connections : Hub!Drop(c)
    BY <2>3, DropStep
  <2>4. CASE \E b \in Broadcasts : Hub!Begin(b) \/ Hub!Resume(b)
    BY <2>4, BroadcastStep
  <2> QED BY <1>1, <2>1, <2>2, <2>3, <2>4 DEF Hub!Step
<1>2. CASE Hub!Shutdown
  BY <1>2, ShutdownStep
<1>3. CASE UNCHANGED hubVars
  <2>1. UNCHANGED <<client, active, cursor, sent, present, departures>>
    BY <1>3 DEF hubVars
  <2>2. HubInv'
    BY <2>1 DEF HubInv, Hub!TypeOK, ListedOnce, NewUnlisted, SentAreBehind
  <2>3. LossInv'
    BY <2>1 DEF LossInv, Passed, Missed
  <2> QED BY <2>2, <2>3
<1>4. Hub!Step \/ Hub!Shutdown \/ UNCHANGED hubVars
  BY DEF ServerNext, serverVars, RestartReplica
<1> QED BY <1>1, <1>2, <1>3, <1>4

LEMMA HubInvariant == ServerSpec => [](HubInv /\ LossInv)
<1>1. ServerInit => HubInv /\ LossInv
  BY HubInit, LossInit DEF ServerInit
<1> QED BY <1>1, HubStep, PTL DEF ServerSpec

(* A broadcast reaches no client twice.                                     *)
THEOREM NoClientTwice == ServerSpec => []AtMostOnce
<1>1. HubInv => AtMostOnce
  BY DEF HubInv, SentAreBehind, AtMostOnce, Hub!AtMostOnce
<1> QED BY <1>1, HubInvariant, PTL

(* A broadcast that ends normally loses at most one of its clients for each *)
(* that left meanwhile.                                                     *)
THEOREM LossesAreDepartures == ServerSpec => []LossBounded
<1>1. LossInv => LossBounded
  <2> SUFFICES ASSUME LossInv PROVE LossBounded
    OBVIOUS
  <2>1. \A b \in Broadcasts :
          cursor[b].stage = "done" => Cardinality({c \in present[b] : sent[b][c] = 0}) <= departures[b]
    <3> SUFFICES ASSUME NEW b \in Broadcasts, cursor[b].stage = "done"
                 PROVE  Cardinality({c \in present[b] : sent[b][c] = 0}) <= departures[b]
      OBVIOUS
    <3>1. Missed(b) = {c \in present[b] : sent[b][c] = 0}
      BY DEF Missed
    <3>2. Cardinality(Missed(b)) <= departures[b]
      BY DEF LossInv
    <3> QED BY <3>1, <3>2
  <2>2. \A S : Hub!Cardinality(S) = Cardinality(S)
    BY DEF Hub!Cardinality, Cardinality
  <2> QED BY <2>1, <2>2 DEF LossBounded, Hub!LossBounded
<1> QED BY <1>1, HubInvariant, PTL

=============================================================================
