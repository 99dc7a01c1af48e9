------------------------- MODULE DeduplicationProofs -------------------------
(***************************************************************************)
(* For any lists of postings, any titles that are alike and any embeddings: *)
(* the pipeline implements the clustering of PostingClusters, loses no     *)
(* field and returns records that differ in both their keys.               *)
(*                                                                         *)
(* The clustering's own invariant comes first; then the pipeline is seen   *)
(* as places that hold records, of which each iteration moves some or      *)
(* joins two.                                                              *)
(***************************************************************************)
EXTENDS Deduplication, SequenceTheorems, TLAPS

-----------------------------------------------------------------------------
(* The clustering. *)

(* The answer lists the groups, each once, and the groups are then settled. *)
AnswerLists ==
    Answer # <<>> =>
        /\ Clusters!IsInjective(Answer)
        /\ \A k \in DOMAIN Answer : Answer[k] \in Groups
        /\ \A A \in Groups : \E k \in DOMAIN Answer : Answer[k] = A

GInv == Clusters!TypeOK /\ Clusters!GroupsPartition /\ Clusters!GroupsConnected /\ AnswerLists

LEMMA GroupsInit == Clusters!Init => GInv
<1> SUFFICES ASSUME Clusters!Init PROVE GInv
  OBVIOUS
<1>1. Clusters!TypeOK
  BY DEF Clusters!Init, Clusters!TypeOK
<1>2. Clusters!GroupsPartition
  BY DEF Clusters!Init, Clusters!GroupsPartition
<1>3. Clusters!GroupsConnected
  BY DEF Clusters!Init, Clusters!GroupsConnected
<1>4. AnswerLists
  BY DEF Clusters!Init, AnswerLists
<1> QED BY <1>1, <1>2, <1>3, <1>4 DEF GInv

(* Two connected groups with a link between them make a connected one: a    *)
(* part that divides neither is one of the two.                             *)
LEMMA UnionConnected ==
    ASSUME Clusters!GroupsConnected, NEW A \in Groups, NEW B \in Groups, Clusters!Bridged(A, B),
           NEW S \in SUBSET (A \cup B), S # {}, S # A \cup B
    PROVE  Clusters!Bridged(S, (A \cup B) \ S)
<1> DEFINE R == (A \cup B) \ S
<1>1. ASSUME NEW C \in {A, B}, S \cap C # {}, S \cap C # C
      PROVE  Clusters!Bridged(S, R)
  <2>1. Clusters!Bridged(S \cap C, C \ (S \cap C))
    <3>1. C \in Groups /\ S \cap C \in SUBSET C
      BY <1>1
    <3> QED BY <1>1, <3>1 DEF Clusters!GroupsConnected
  <2>2. S \cap C \subseteq S /\ C \ (S \cap C) \subseteq R
    BY <1>1
  <2> QED BY <2>1, <2>2 DEF Clusters!Bridged
<1>2. CASE S \cap A \in {{}, A} /\ S \cap B \in {{}, B}
  <2>1. (A \subseteq S /\ B \subseteq R) \/ (B \subseteq S /\ A \subseteq R)
    BY <1>2
  <2> QED BY <2>1 DEF Clusters!Bridged
<1> QED BY <1>1, <1>2

LEMMA UniteStep ==
    ASSUME GInv, NEW A \in Groups, NEW B \in Groups, Clusters!Unite(A, B)
    PROVE  GInv'
<1>1. /\ Answer = <<>> /\ A # B /\ Clusters!Bridged(A, B)
      /\ Groups' = (Groups \ {A, B}) \cup {A \cup B}
      /\ UNCHANGED <<(DOMAIN input), Links, Answer>>
  BY DEF Clusters!Unite
<1>2. Clusters!TypeOK'
  BY <1>1 DEF GInv, Clusters!TypeOK
<1>3. Clusters!GroupsPartition'
  <2>1. ASSUME NEW i \in DOMAIN input PROVE \E C \in Groups' : i \in C
    <3>1. PICK E \in Groups : i \in E
      BY DEF GInv, Clusters!GroupsPartition
    <3>2. CASE E \in {A, B}
      <4>1. i \in A \cup B /\ A \cup B \in Groups'
        BY <1>1, <3>1, <3>2
      <4> QED BY <4>1
    <3>3. CASE E \notin {A, B}
      BY <1>1, <3>1, <3>3
    <3> QED BY <3>2, <3>3
  <2>2. ASSUME NEW C \in Groups', NEW D \in Groups', C # D PROVE C \cap D = {}
    <3>1. \A E \in Groups \ {A, B} : E \cap (A \cup B) = {}
      BY DEF GInv, Clusters!GroupsPartition
    <3> QED BY <1>1, <2>2, <3>1 DEF GInv, Clusters!GroupsPartition
  <2>3. {} \notin Groups'
    BY <1>1 DEF GInv, Clusters!GroupsPartition
  <2> QED BY <1>1, <2>1, <2>2, <2>3 DEF Clusters!GroupsPartition
<1>4. Clusters!GroupsConnected'
  <2> SUFFICES ASSUME NEW C \in Groups', NEW S \in SUBSET C, S # {}, S # C
               PROVE  Clusters!Bridged(S, C \ S)'
    BY DEF Clusters!GroupsConnected
  <2>1. Clusters!Bridged(S, C \ S)
    <3>1. CASE C \in Groups
      BY <3>1 DEF GInv, Clusters!GroupsConnected
    <3>2. CASE C = A \cup B
      BY <1>1, <3>2, UnionConnected DEF GInv
    <3> QED BY <1>1, <3>1, <3>2
  <2> QED BY <1>1, <2>1 DEF Clusters!Bridged
<1>5. AnswerLists'
  BY <1>1 DEF AnswerLists
<1> QED BY <1>2, <1>3, <1>4, <1>5 DEF GInv

LEMMA ReturnStep == GInv /\ Clusters!Return => GInv'
<1> SUFFICES ASSUME GInv, Clusters!Return PROVE GInv'
  OBVIOUS
<1>1. /\ Answer' \in Seq(Groups) /\ Clusters!IsInjective(Answer')
      /\ \A A \in Groups : \E k \in DOMAIN Answer' : Answer'[k] = A
      /\ UNCHANGED <<(DOMAIN input), Links, Groups>>
  BY DEF Clusters!Return
<1>2. Clusters!TypeOK'
  <2>1. Groups \subseteq SUBSET (DOMAIN input)
    BY DEF GInv, Clusters!TypeOK
  <2>2. Answer' \in Seq(SUBSET (DOMAIN input))
    BY <1>1, <2>1, SeqMonotonic
  <2>3. (DOMAIN input)' = DOMAIN input /\ Links' = Links /\ Groups' = Groups
    BY <1>1
  <2> QED BY <2>1, <2>2, <2>3 DEF GInv, Clusters!TypeOK
<1>3. Clusters!GroupsPartition' /\ Clusters!GroupsConnected'
  <2>1. Clusters!GroupsPartition'
    BY <1>1 DEF GInv, Clusters!GroupsPartition
  <2>2. \A A, B : Clusters!Bridged(A, B)' <=> Clusters!Bridged(A, B)
    BY <1>1 DEF Clusters!Bridged
  <2>3. Clusters!GroupsConnected'
    BY <1>1, <2>2 DEF GInv, Clusters!GroupsConnected
  <2> QED BY <2>1, <2>3
<1>4. AnswerLists'
  <2>1. \A k \in DOMAIN Answer' : Answer'[k] \in Groups
    BY <1>1
  <2> QED BY <1>1, <2>1 DEF AnswerLists
<1> QED BY <1>2, <1>3, <1>4 DEF GInv

LEMMA GroupsInvariant == Clusters!Spec => []GInv
<1>1. GInv /\ [Clusters!Next]_(Clusters!vars) => GInv'
  <2> SUFFICES ASSUME GInv, [Clusters!Next]_(Clusters!vars) PROVE GInv'
    OBVIOUS
  <2>1. CASE \E A, B \in Groups : Clusters!Unite(A, B)
    BY <2>1, UniteStep
  <2>2. CASE Clusters!Return
    BY <2>2, ReturnStep
  <2>3. CASE UNCHANGED (Clusters!vars)
    <3>1. UNCHANGED <<(DOMAIN input), Links, Groups, Answer>>
      BY <2>3 DEF Clusters!vars
    <3>2. (Clusters!TypeOK /\ Clusters!GroupsPartition /\ Clusters!GroupsConnected)'
      <4>1. Clusters!TypeOK' /\ Clusters!GroupsPartition'
        BY <3>1 DEF GInv, Clusters!TypeOK, Clusters!GroupsPartition
      <4>2. \A A, B : Clusters!Bridged(A, B)' <=> Clusters!Bridged(A, B)
        BY <3>1 DEF Clusters!Bridged
      <4>3. Clusters!GroupsConnected'
        BY <3>1, <4>2 DEF GInv, Clusters!GroupsConnected
      <4> QED BY <4>1, <4>3
    <3>3. AnswerLists'
      BY <3>1 DEF GInv, AnswerLists, Clusters!IsInjective
    <3> QED BY <3>2, <3>3 DEF GInv
  <2> QED BY <2>1, <2>2, <2>3 DEF Clusters!Next
<1> QED BY <1>1, GroupsInit, PTL DEF Clusters!Spec

(* At every moment each posting is in exactly one group. *)
THEOREM PostingsArePartitioned == Clusters!Spec => []Clusters!GroupsPartition
<1>1. GInv => Clusters!GroupsPartition
  BY DEF GInv
<1> QED BY <1>1, GroupsInvariant, PTL

(* No group holds two postings that no chain of links connects. *)
THEOREM GroupsHangTogether == Clusters!Spec => []Clusters!GroupsConnected
<1>1. GInv => Clusters!GroupsConnected
  BY DEF GInv
<1> QED BY <1>1, GroupsInvariant, PTL

(* The answer reports every posting, and in one record only. *)
THEOREM AnswerReportsOnce == Clusters!Spec => []Clusters!EachPostingOnce
<1>1. GInv => Clusters!EachPostingOnce
  <2> SUFFICES ASSUME GInv, Answer # <<>>, NEW i \in DOMAIN input
               PROVE  \E k \in DOMAIN Answer :
                        /\ i \in Answer[k]
                        /\ \A l \in DOMAIN Answer : i \in Answer[l] => l = k
    BY DEF Clusters!EachPostingOnce
  <2>1. PICK A \in Groups : i \in A
    BY DEF GInv, Clusters!GroupsPartition
  <2>2. PICK k \in DOMAIN Answer : Answer[k] = A
    BY <2>1 DEF GInv, AnswerLists
  <2>3. ASSUME NEW l \in DOMAIN Answer, i \in Answer[l] PROVE l = k
    <3>1. Answer[l] = A
      BY <2>1, <2>3 DEF GInv, AnswerLists, Clusters!GroupsPartition
    <3> QED BY <2>2, <3>1 DEF GInv, AnswerLists, Clusters!IsInjective
  <2> QED BY <2>1, <2>2, <2>3
<1> QED BY <1>1, GroupsInvariant, PTL

-----------------------------------------------------------------------------
(* The pipeline as places that hold records. *)

(* The positions in use of each list: the postings still to be read, the    *)
(* records that wait in the list of the stage, and stage 2's current one.   *)
Entering == IF stage = "hash" THEN pos..Len(input) ELSE {}
Staying == {k \in DOMAIN list : Waiting(k)}
Comparing == IF stage = "compare" THEN {0} ELSE {}

PlaceSet(entering, staying, comparing, filed, apartFiled) ==
    ({"input"} \X entering) \cup ({"list"} \X staying) \cup ({"current"} \X comparing)
        \cup ({"out"} \X filed) \cup ({"noUrl"} \X apartFiled)

Places == PlaceSet(Entering, Staying, Comparing, DOMAIN out, DOMAIN noUrl)

Held(p) ==
    CASE p[1] = "input" -> Load(p[2])
      [] p[1] = "list" -> list[p[2]]
      [] p[1] = "current" -> current
      [] p[1] = "out" -> out[p[2]]
      [] p[1] = "noUrl" -> noUrl[p[2]]

Holding == [p \in Places |-> Held(p)]

(* A record of the model, with the fields of Load. *)
IsRecord(r) ==
    r \in [title : {r.title}, company : {r.company}, location : {r.location},
           employer : {r.employer}, remote : {r.remote}, extra : {r.extra}, hash : {r.hash}, members : {r.members}]

(* The hash of a record, as HashStaleOnlyByBackfill states it. *)
HashOf(jobs, r, i) ==
    /\ r.hash = JobHash(jobs[i].title, jobs[i].company, jobs[i].location)
    /\ jobs[i].title \in {r.title, <<>>}
    /\ jobs[i].company \in {r.company, <<>>}
    /\ jobs[i].location \in {r.location, <<>>}

(* What a record owes its postings: its fields, its names, its hash.        *)
Sound(jobs, r) ==
    /\ IsRecord(r)
    /\ r.members \subseteq DOMAIN jobs /\ r.members # {}
    /\ r.extra \in [Fields -> {0} \cup DOMAIN jobs]
    /\ Kept(r.title, <<>>, {jobs[i].title : i \in r.members})
    /\ Kept(r.company, <<>>, {jobs[i].company : i \in r.members})
    /\ Kept(r.location, <<>>, {jobs[i].location : i \in r.members})
    /\ Kept(r.employer, NoUrl, {jobs[i].employer : i \in r.members})
    /\ r.remote \in {jobs[i].remote : i \in r.members}
    /\ \A f \in Fields :
        Kept(r.extra[f], 0, {IF f \in jobs[i].extra THEN i ELSE 0 : i \in r.members})
    /\ \E i \in r.members : HashOf(jobs, r, i)

(* No posting in two places. *)
Parted(H) == \A p, q \in DOMAIN H : p # q => H[p].members \cap H[q].members = {}

(* Behind stage 1 every hash is in one place. *)
Keyed(H) ==
    \A p, q \in DOMAIN H :
        p # q /\ p[1] # "input" /\ q[1] # "input" => H[p].hash # H[q].hash

MembersOf(H) == {H[p].members : p \in DOMAIN H}

IsList(s) == s \in Seq({s[k] : k \in DOMAIN s})

Shape ==
    /\ stage \in {"hash", "pick", "compare", "url", "done"}
    /\ IsList(input) /\ IsList(list) /\ IsList(out) /\ IsList(noUrl)
    /\ pos \in Nat /\ inner \in Nat
    /\ stage = "hash" => list = <<>> /\ merged = {} /\ pos \in 1..(Len(input) + 1)
    /\ stage \in {"pick", "url"} => pos \in 1..(Len(list) + 1)
    /\ stage = "compare" => pos \in 1..Len(list) /\ inner \in (pos + 1)..(Len(list) + 1)
    /\ stage # "url" => noUrl = <<>>

(* The names that stage 2 compares with are those of a posting of current,  *)
(* though no longer always those of current itself.                         *)
NamesOfMember ==
    stage = "compare" =>
        \E i \in current.members :
            /\ norm[1] = NormalizeTitle(input[i].title)
            /\ norm[2] = NormalizeCompany(input[i].company)

(* The canonical names of a record are those its hash was made of. *)
Fresh(r) == NormalizeTitle(r.title) = r.hash[1] /\ NormalizeCompany(r.company) = r.hash[2]

(* So it is until stage 2 merges: stage 1 unites equal hashes only. *)
FreshNames ==
    /\ stage = "hash" => \A k \in DOMAIN out : Fresh(out[k])
    /\ stage \in {"pick", "compare"} => \A k \in DOMAIN list : Fresh(list[k])

NamesKept == NamesOfMember /\ FreshNames

PagesDiffer ==
    \A k, l \in DOMAIN out :
        k # l =>
            \/ CanonicalUrl(out[k].employer) = NoUrl
            \/ CanonicalUrl(out[k].employer) # CanonicalUrl(out[l].employer)

(* Stage 3 files by page: the bucket's records have one, no_url's none. *)
FiledByPage ==
    /\ stage \in {"url", "done"} => PagesDiffer
    /\ stage = "url" => \A k \in DOMAIN out : CanonicalUrl(out[k].employer) # NoUrl
    /\ \A k \in DOMAIN noUrl : CanonicalUrl(noUrl[k].employer) = NoUrl

PipelineInv ==
    /\ Shape /\ NamesKept /\ FiledByPage
    /\ \A p \in DOMAIN Holding : Sound(input, Holding[p])
    /\ Parted(Holding) /\ Keyed(Holding)

-----------------------------------------------------------------------------
(* Lemmas about records. *)

LEMMA MergeFields ==
    ASSUME NEW p, NEW s, IsRecord(p)
    PROVE  /\ IsRecord(Merge(p, s))
           /\ Merge(p, s).title = IF p.title = <<>> THEN s.title ELSE p.title
           /\ Merge(p, s).company = IF p.company = <<>> THEN s.company ELSE p.company
           /\ Merge(p, s).location = IF p.location = <<>> THEN s.location ELSE p.location
           /\ Merge(p, s).employer = IF p.employer = NoUrl THEN s.employer ELSE p.employer
           /\ Merge(p, s).remote = p.remote
           /\ Merge(p, s).extra = [f \in Fields |-> IF p.extra[f] = 0 THEN s.extra[f] ELSE p.extra[f]]
           /\ Merge(p, s).hash = p.hash
           /\ Merge(p, s).members = p.members \cup s.members
  BY DEF IsRecord, Merge

LEMMA MergeMembers ==
    ASSUME NEW p, NEW s, IsRecord(p) PROVE Merge(p, s).members = p.members \cup s.members
  BY MergeFields

(* A back-filled field is kept of both records' postings. *)
LEMMA FilledIsKept ==
    ASSUME NEW a, NEW b, NEW c, NEW none, NEW A, NEW B, Kept(a, none, A), Kept(b, none, B),
           c = IF a = none THEN b ELSE a
    PROVE  Kept(c, none, A \cup B)
  BY DEF Kept

LEMMA MergeSound ==
    ASSUME NEW jobs, NEW p, NEW s, Sound(jobs, p), Sound(jobs, s)
    PROVE  Sound(jobs, Merge(p, s))
<1> DEFINE m == Merge(p, s)
<1>1. /\ IsRecord(m)
      /\ m.title = IF p.title = <<>> THEN s.title ELSE p.title
      /\ m.company = IF p.company = <<>> THEN s.company ELSE p.company
      /\ m.location = IF p.location = <<>> THEN s.location ELSE p.location
      /\ m.employer = IF p.employer = NoUrl THEN s.employer ELSE p.employer
      /\ m.remote = p.remote
      /\ m.extra = [f \in Fields |-> IF p.extra[f] = 0 THEN s.extra[f] ELSE p.extra[f]]
      /\ m.hash = p.hash /\ m.members = p.members \cup s.members
  BY MergeFields DEF Sound
<1> HIDE DEF m
<1>2. m.members \subseteq DOMAIN jobs /\ m.members # {}
  BY <1>1 DEF Sound
<1>3. m.extra \in [Fields -> {0} \cup DOMAIN jobs]
  BY <1>1 DEF Sound
<1>4. Kept(m.title, <<>>, {jobs[i].title : i \in m.members})
  <2> DEFINE Given(M) == {jobs[i].title : i \in M}
             none == <<>>
  <2>1. Given(m.members) = Given(p.members) \cup Given(s.members)
    BY <1>1
  <2>2. Kept(p.title, none, Given(p.members)) /\ Kept(s.title, none, Given(s.members))
    BY DEF Sound
  <2>3. m.title = IF p.title = none THEN s.title ELSE p.title
    BY <1>1
  <2> HIDE DEF Given, none
  <2>4. Kept(m.title, none, Given(m.members))
    BY <2>1, <2>2, <2>3, FilledIsKept
  <2> QED BY <2>4 DEF Given, none
<1>5. Kept(m.company, <<>>, {jobs[i].company : i \in m.members})
  <2> DEFINE Given(M) == {jobs[i].company : i \in M}
             none == <<>>
  <2>1. Given(m.members) = Given(p.members) \cup Given(s.members)
    BY <1>1
  <2>2. Kept(p.company, none, Given(p.members)) /\ Kept(s.company, none, Given(s.members))
    BY DEF Sound
  <2>3. m.company = IF p.company = none THEN s.company ELSE p.company
    BY <1>1
  <2> HIDE DEF Given, none
  <2>4. Kept(m.company, none, Given(m.members))
    BY <2>1, <2>2, <2>3, FilledIsKept
  <2> QED BY <2>4 DEF Given, none
<1>6. Kept(m.location, <<>>, {jobs[i].location : i \in m.members})
  <2> DEFINE Given(M) == {jobs[i].location : i \in M}
             none == <<>>
  <2>1. Given(m.members) = Given(p.members) \cup Given(s.members)
    BY <1>1
  <2>2. Kept(p.location, none, Given(p.members)) /\ Kept(s.location, none, Given(s.members))
    BY DEF Sound
  <2>3. m.location = IF p.location = none THEN s.location ELSE p.location
    BY <1>1
  <2> HIDE DEF Given, none
  <2>4. Kept(m.location, none, Given(m.members))
    BY <2>1, <2>2, <2>3, FilledIsKept
  <2> QED BY <2>4 DEF Given, none
<1>7. Kept(m.employer, NoUrl, {jobs[i].employer : i \in m.members})
  <2> DEFINE Given(M) == {jobs[i].employer : i \in M}
  <2>1. Given(m.members) = Given(p.members) \cup Given(s.members)
    BY <1>1
  <2>2. Kept(p.employer, NoUrl, Given(p.members)) /\ Kept(s.employer, NoUrl, Given(s.members))
    BY DEF Sound
  <2>3. m.employer = IF p.employer = NoUrl THEN s.employer ELSE p.employer
    BY <1>1
  <2> HIDE DEF Given
  <2>4. Kept(m.employer, NoUrl, Given(m.members))
    BY <2>1, <2>2, <2>3, FilledIsKept
  <2> QED BY <2>4 DEF Given
<1>8. m.remote \in {jobs[i].remote : i \in m.members}
  BY <1>1 DEF Sound
<1>9. ASSUME NEW f \in Fields
      PROVE  Kept(m.extra[f], 0, {IF f \in jobs[i].extra THEN i ELSE 0 : i \in m.members})
  <2> DEFINE Given(M) == {IF f \in jobs[i].extra THEN i ELSE 0 : i \in M}
  <2>1. Given(m.members) = Given(p.members) \cup Given(s.members)
    BY <1>1
  <2>2. Kept(p.extra[f], 0, Given(p.members)) /\ Kept(s.extra[f], 0, Given(s.members))
    BY DEF Sound
  <2>3. m.extra[f] = IF p.extra[f] = 0 THEN s.extra[f] ELSE p.extra[f]
    BY <1>1
  <2> HIDE DEF Given
  <2>4. Kept(m.extra[f], 0, Given(m.members))
    BY <2>1, <2>2, <2>3, FilledIsKept
  <2> QED BY <2>4 DEF Given
<1>10. \E i \in m.members : HashOf(jobs, m, i)
  <2>1. PICK i \in p.members : HashOf(jobs, p, i)
    BY DEF Sound
  <2> QED BY <1>1, <2>1 DEF HashOf
<1> QED BY <1>1, <1>2, <1>3, <1>4, <1>5, <1>6, <1>7, <1>8, <1>9, <1>10 DEF Sound, m

(* Records with one hash keep their canonical names in a merge. *)
LEMMA MergeFresh ==
    ASSUME NEW p, NEW s, IsRecord(p), Fresh(p), Fresh(s), p.hash = s.hash
    PROVE  Fresh(Merge(p, s))
<1>1. /\ Merge(p, s).title \in {p.title, s.title}
      /\ Merge(p, s).company \in {p.company, s.company}
      /\ Merge(p, s).hash = p.hash
  BY MergeFields
<1> QED BY <1>1 DEF Fresh

LEMMA RicherFresh ==
    ASSUME NEW a, NEW b, IsRecord(a), IsRecord(b), Fresh(a), Fresh(b), a.hash = b.hash
    PROVE  Fresh(MergeRicher(a, b))
  BY MergeFresh DEF MergeRicher

LEMMA LoadSound ==
    ASSUME Shape, NEW i \in DOMAIN input
    PROVE  /\ Sound(input, Load(i)) /\ Fresh(Load(i))
           /\ Load(i).members = {i} /\ Load(i).employer = input[i].employer
<1> DEFINE r == Load(i)
<1>1. r = [title |-> input[i].title, company |-> input[i].company,
           location |-> input[i].location, employer |-> input[i].employer,
           remote |-> input[i].remote,
           extra |-> [f \in Fields |-> IF f \in input[i].extra THEN i ELSE 0],
           hash |-> JobHash(input[i].title, input[i].company, input[i].location),
           members |-> {i}]
  BY DEF Load
<1>2. i # 0
  BY LenProperties DEF Shape, IsList
<1> HIDE DEF r
<1>3. HashOf(input, r, i)
  BY <1>1 DEF HashOf
<1>4. IsRecord(r)
  BY <1>1 DEF IsRecord
<1>5. r.extra \in [Fields -> {0} \cup DOMAIN input]
  BY <1>1
<1>6. ASSUME NEW f \in Fields
      PROVE  Kept(r.extra[f], 0, {IF f \in input[j].extra THEN j ELSE 0 : j \in r.members})
  BY <1>1 DEF Kept
<1>7. r.members = {i} /\ r.employer = input[i].employer /\ r.location = input[i].location
      /\ r.title = input[i].title /\ r.company = input[i].company /\ r.remote = input[i].remote
  BY <1>1
<1>8. /\ Kept(r.title, <<>>, {input[j].title : j \in r.members})
      /\ Kept(r.company, <<>>, {input[j].company : j \in r.members})
      /\ Kept(r.location, <<>>, {input[j].location : j \in r.members})
      /\ Kept(r.employer, NoUrl, {input[j].employer : j \in r.members})
  BY <1>7 DEF Kept
<1>9. Sound(input, r)
  BY <1>3, <1>4, <1>5, <1>6, <1>7, <1>8 DEF Sound
<1>10. Fresh(r)
  BY <1>1 DEF Fresh, JobHash
<1> QED BY <1>7, <1>9, <1>10 DEF r

-----------------------------------------------------------------------------
(* Lemmas about lists. *)

LEMMA ListShape ==
    ASSUME NEW s, IsList(s) PROVE Len(s) \in Nat /\ DOMAIN s = 1..Len(s)
  BY LenProperties DEF IsList

LEMMA EmptyIsList == IsList(<<>>) /\ Len(<<>>) = 0 /\ DOMAIN <<>> = {}
  BY EmptySeq DEF IsList

LEMMA AppendShape ==
    ASSUME NEW s, IsList(s), NEW e
    PROVE  /\ IsList(Append(s, e)) /\ Len(Append(s, e)) = Len(s) + 1
           /\ DOMAIN Append(s, e) = DOMAIN s \cup {Len(s) + 1}
           /\ Len(s) + 1 \notin DOMAIN s
           /\ \A k \in DOMAIN s : Append(s, e)[k] = s[k]
           /\ Append(s, e)[Len(s) + 1] = e
<1> DEFINE t == Append(s, e)
           S == {s[k] : k \in DOMAIN s} \cup {e}
<1>1. s \in Seq(S)
  BY SeqMonotonic DEF IsList
<1>2. Len(s) \in Nat /\ DOMAIN s = 1..Len(s)
  BY ListShape
<1>3. /\ t \in Seq(S) /\ Len(t) = Len(s) + 1
      /\ \A k \in 1..Len(s) : t[k] = s[k]
      /\ t[Len(s) + 1] = e
  BY <1>1, AppendProperties
<1>4. DOMAIN t = 1..(Len(s) + 1)
  BY <1>3, LenProperties
<1>5. S = {t[k] : k \in DOMAIN t}
  BY <1>2, <1>3, <1>4
<1>6. DOMAIN t = DOMAIN s \cup {Len(s) + 1}
  BY <1>2, <1>4
<1>7. IsList(t)
  BY <1>3, <1>5 DEF IsList
<1> QED BY <1>2, <1>3, <1>6, <1>7

LEMMA ConcatShape ==
    ASSUME NEW s, IsList(s), NEW u, IsList(u)
    PROVE  /\ IsList(s \o u)
           /\ DOMAIN (s \o u) = 1..(Len(s) + Len(u))
           /\ \A k \in DOMAIN (s \o u) :
                (s \o u)[k] = IF k <= Len(s) THEN s[k] ELSE u[k - Len(s)]
<1> DEFINE t == s \o u
           S == {s[k] : k \in DOMAIN s} \cup {u[k] : k \in DOMAIN u}
<1>1. s \in Seq(S) /\ u \in Seq(S)
  BY SeqMonotonic DEF IsList
<1>2. /\ Len(s) \in Nat /\ DOMAIN s = 1..Len(s)
      /\ Len(u) \in Nat /\ DOMAIN u = 1..Len(u)
  BY ListShape
<1>3. t \in Seq(S) /\ Len(t) = Len(s) + Len(u)
      /\ \A k \in 1..(Len(s) + Len(u)) : t[k] = IF k <= Len(s) THEN s[k] ELSE u[k - Len(s)]
  BY <1>1, ConcatProperties
<1>4. DOMAIN t = 1..(Len(s) + Len(u))
  BY <1>3, LenProperties
<1>5. t \in [DOMAIN t -> {t[k] : k \in DOMAIN t}]
  <2>1. t \in [DOMAIN t -> S]
    BY <1>3, LenProperties
  <2> QED BY <2>1
<1>6. IsList(t)
  <2> DEFINE T == {t[k] : k \in DOMAIN t}
             n == Len(s) + Len(u)
  <2>1. n \in Nat /\ t \in [1..n -> T]
    BY <1>2, <1>4, <1>5
  <2> HIDE DEF T, n
  <2>2. [1..n -> T] \in {[1..m -> T] : m \in Nat}
    BY <2>1
  <2>3. t \in Seq(T)
    BY <2>1, <2>2, SeqDef
  <2> QED BY <2>3 DEF IsList, T
<1> QED BY <1>3, <1>4, <1>6

(* A list with one element replaced. *)
LEMMA FileInPlace ==
    ASSUME NEW s, IsList(s), NEW k \in DOMAIN s, NEW job, NEW t, t = File(s, {k}, job)
    PROVE  /\ IsList(t) /\ DOMAIN t = DOMAIN s
           /\ t[k] = MergeRicher(s[k], job)
           /\ \A l \in DOMAIN s : l # k => t[l] = s[l]
<1>1. t = [l \in DOMAIN s |-> IF l = k THEN MergeRicher(s[l], job) ELSE s[l]]
  BY DEF File
<1>2. DOMAIN t = DOMAIN s /\ t[k] = MergeRicher(s[k], job)
      /\ \A l \in DOMAIN s : l # k => t[l] = s[l]
  BY <1>1
<1>3. IsList(t)
  <2> DEFINE T == {t[j] : j \in DOMAIN t}
  <2>1. Len(s) \in Nat /\ DOMAIN s = 1..Len(s)
    BY ListShape
  <2>2. t \in [1..Len(s) -> T]
    BY <1>1, <2>1
  <2>3. [1..Len(s) -> T] \in {[1..n -> T] : n \in Nat}
    BY <2>1
  <2> HIDE DEF T
  <2>4. t \in Seq(T)
    BY <2>2, <2>3, SeqDef
  <2> QED BY <2>4 DEF IsList, T
<1> QED BY <1>2, <1>3

(* MergeRicher is _merge_jobs one way or the other. *)
LEMMA RicherIsMerge ==
    ASSUME NEW a, NEW b PROVE MergeRicher(a, b) \in {Merge(a, b), Merge(b, a)}
  BY DEF MergeRicher

-----------------------------------------------------------------------------
(* Lemmas about holdings: records that change places, and records that are  *)
(* merged into others.                                                      *)

(* G holds at each place what H held at the place that from names. *)
MovedBy(H, G, from) ==
    /\ from \in [DOMAIN G -> DOMAIN H]
    /\ \A p, q \in DOMAIN G : p # q => from[p] # from[q]
    /\ \A p \in DOMAIN H : \E q \in DOMAIN G : from[q] = p
    /\ \A p \in DOMAIN G : G[p] = H[from[p]]

LEMMA MovesKeep ==
    ASSUME NEW H, NEW G, NEW from, MovedBy(H, G, from), Parted(H)
    PROVE  /\ Parted(G) /\ MembersOf(G) = MembersOf(H)
           /\ \A p \in DOMAIN G : \E q \in DOMAIN H : G[p] = H[q]
<1>1. Parted(G)
  BY DEF MovedBy, Parted
<1>2. MembersOf(G) = MembersOf(H)
  BY DEF MovedBy, MembersOf
<1> QED BY <1>1, <1>2 DEF MovedBy

LEMMA MovesKeepKeys ==
    ASSUME NEW H, NEW G, NEW from, MovedBy(H, G, from), Keyed(H),
           \A p \in DOMAIN G : p[1] # "input" => from[p][1] # "input"
    PROVE  Keyed(G)
<1> SUFFICES ASSUME NEW p \in DOMAIN G, NEW q \in DOMAIN G, p # q,
                    p[1] # "input", q[1] # "input"
             PROVE  G[p].hash # G[q].hash
  BY DEF Keyed
<1>1. /\ from[p] \in DOMAIN H /\ from[q] \in DOMAIN H /\ from[p] # from[q]
      /\ G[p] = H[from[p]] /\ G[q] = H[from[q]]
  BY DEF MovedBy
<1>2. from[p][1] # "input" /\ from[q][1] # "input"
  OBVIOUS
<1> QED BY <1>1, <1>2 DEF Keyed

(* One record changes its place. *)
Relocated(H, G, a, b) ==
    /\ a \in DOMAIN H /\ b \notin DOMAIN H
    /\ DOMAIN G = (DOMAIN H \ {a}) \cup {b}
    /\ G[b] = H[a]
    /\ \A p \in DOMAIN H \ {a} : G[p] = H[p]

LEMMA RelocationMoves ==
    ASSUME NEW H, NEW G, NEW a, NEW b, Relocated(H, G, a, b)
    PROVE  MovedBy(H, G, [p \in DOMAIN G |-> IF p = b THEN a ELSE p])
<1> DEFINE from == [p \in DOMAIN G |-> IF p = b THEN a ELSE p]
<1>1. from \in [DOMAIN G -> DOMAIN H]
  BY DEF Relocated
<1>2. \A p, q \in DOMAIN G : p # q => from[p] # from[q]
  BY DEF Relocated
<1>3. ASSUME NEW p \in DOMAIN H PROVE \E q \in DOMAIN G : from[q] = p
  <2>1. CASE p = a
    <3>1. b \in DOMAIN G /\ from[b] = a
      BY DEF Relocated
    <3> QED BY <2>1, <3>1
  <2>2. CASE p # a
    <3>1. p \in DOMAIN G /\ from[p] = p
      BY <2>2 DEF Relocated
    <3> QED BY <3>1
  <2> QED BY <2>1, <2>2
<1>4. \A p \in DOMAIN G : G[p] = H[from[p]]
  BY DEF Relocated
<1> QED BY <1>1, <1>2, <1>3, <1>4 DEF MovedBy

(* A record whose hash no later stage holds may leave the input. *)
LEMMA RelocationKeepsKeys ==
    ASSUME NEW H, NEW G, NEW a, NEW b, Relocated(H, G, a, b), Keyed(H),
           \/ a[1] # "input"
           \/ \A p \in DOMAIN H : p[1] # "input" => H[p].hash # H[a].hash
    PROVE  Keyed(G)
<1> SUFFICES ASSUME NEW p \in DOMAIN G, NEW q \in DOMAIN G, p # q,
                    p[1] # "input", q[1] # "input"
             PROVE  G[p].hash # G[q].hash
  BY DEF Keyed
<1>1. CASE p # b /\ q # b
  BY <1>1 DEF Relocated, Keyed
<1>2. ASSUME NEW c \in DOMAIN H \ {a}, c[1] # "input" PROVE H[c].hash # H[a].hash
  BY <1>2 DEF Relocated, Keyed
<1>3. CASE p = b
  BY <1>2, <1>3 DEF Relocated
<1>4. CASE q = b
  BY <1>2, <1>4 DEF Relocated
<1> QED BY <1>1, <1>3, <1>4

(* The record at b is merged with the one at a, which keeps its place. *)
Joined(H, G, a, b) ==
    /\ a \in DOMAIN H /\ b \in DOMAIN H /\ a # b
    /\ DOMAIN G = DOMAIN H \ {b}
    /\ G[a] \in {Merge(H[a], H[b]), Merge(H[b], H[a])}
    /\ \A p \in DOMAIN H \ {a, b} : G[p] = H[p]

LEMMA JoinUnites ==
    ASSUME NEW H, NEW G, NEW a, NEW b, Joined(H, G, a, b), Parted(H),
           \A p \in DOMAIN H : IsRecord(H[p]) /\ H[p].members # {}
    PROVE  /\ H[a].members \in MembersOf(H) /\ H[b].members \in MembersOf(H)
           /\ H[a].members # H[b].members
           /\ MembersOf(G) = (MembersOf(H) \ {H[a].members, H[b].members})
                                \cup {H[a].members \cup H[b].members}
           /\ Parted(G)
<1> DEFINE A == H[a].members
           B == H[b].members
<1>1. a \in DOMAIN H /\ b \in DOMAIN H /\ a # b /\ DOMAIN G = DOMAIN H \ {b}
  BY DEF Joined
<1>2. G[a].members = A \cup B
  <2>1. IsRecord(H[a]) /\ IsRecord(H[b])
    BY <1>1
  <2>2. Merge(H[a], H[b]).members = A \cup B
    BY <2>1, MergeMembers
  <2>3. Merge(H[b], H[a]).members = B \cup A
    BY <2>1, MergeMembers
  <2> QED BY <2>2, <2>3 DEF Joined
<1>3. \A p \in DOMAIN G : p # a => p \in DOMAIN H \ {a, b} /\ G[p].members = H[p].members
  BY <1>1 DEF Joined
<1>4. A # B /\ A # {} /\ B # {} /\ A \cap B = {}
  BY <1>1 DEF Parted
<1>5. \A p \in DOMAIN H \ {a, b} : H[p].members \cap A = {} /\ H[p].members \cap B = {}
                                        /\ H[p].members # {}
  BY <1>1 DEF Parted
<1>6. Parted(G)
  BY <1>1, <1>2, <1>3, <1>5 DEF Parted
<1>7. MembersOf(G) = (MembersOf(H) \ {A, B}) \cup {A \cup B}
  <2>1. ASSUME NEW M \in MembersOf(G) PROVE M \in (MembersOf(H) \ {A, B}) \cup {A \cup B}
    BY <1>1, <1>2, <1>3, <1>5 DEF MembersOf
  <2>2. ASSUME NEW M \in MembersOf(H), M # A, M # B PROVE M \in MembersOf(G)
    <3>1. PICK p \in DOMAIN H : M = H[p].members
      BY DEF MembersOf
    <3>2. p \in DOMAIN G /\ G[p].members = M
      BY <1>1, <2>2, <3>1 DEF Joined
    <3> QED BY <3>2 DEF MembersOf
  <2>3. A \cup B \in MembersOf(G)
    BY <1>1, <1>2 DEF MembersOf
  <2> QED BY <2>1, <2>2, <2>3
<1>8. A \in MembersOf(H) /\ B \in MembersOf(H)
  BY <1>1 DEF MembersOf
<1> QED BY <1>4, <1>6, <1>7, <1>8

LEMMA JoinKeepsKeys ==
    ASSUME NEW H, NEW G, NEW a, NEW b, Joined(H, G, a, b), Keyed(H),
           \A p \in DOMAIN H : IsRecord(H[p]),
           a[1] # "input", b[1] # "input" \/ H[a].hash = H[b].hash
    PROVE  Keyed(G)
<1>1. G[a].hash \in {H[a].hash, H[b].hash}
  <2>1. a \in DOMAIN H /\ b \in DOMAIN H
    BY DEF Joined
  <2>2. Merge(H[a], H[b]).hash = H[a].hash /\ Merge(H[b], H[a]).hash = H[b].hash
    BY <2>1, MergeFields
  <2> QED BY <2>2 DEF Joined
<1>2. \A p \in DOMAIN H \ {a, b} :
        p[1] # "input" => H[p].hash # H[a].hash /\ H[p].hash # H[b].hash
  BY DEF Joined, Keyed
<1>3. \A p \in DOMAIN G : p # a => p \in DOMAIN H \ {a, b} /\ G[p] = H[p]
  BY DEF Joined
<1> QED BY <1>1, <1>2, <1>3 DEF Keyed

LEMMA JoinSound ==
    ASSUME NEW jobs, NEW H, NEW G, NEW a, NEW b, Joined(H, G, a, b),
           \A p \in DOMAIN H : Sound(jobs, H[p])
    PROVE  \A p \in DOMAIN G : Sound(jobs, G[p])
<1>1. Sound(jobs, G[a])
  BY MergeSound DEF Joined
<1>2. \A p \in DOMAIN G : p # a => p \in DOMAIN H \ {a, b} /\ G[p] = H[p]
  BY DEF Joined
<1> QED BY <1>1, <1>2

-----------------------------------------------------------------------------
(* The places of the pipeline. *)

LEMMA PlaceForms ==
    /\ \A k : <<"input", k>> \in Places <=> k \in Entering
    /\ \A k : <<"list", k>> \in Places <=> k \in Staying
    /\ \A k : <<"current", k>> \in Places <=> k \in Comparing
    /\ \A k : <<"out", k>> \in Places <=> k \in DOMAIN out
    /\ \A k : <<"noUrl", k>> \in Places <=> k \in DOMAIN noUrl
    /\ \A p \in Places :
        \/ \E k \in Entering : p = <<"input", k>>
        \/ \E k \in Staying : p = <<"list", k>>
        \/ \E k \in Comparing : p = <<"current", k>>
        \/ \E k \in DOMAIN out : p = <<"out", k>>
        \/ \E k \in DOMAIN noUrl : p = <<"noUrl", k>>
  BY DEF Places, PlaceSet

LEMMA HeldThere ==
    /\ DOMAIN Holding = Places
    /\ \A k \in Entering : Holding[<<"input", k>>] = Load(k)
    /\ \A k \in Staying : Holding[<<"list", k>>] = list[k]
    /\ \A k \in Comparing : Holding[<<"current", k>>] = current
    /\ \A k \in DOMAIN out : Holding[<<"out", k>>] = out[k]
    /\ \A k \in DOMAIN noUrl : Holding[<<"noUrl", k>>] = noUrl[k]
  BY PlaceForms DEF Holding, Held

LEMMA GroupsAreMembers == Groups = MembersOf(Holding)
<1> DEFINE M == MembersOf(Holding)
<1>1. ASSUME NEW A \in Groups PROVE A \in M
  <2>1. CASE \E k \in DOMAIN out : A = out[k].members
    BY <2>1, PlaceForms, HeldThere DEF MembersOf
  <2>2. CASE \E k \in DOMAIN noUrl : A = noUrl[k].members
    BY <2>2, PlaceForms, HeldThere DEF MembersOf
  <2>3. CASE \E k \in Staying : A = list[k].members
    BY <2>3, PlaceForms, HeldThere DEF MembersOf
  <2>4. CASE stage = "compare" /\ A = current.members
    <3>1. 0 \in Comparing
      BY <2>4 DEF Comparing
    <3> QED BY <2>4, <3>1, PlaceForms, HeldThere DEF MembersOf
  <2>5. CASE stage = "hash" /\ \E i \in pos..Len(input) : A = {i}
    <3>1. PICK i \in Entering : A = {i}
      BY <2>5 DEF Entering
    <3>2. Load(i).members = A
      BY <3>1 DEF Load
    <3> QED BY <3>1, <3>2, PlaceForms, HeldThere DEF MembersOf
  <2> QED BY <1>1, <2>1, <2>2, <2>3, <2>4, <2>5 DEF Groups, Staying
<1>2. ASSUME NEW A \in M PROVE A \in Groups
  <2>1. PICK p \in Places : A = Holding[p].members
    BY HeldThere DEF MembersOf
  <2>2. CASE \E k \in Entering : p = <<"input", k>>
    <3>1. PICK k \in Entering : p = <<"input", k>>
      BY <2>2
    <3>2. Holding[p] = Load(k)
      BY <3>1, HeldThere
    <3>3. A = {k}
      BY <2>1, <3>2 DEF Load
    <3> QED BY <3>1, <3>3 DEF Groups, Entering
  <2>3. CASE \E k \in Staying : p = <<"list", k>>
    BY <2>1, <2>3, HeldThere DEF Groups, Staying
  <2>4. CASE \E k \in Comparing : p = <<"current", k>>
    BY <2>1, <2>4, HeldThere DEF Groups, Comparing
  <2>5. CASE \E k \in DOMAIN out : p = <<"out", k>>
    BY <2>1, <2>5, HeldThere DEF Groups
  <2>6. CASE \E k \in DOMAIN noUrl : p = <<"noUrl", k>>
    BY <2>1, <2>6, HeldThere DEF Groups
  <2> QED BY <2>2, <2>3, <2>4, <2>5, <2>6, PlaceForms
<1> QED BY <1>1, <1>2

(* A place keeps what it holds when the variable behind it stays. *)
LEMMA HeldStays ==
    ASSUME input' = input, NEW p \in Places, p \in Places',
           p[1] = "list" => list'[p[2]] = list[p[2]],
           p[1] = "current" => current' = current,
           p[1] = "out" => out'[p[2]] = out[p[2]],
           p[1] = "noUrl" => noUrl'[p[2]] = noUrl[p[2]]
    PROVE  Holding'[p] = Holding[p]
<1>1. \A k : Load(k)' = Load(k)
  BY DEF Load
<1>2. Held(p)' = Held(p)
  BY <1>1, PlaceForms DEF Held
<1>3. Holding[p] = Held(p) /\ Holding'[p] = Held(p)'
  BY DEF Holding
<1> QED BY <1>2, <1>3

-----------------------------------------------------------------------------
(* What an iteration does, by what it does to the places. *)

LEMMA UnansweredBefore == stage # "done" => Answer = <<>>
  BY DEF Answer

LEMMA GroupsAreMembersNext == Groups' = MembersOf(Holding')
<1>1. (Groups = MembersOf(Holding))'
  BY GroupsAreMembers, PTL
<1> QED BY <1>1

LEMMA LinksStay == ASSUME input' = input PROVE Links' = Links /\ (DOMAIN input)' = DOMAIN input
  BY DEF Links, Linked

LEMMA StillStep ==
    ASSUME PipelineInv, input' = input, Shape', NamesKept', FiledByPage',
           stage # "done", stage' # "done", Holding' = Holding
    PROVE  PipelineInv' /\ UNCHANGED (Clusters!vars)
<1>1. PipelineInv'
  BY DEF PipelineInv
<1>2. Groups' = Groups
  BY GroupsAreMembers, GroupsAreMembersNext
<1>3. Answer = <<>> /\ Answer' = <<>>
  BY UnansweredBefore DEF Answer
<1> QED BY <1>1, <1>2, <1>3, LinksStay DEF Clusters!vars

LEMMA MoveStep ==
    ASSUME PipelineInv, input' = input, Shape', NamesKept', FiledByPage',
           stage # "done", stage' # "done",
           NEW from, MovedBy(Holding, Holding', from), Keyed(Holding')
    PROVE  PipelineInv' /\ UNCHANGED (Clusters!vars)
<1>1. /\ Parted(Holding') /\ MembersOf(Holding') = MembersOf(Holding)
      /\ \A p \in DOMAIN Holding' : \E q \in DOMAIN Holding : Holding'[p] = Holding[q]
  BY MovesKeep DEF PipelineInv
<1>2. PipelineInv'
  BY <1>1 DEF PipelineInv
<1>3. Groups' = Groups
  BY <1>1, GroupsAreMembers, GroupsAreMembersNext
<1>4. Answer = <<>> /\ Answer' = <<>>
  BY UnansweredBefore DEF Answer
<1> QED BY <1>2, <1>3, <1>4, LinksStay DEF Clusters!vars

LEMMA RelocationStep ==
    ASSUME PipelineInv, input' = input, Shape', NamesKept', FiledByPage',
           stage # "done", stage' # "done",
           NEW a, NEW b, Relocated(Holding, Holding', a, b),
           \/ a[1] # "input"
           \/ \A p \in Places : p[1] # "input" => Holding[p].hash # Holding[a].hash
    PROVE  PipelineInv' /\ UNCHANGED (Clusters!vars)
<1>1. Keyed(Holding')
  BY RelocationKeepsKeys, HeldThere DEF PipelineInv
<1>2. \E from : MovedBy(Holding, Holding', from)
  BY RelocationMoves
<1> QED BY <1>1, <1>2, MoveStep

LEMMA JoinStep ==
    ASSUME PipelineInv, input' = input, Shape', NamesKept', FiledByPage',
           stage # "done", stage' # "done",
           NEW a, NEW b, Joined(Holding, Holding', a, b),
           a[1] # "input", b[1] # "input" \/ Holding[a].hash = Holding[b].hash,
           Clusters!Bridged(Holding[a].members, Holding[b].members)
    PROVE  PipelineInv' /\ \E A, B \in Groups : Clusters!Unite(A, B)
<1>1. \A p \in DOMAIN Holding :
        Sound(input, Holding[p]) /\ IsRecord(Holding[p]) /\ Holding[p].members # {}
  BY DEF PipelineInv, Sound
<1>2. PipelineInv'
  <2>1. \A p \in DOMAIN Holding' : Sound(input, Holding'[p])
    BY <1>1, JoinSound
  <2>2. Parted(Holding')
    BY <1>1, JoinUnites DEF PipelineInv
  <2>3. Keyed(Holding')
    BY <1>1, JoinKeepsKeys DEF PipelineInv
  <2> QED BY <2>1, <2>2, <2>3 DEF PipelineInv
<1>3. Answer = <<>> /\ Answer' = <<>>
  BY UnansweredBefore DEF Answer
<1> DEFINE A == Holding[a].members
           B == Holding[b].members
<1>4. A \in Groups /\ B \in Groups /\ A # B /\ Groups' = (Groups \ {A, B}) \cup {A \cup B}
  BY <1>1, JoinUnites, GroupsAreMembers, GroupsAreMembersNext DEF PipelineInv
<1>5. Clusters!Unite(A, B)
  BY <1>3, <1>4, LinksStay DEF Clusters!Unite
<1> QED BY <1>2, <1>4, <1>5

LEMMA PlaceFormsNext ==
    /\ \A k : <<"input", k>> \in Places' <=> k \in Entering'
    /\ \A k : <<"list", k>> \in Places' <=> k \in Staying'
    /\ \A k : <<"current", k>> \in Places' <=> k \in Comparing'
    /\ \A k : <<"out", k>> \in Places' <=> k \in DOMAIN out'
    /\ \A k : <<"noUrl", k>> \in Places' <=> k \in DOMAIN noUrl'
<1>1. /\ (\A k : <<"input", k>> \in Places <=> k \in Entering)'
      /\ (\A k : <<"list", k>> \in Places <=> k \in Staying)'
      /\ (\A k : <<"current", k>> \in Places <=> k \in Comparing)'
      /\ (\A k : <<"out", k>> \in Places <=> k \in DOMAIN out)'
      /\ (\A k : <<"noUrl", k>> \in Places <=> k \in DOMAIN noUrl)'
  BY DEF Places, PlaceSet
<1> QED BY <1>1

LEMMA HeldThereNext ==
    /\ DOMAIN Holding' = Places'
    /\ \A k \in Staying' : Holding'[<<"list", k>>] = list'[k]
    /\ \A k \in Comparing' : Holding'[<<"current", k>>] = current'
    /\ \A k \in DOMAIN out' : Holding'[<<"out", k>>] = out'[k]
    /\ \A k \in DOMAIN noUrl' : Holding'[<<"noUrl", k>>] = noUrl'[k]
<1>1. Holding' = [p \in Places' |-> Held(p)']
  BY DEF Holding
<1>2. /\ \A k : Held(<<"list", k>>)' = list'[k]
      /\ \A k : Held(<<"current", k>>)' = current'
      /\ \A k : Held(<<"out", k>>)' = out'[k]
      /\ \A k : Held(<<"noUrl", k>>)' = noUrl'[k]
  BY DEF Held
<1> QED BY <1>1, <1>2, PlaceFormsNext

(* Stage 1. *)
LEMMA HashJobStep ==
    ASSUME PipelineInv, HashJob
    PROVE  PipelineInv' /\ (UNCHANGED (Clusters!vars) \/ \E A, B \in Groups : Clusters!Unite(A, B))
<1> DEFINE job == Load(pos)
           a == <<"input", pos>>
<1>1. /\ stage = "hash" /\ stage' = "hash" /\ pos <= Len(input) /\ pos' = pos + 1
      /\ out' = File(out, SameHash(out, job), job)
      /\ UNCHANGED <<input, list, inner, current, norm, merged, noUrl>>
  BY DEF HashJob
<1>2. /\ Shape /\ Parted(Holding) /\ Keyed(Holding)
      /\ \A p \in DOMAIN Holding : Sound(input, Holding[p])
  BY DEF PipelineInv
<1>3. /\ Len(input) \in Nat /\ DOMAIN input = 1..Len(input) /\ pos \in 1..Len(input)
      /\ list = <<>> /\ noUrl = <<>> /\ merged = {} /\ IsList(out)
      /\ DOMAIN noUrl = {} /\ inner \in Nat
  BY <1>1, <1>2, ListShape, EmptyIsList DEF Shape
<1>4. /\ pos \in Entering /\ Entering' = Entering \ {pos}
      /\ Staying = {} /\ Staying' = {} /\ Comparing = {} /\ Comparing' = {}
  BY <1>1, <1>3 DEF Entering, Staying, Comparing, Waiting
<1>5. a \in Places /\ Holding[a] = job /\ DOMAIN Holding = Places /\ DOMAIN Holding' = Places'
  BY <1>4, PlaceForms, HeldThere, HeldThereNext
<1>6. NamesOfMember' /\ FiledByPage'
  BY <1>1, <1>3 DEF NamesOfMember, FiledByPage
<1>7. ASSUME IsList(out') PROVE Shape'
  BY <1>1, <1>2, <1>3, <1>7, EmptyIsList DEF Shape
<1>f. IsRecord(job) /\ Fresh(job) /\ \A k \in DOMAIN out : Fresh(out[k])
  BY <1>1, <1>2, <1>3, LoadSound DEF Sound, PipelineInv, NamesKept, FreshNames
<1> HIDE DEF job
<1>8. CASE SameHash(out, job) = {}
  <2> DEFINE b == <<"out", Len(out) + 1>>
  <2>1. out' = Append(out, job)
    BY <1>1, <1>8 DEF File
  <2>2. /\ IsList(out') /\ DOMAIN out' = DOMAIN out \cup {Len(out) + 1}
        /\ Len(out) + 1 \notin DOMAIN out
        /\ \A k \in DOMAIN out : out'[k] = out[k]
        /\ out'[Len(out) + 1] = job
    BY <1>3, <2>1, AppendShape
  <2>3. Places' = (Places \ {a}) \cup {b} /\ b \notin Places
    BY <1>1, <1>3, <1>4, <2>2 DEF Places, PlaceSet
  <2>4. Holding'[b] = Holding[a]
    BY <1>5, <2>2, HeldThereNext
  <2>5. ASSUME NEW p \in Places \ {a} PROVE Holding'[p] = Holding[p]
    <3>1. p \in Places' /\ (p[1] = "out" => p[2] \in DOMAIN out)
      BY <2>3, PlaceForms
    <3>2. p[1] = "noUrl" => noUrl'[p[2]] = noUrl[p[2]]
      BY <1>1
    <3> QED BY <1>1, <2>2, <3>1, <3>2, HeldStays
  <2>6. Relocated(Holding, Holding', a, b)
    BY <1>5, <2>3, <2>4, <2>5 DEF Relocated
  <2>7. \A p \in Places : p[1] # "input" => Holding[p].hash # Holding[a].hash
    <3>1. ASSUME NEW p \in Places, p[1] # "input" PROVE p[1] = "out" /\ p[2] \in DOMAIN out /\ Holding[p] = out[p[2]]
      BY <1>3, <1>4, <3>1, PlaceForms, HeldThere
    <3> QED BY <1>5, <1>8, <3>1 DEF SameHash
  <2>8. NamesKept'
    BY <1>1, <1>6, <1>f, <2>2 DEF NamesKept, FreshNames
  <2> QED BY <1>1, <1>6, <1>7, <2>2, <2>6, <2>7, <2>8, RelocationStep
<1>9. CASE SameHash(out, job) # {}
  <2>1. PICK k \in DOMAIN out : out[k].hash = job.hash
    BY <1>9 DEF SameHash
  <2> DEFINE c == <<"out", k>>
  <2>2. c \in Places /\ Holding[c] = out[k] /\ c # a
    BY PlaceForms, HeldThere
  <2>3. SameHash(out, job) = {k}
    <3>1. ASSUME NEW l \in DOMAIN out, l # k PROVE out[l].hash # out[k].hash
      <4>1. <<"out", l>> \in Places /\ Holding[<<"out", l>>] = out[l]
        BY PlaceForms, HeldThere
      <4> QED BY <1>2, <1>5, <2>2, <3>1, <4>1 DEF Keyed
    <3> QED BY <2>1, <3>1 DEF SameHash
  <2>4. /\ IsList(out') /\ DOMAIN out' = DOMAIN out
        /\ out'[k] = MergeRicher(out[k], job)
        /\ \A l \in DOMAIN out : l # k => out'[l] = out[l]
    <3>1. out' = File(out, {k}, job)
      BY <1>1, <2>3
    <3>2. IsList(out) /\ k \in DOMAIN out
      BY <1>3, <2>1
    <3>3. IsList(out') /\ DOMAIN out' = DOMAIN out
      BY <3>1, <3>2, FileInPlace
    <3>4. out'[k] = MergeRicher(out[k], job)
      BY <3>1, <3>2, FileInPlace
    <3>5. \A l \in DOMAIN out : l # k => out'[l] = out[l]
      BY <3>1, <3>2, FileInPlace
    <3> QED BY <3>3, <3>4, <3>5
  <2>5. Places' = Places \ {a}
    BY <1>1, <1>3, <1>4, <2>4 DEF Places, PlaceSet
  <2>6. Holding'[c] \in {Merge(Holding[c], Holding[a]), Merge(Holding[a], Holding[c])}
    BY <1>5, <2>2, <2>4, HeldThereNext, RicherIsMerge
  <2>7. ASSUME NEW p \in Places \ {a, c} PROVE Holding'[p] = Holding[p]
    <3>1. p \in Places' /\ (p[1] = "out" => p[2] \in DOMAIN out /\ p[2] # k)
      BY <2>5, PlaceForms
    <3> QED BY <1>1, <2>4, <3>1, HeldStays
  <2>8. Joined(Holding, Holding', c, a)
    BY <1>5, <2>2, <2>5, <2>6, <2>7 DEF Joined
  <2>9. Clusters!Bridged(Holding[c].members, Holding[a].members)
    <3>1. Holding[a].members = {pos} /\ pos \in DOMAIN input
      BY <1>3, <1>5 DEF Load, job
    <3>2. /\ job.hash[1] = NormalizeTitle(input[pos].title)
          /\ job.hash[2] = NormalizeCompany(input[pos].company)
      BY DEF Load, JobHash, job
    <3>3. PICK i \in out[k].members :
            /\ out[k].hash[1] = NormalizeTitle(input[i].title)
            /\ out[k].hash[2] = NormalizeCompany(input[i].company)
      <4>1. PICK i \in out[k].members : HashOf(input, out[k], i)
        BY <1>2, <1>5, <2>2 DEF Sound
      <4> QED BY <4>1 DEF HashOf, JobHash
    <3>4. i \in DOMAIN input
      BY <1>2, <1>5, <2>2, <3>3 DEF Sound
    <3>5. <<i, pos>> \in Links
      BY <2>1, <3>1, <3>2, <3>3, <3>4 DEF Links, Linked, Similar
    <3> QED BY <2>2, <3>1, <3>3, <3>5 DEF Clusters!Bridged
  <2>10. Holding[c].hash = Holding[a].hash
    BY <1>5, <2>1, <2>2
  <2>11. Fresh(MergeRicher(out[k], job))
    <3>1. IsRecord(out[k])
      BY <1>2, <1>5, <2>2 DEF Sound
    <3> QED BY <1>f, <2>1, <3>1, RicherFresh
  <2>12. NamesKept'
    BY <1>1, <1>6, <1>f, <2>4, <2>11 DEF NamesKept, FreshNames
  <2> QED BY <1>1, <1>6, <1>7, <2>4, <2>8, <2>9, <2>10, <2>12, JoinStep
<1> QED BY <1>8, <1>9

(* A list becomes the list of the next stage: what was filed waits again. *)
LEMMA HandOver ==
    ASSUME PipelineInv, input' = input, list' = out, out' = <<>>, noUrl' = noUrl,
           noUrl = <<>>, Entering = {}, Entering' = {}, Staying = {}, Comparing = {},
           Comparing' = {}, Staying' = DOMAIN out,
           Shape', NamesKept', FiledByPage', stage # "done", stage' # "done"
    PROVE  PipelineInv' /\ UNCHANGED (Clusters!vars)
<1> DEFINE from == [p \in Places' |-> <<"out", p[2]>>]
<1>1. DOMAIN noUrl = {} /\ DOMAIN out' = {}
  BY EmptyIsList
<1>2. Places = {"out"} \X DOMAIN out /\ Places' = {"list"} \X DOMAIN out
  BY <1>1 DEF Places, PlaceSet
<1>3. MovedBy(Holding, Holding', from)
  <2>1. DOMAIN Holding = Places /\ DOMAIN Holding' = Places'
    BY HeldThere, HeldThereNext
  <2>2. from \in [Places' -> Places]
    BY <1>2
  <2>3. \A p, q \in Places' : p # q => from[p] # from[q]
    BY <1>2
  <2>4. ASSUME NEW p \in Places PROVE \E q \in Places' : from[q] = p
    <3>1. PICK k \in DOMAIN out : p = <<"out", k>>
      BY <1>2
    <3>2. <<"list", k>> \in Places' /\ from[<<"list", k>>] = p
      BY <1>2, <3>1
    <3> QED BY <3>2
  <2>5. ASSUME NEW p \in Places' PROVE Holding'[p] = Holding[from[p]]
    <3>1. PICK k \in DOMAIN out : p = <<"list", k>>
      BY <1>2
    <3>2. Holding'[p] = list'[k] /\ Holding[<<"out", k>>] = out[k]
      BY <3>1, HeldThere, HeldThereNext
    <3>3. from[p] = <<"out", k>>
      BY <3>1
    <3> QED BY <3>2, <3>3
  <2> QED BY <2>1, <2>2, <2>3, <2>4, <2>5 DEF MovedBy
<1>4. Keyed(Holding')
  <2>1. \A p \in DOMAIN Holding' : p[1] # "input" => from[p][1] # "input"
    BY HeldThereNext
  <2> HIDE DEF from
  <2> QED BY <1>3, <2>1, MovesKeepKeys DEF PipelineInv
<1> QED BY <1>3, <1>4, MoveStep

LEMMA EndHashingStep == ASSUME PipelineInv, EndHashing PROVE PipelineInv' /\ UNCHANGED (Clusters!vars)
<1>1. /\ stage = "hash" /\ stage' = "pick" /\ pos > Len(input) /\ pos' = 1
      /\ list' = out /\ out' = <<>>
      /\ UNCHANGED <<input, inner, current, norm, merged, noUrl>>
  BY DEF EndHashing
<1>2. /\ Shape /\ list = <<>> /\ noUrl = <<>> /\ merged = {} /\ IsList(out)
      /\ Len(out) \in Nat /\ DOMAIN out = 1..Len(out) /\ DOMAIN list = {} /\ Len(input) \in Nat
  BY <1>1, ListShape, EmptyIsList DEF PipelineInv, Shape
<1>3. /\ Entering = {} /\ Entering' = {} /\ Comparing = {} /\ Comparing' = {}
      /\ Staying = {} /\ Staying' = DOMAIN out
  BY <1>1, <1>2 DEF Entering, Comparing, Staying, Waiting, Shape
<1>4. Shape'
  BY <1>1, <1>2, EmptyIsList DEF Shape
<1>5. NamesKept' /\ FiledByPage'
  BY <1>1, <1>2, EmptyIsList DEF PipelineInv, NamesKept, FreshNames, NamesOfMember, FiledByPage
<1> QED BY <1>1, <1>2, <1>3, <1>4, <1>5, HandOver

LEMMA EndMatchingStep == ASSUME PipelineInv, EndMatching PROVE PipelineInv' /\ UNCHANGED (Clusters!vars)
<1>1. /\ stage = "pick" /\ stage' = "url" /\ pos > Len(list) /\ pos' = 1
      /\ list' = out /\ out' = <<>>
      /\ UNCHANGED <<input, inner, current, norm, merged, noUrl>>
  BY DEF EndMatching
<1>2. /\ Shape /\ noUrl = <<>> /\ IsList(out) /\ IsList(list)
      /\ Len(out) \in Nat /\ DOMAIN out = 1..Len(out)
      /\ Len(list) \in Nat /\ DOMAIN list = 1..Len(list)
  BY <1>1, ListShape DEF PipelineInv, Shape
<1>3. /\ Entering = {} /\ Entering' = {} /\ Comparing = {} /\ Comparing' = {}
      /\ Staying = {} /\ Staying' = DOMAIN out
  BY <1>1, <1>2 DEF Entering, Comparing, Staying, Waiting, Shape
<1>4. Shape'
  BY <1>1, <1>2, EmptyIsList DEF Shape
<1>5. NamesKept' /\ FiledByPage'
  BY <1>1, <1>2, EmptyIsList DEF NamesKept, FreshNames, NamesOfMember, FiledByPage, PagesDiffer
<1> QED BY <1>1, <1>2, <1>3, <1>4, <1>5, HandOver

-----------------------------------------------------------------------------
(* Stage 2. *)

LEMMA PickCurrentStep == ASSUME PipelineInv, PickCurrent PROVE PipelineInv' /\ UNCHANGED (Clusters!vars)
<1>1. /\ stage = "pick" /\ pos <= Len(list)
      /\ UNCHANGED <<input, list, merged, out, noUrl>>
  BY DEF PickCurrent
<1>2. /\ Shape /\ noUrl = <<>> /\ IsList(list)
      /\ Len(list) \in Nat /\ DOMAIN list = 1..Len(list) /\ pos \in DOMAIN list /\ pos \in Nat
      /\ inner \in Nat /\ FiledByPage
  BY <1>1, ListShape DEF PipelineInv, Shape
<1>3. Entering = {} /\ Comparing = {}
  BY <1>1 DEF Entering, Comparing
<1>4. CASE pos \in merged /\ SkipMerged /\ UNCHANGED <<stage, inner, current, norm>>
  <2>1. pos' = pos + 1 /\ stage' = "pick"
    BY <1>1, <1>4 DEF SkipMerged
  <2>2. Staying' = Staying /\ Entering' = {} /\ Comparing' = {}
    BY <1>1, <1>2, <1>4, <2>1 DEF Staying, Waiting, Entering, Comparing
  <2>3. Places' = Places
    BY <1>1, <1>3, <2>2 DEF Places
  <2>4. Holding' = Holding
    <3>1. \A p \in Places : Holding'[p] = Holding[p]
      BY <1>1, <1>4, <2>3, HeldStays
    <3> QED BY <2>3, <3>1 DEF Holding
  <2>5. Shape' /\ NamesKept' /\ FiledByPage'
    BY <1>1, <1>2, <1>4, <2>1
       DEF PipelineInv, Shape, NamesKept, FreshNames, NamesOfMember, FiledByPage, PagesDiffer
  <2> QED BY <1>1, <2>1, <2>4, <2>5, StillStep
<1>5. CASE /\ pos \notin merged /\ current' = list[pos]
           /\ norm' = <<NormalizeTitle(list[pos].title), NormalizeCompany(list[pos].company)>>
           /\ inner' = pos + 1 /\ stage' = "compare" /\ UNCHANGED pos
  <2> DEFINE a == <<"list", pos>>
             b == <<"current", 0>>
  <2>1. pos \in Staying /\ Staying' = Staying \ {pos} /\ Entering' = {} /\ Comparing' = {0}
    BY <1>1, <1>2, <1>5 DEF Staying, Waiting, Entering, Comparing
  <2>2. a \in Places /\ b \notin Places /\ Places' = (Places \ {a}) \cup {b}
    BY <1>1, <1>3, <2>1 DEF Places, PlaceSet
  <2>3. /\ DOMAIN Holding = Places /\ DOMAIN Holding' = Places'
        /\ Holding[a] = list[pos] /\ Holding'[b] = list[pos]
    BY <1>5, <2>1, HeldThere, HeldThereNext
  <2>4. ASSUME NEW p \in Places \ {a} PROVE Holding'[p] = Holding[p]
    <3>1. p \in Places' /\ p[1] # "current"
      BY <1>3, <2>2, PlaceForms
    <3> QED BY <1>1, <3>1, HeldStays
  <2>5. Relocated(Holding, Holding', a, b)
    BY <2>2, <2>3, <2>4 DEF Relocated
  <2>6. Shape'
    BY <1>1, <1>2, <1>5 DEF Shape
  <2>7. NamesKept'
    <3>1. PICK i \in list[pos].members : HashOf(input, list[pos], i)
      BY <2>2, <2>3 DEF PipelineInv, Sound
    <3>2. \A k \in DOMAIN list : Fresh(list[k])
      BY <1>1 DEF PipelineInv, NamesKept, FreshNames
    <3>3. /\ NormalizeTitle(list[pos].title) = NormalizeTitle(input[i].title)
          /\ NormalizeCompany(list[pos].company) = NormalizeCompany(input[i].company)
      BY <1>2, <3>1, <3>2 DEF HashOf, Fresh, JobHash
    <3>4. NamesOfMember'
      BY <1>1, <1>5, <3>1, <3>3 DEF NamesOfMember
    <3> QED BY <1>1, <1>5, <3>2, <3>4 DEF NamesKept, FreshNames
  <2>8. FiledByPage'
    BY <1>1, <1>2, <1>5 DEF FiledByPage, PagesDiffer
  <2> QED BY <1>1, <1>5, <2>5, <2>6, <2>7, <2>8, RelocationStep
<1> QED BY <1>4, <1>5 DEF PickCurrent

(* The record that absorbs another sits at current; the one whose place     *)
(* falls out of the list is marked as merged.                               *)
LEMMA CompareNextStep ==
    ASSUME PipelineInv, CompareNext
    PROVE  PipelineInv' /\ (UNCHANGED (Clusters!vars) \/ \E A, B \in Groups : Clusters!Unite(A, B))
<1>1. /\ stage = "compare" /\ stage' = "compare" /\ inner <= Len(list) /\ inner' = inner + 1
      /\ UNCHANGED <<input, list, pos, norm, out, noUrl>>
  BY DEF CompareNext
<1>2. /\ Shape /\ noUrl = <<>> /\ IsList(list) /\ pos \in Nat /\ inner \in Nat
      /\ Len(list) \in Nat /\ DOMAIN list = 1..Len(list) /\ inner \in DOMAIN list
      /\ pos < inner /\ pos \in 1..Len(list)
      /\ NamesOfMember /\ FiledByPage /\ \A k \in DOMAIN list : Fresh(list[k])
  BY <1>1, ListShape DEF PipelineInv, Shape, NamesKept, FreshNames
<1>3. /\ Entering = {} /\ Comparing = {0} /\ Entering' = {} /\ Comparing' = {0}
  BY <1>1 DEF Entering, Comparing
<1>4. Shape' /\ FiledByPage'
  BY <1>1, <1>2 DEF Shape, FiledByPage, PagesDiffer
<1>5. CASE UNCHANGED <<current, merged>>
  <2>1. Staying' = Staying
    BY <1>1, <1>5 DEF Staying, Waiting
  <2>2. Places' = Places
    BY <1>1, <1>3, <2>1 DEF Places
  <2>3. Holding' = Holding
    <3>1. \A p \in Places : Holding'[p] = Holding[p]
      BY <1>1, <1>5, <2>2, HeldStays
    <3> QED BY <2>2, <3>1 DEF Holding
  <2>4. NamesKept'
    BY <1>1, <1>2, <1>5 DEF NamesKept, FreshNames, NamesOfMember
  <2> QED BY <1>1, <1>4, <2>3, <2>4, StillStep
<1>6. CASE inner \notin merged /\ Matches(list[inner]) /\ Absorb(inner)
  <2> DEFINE a == <<"current", 0>>
             b == <<"list", inner>>
  <2>1. /\ merged' = merged \cup {inner}
        /\ current' \in {Merge(list[inner], current), Merge(current, list[inner])}
    BY <1>6 DEF Absorb
  <2>2. inner \in Staying /\ Staying' = Staying \ {inner}
    BY <1>1, <1>2, <1>6, <2>1 DEF Staying, Waiting
  <2>3. a \in Places /\ b \in Places /\ Places' = Places \ {b}
    BY <1>1, <1>3, <2>2 DEF Places, PlaceSet
  <2>4. /\ DOMAIN Holding = Places /\ DOMAIN Holding' = Places'
        /\ Holding[a] = current /\ Holding[b] = list[inner] /\ Holding'[a] = current'
    BY <1>3, <2>2, HeldThere, HeldThereNext
  <2>5. ASSUME NEW p \in Places \ {a, b} PROVE Holding'[p] = Holding[p]
    <3>1. p \in Places' /\ p[1] # "current"
      BY <1>3, <2>3, PlaceForms
    <3> QED BY <1>1, <3>1, HeldStays
  <2>6. Joined(Holding, Holding', a, b)
    BY <2>1, <2>3, <2>4, <2>5 DEF Joined
  <2>7. Sound(input, current) /\ Sound(input, list[inner])
    BY <2>3, <2>4 DEF PipelineInv
  <2>8. PICK i \in current.members :
            norm[1] = NormalizeTitle(input[i].title) /\ norm[2] = NormalizeCompany(input[i].company)
    BY <1>1, <1>2 DEF NamesOfMember
  <2>9. NamesKept'
    <3>1. IsRecord(current) /\ IsRecord(list[inner])
      BY <2>7 DEF Sound
    <3>2. Merge(current, list[inner]).members = current.members \cup list[inner].members
      BY <3>1, MergeMembers
    <3>3. Merge(list[inner], current).members = list[inner].members \cup current.members
      BY <3>1, MergeMembers
    <3>4. i \in current'.members
      BY <2>1, <2>8, <3>2, <3>3
    <3> QED BY <1>1, <1>2, <2>8, <3>4 DEF NamesKept, FreshNames, NamesOfMember
  <2>10. Clusters!Bridged(current.members, list[inner].members)
    <3>1. PICK j \in list[inner].members : HashOf(input, list[inner], j)
      BY <2>7 DEF Sound
    <3>0. /\ NormalizeTitle(list[inner].title) = NormalizeTitle(input[j].title)
          /\ NormalizeCompany(list[inner].company) = NormalizeCompany(input[j].company)
      BY <1>2, <3>1 DEF HashOf, Fresh, JobHash
    <3>2. i \in DOMAIN input /\ j \in DOMAIN input
      BY <2>7, <2>8, <3>1 DEF Sound
    <3>3. /\ Similar(NormalizeTitle(input[i].title), NormalizeTitle(input[j].title))
          /\ NormalizeCompany(input[i].company) = NormalizeCompany(input[j].company)
      BY <1>6, <2>8, <3>0 DEF Matches
    <3>4. <<i, j>> \in Links
      BY <3>2, <3>3 DEF Links, Linked
    <3> QED BY <2>8, <3>1, <3>4 DEF Clusters!Bridged
  <2> QED BY <1>1, <1>4, <2>4, <2>6, <2>9, <2>10, JoinStep
<1> QED BY <1>5, <1>6 DEF CompareNext

LEMMA KeepCurrentStep == ASSUME PipelineInv, KeepCurrent PROVE PipelineInv' /\ UNCHANGED (Clusters!vars)
<1>1. /\ stage = "compare" /\ stage' = "pick" /\ inner > Len(list) /\ pos' = pos + 1
      /\ out' = Append(out, current)
      /\ UNCHANGED <<input, list, inner, merged, noUrl>>
  BY DEF KeepCurrent
<1>2. /\ Shape /\ noUrl = <<>> /\ IsList(list) /\ pos \in Nat /\ inner \in Nat
      /\ Len(list) \in Nat /\ DOMAIN list = 1..Len(list) /\ pos \in DOMAIN list
      /\ IsList(out) /\ DOMAIN noUrl = {}
  BY <1>1, ListShape, EmptyIsList DEF PipelineInv, Shape
<1> DEFINE a == <<"current", 0>>
           b == <<"out", Len(out) + 1>>
<1>3. /\ Entering = {} /\ Comparing = {0} /\ Entering' = {} /\ Comparing' = {}
      /\ Staying' = Staying
  BY <1>1, <1>2 DEF Entering, Comparing, Staying, Waiting
<1>4. /\ IsList(out') /\ DOMAIN out' = DOMAIN out \cup {Len(out) + 1}
      /\ Len(out) + 1 \notin DOMAIN out
      /\ \A k \in DOMAIN out : out'[k] = out[k]
      /\ out'[Len(out) + 1] = current
  BY <1>1, <1>2, AppendShape
<1>5. a \in Places /\ b \notin Places /\ Places' = (Places \ {a}) \cup {b}
  BY <1>1, <1>3, <1>4 DEF Places, PlaceSet
<1>6. /\ DOMAIN Holding = Places /\ DOMAIN Holding' = Places'
      /\ Holding[a] = current /\ Holding'[b] = current
  BY <1>3, <1>4, HeldThere, HeldThereNext
<1>7. ASSUME NEW p \in Places \ {a} PROVE Holding'[p] = Holding[p]
  <2>1. p \in Places' /\ p[1] # "current" /\ (p[1] = "out" => p[2] \in DOMAIN out)
    BY <1>3, <1>5, PlaceForms
  <2>2. p[1] = "noUrl" => noUrl'[p[2]] = noUrl[p[2]]
    BY <1>1
  <2> QED BY <1>1, <1>4, <2>1, <2>2, HeldStays
<1>8. Relocated(Holding, Holding', a, b)
  BY <1>5, <1>6, <1>7 DEF Relocated
<1>9. Shape'
  BY <1>1, <1>2, <1>4 DEF Shape
<1>10. NamesKept' /\ FiledByPage'
  BY <1>1, <1>2 DEF PipelineInv, NamesKept, FreshNames, NamesOfMember, FiledByPage
<1> QED BY <1>1, <1>8, <1>9, <1>10, RelocationStep

-----------------------------------------------------------------------------
(* Stage 3 and the result. *)

LEMMA PageOfMerge ==
    ASSUME NEW p, NEW s, IsRecord(p), CanonicalUrl(p.employer) # NoUrl
    PROVE  Merge(p, s).employer = p.employer
  BY MergeFields DEF CanonicalUrl

LEMMA FileByUrlStep ==
    ASSUME PipelineInv, FileByUrl
    PROVE  PipelineInv' /\ (UNCHANGED (Clusters!vars) \/ \E A, B \in Groups : Clusters!Unite(A, B))
<1> DEFINE job == list[pos]
           a == <<"list", pos>>
           Page(r) == CanonicalUrl(r.employer)
<1>1. /\ stage = "url" /\ stage' = "url" /\ pos <= Len(list) /\ pos' = pos + 1
      /\ UNCHANGED <<input, list, inner, current, norm, merged>>
  BY DEF FileByUrl
<1>2. /\ Shape /\ IsList(list) /\ IsList(out) /\ IsList(noUrl) /\ pos \in Nat
      /\ Len(list) \in Nat /\ DOMAIN list = 1..Len(list) /\ pos \in DOMAIN list
      /\ FiledByPage
      /\ \A p \in DOMAIN Holding : Sound(input, Holding[p])
  BY <1>1, ListShape DEF PipelineInv, Shape
<1>3. /\ Entering = {} /\ Comparing = {} /\ Entering' = {} /\ Comparing' = {}
      /\ pos \in Staying /\ Staying' = Staying \ {pos}
  BY <1>1, <1>2 DEF Entering, Comparing, Staying, Waiting
<1>4. a \in Places /\ Holding[a] = job /\ DOMAIN Holding = Places /\ DOMAIN Holding' = Places'
  BY <1>3, PlaceForms, HeldThere, HeldThereNext
<1>5. NamesKept'
  BY <1>1 DEF NamesKept, FreshNames, NamesOfMember
<1>6. ASSUME IsList(out'), IsList(noUrl') PROVE Shape'
  BY <1>1, <1>2, <1>6 DEF Shape
<1>7. CASE Page(job) = NoUrl /\ noUrl' = Append(noUrl, job) /\ UNCHANGED out
  <2> DEFINE b == <<"noUrl", Len(noUrl) + 1>>
  <2>1. /\ IsList(noUrl') /\ DOMAIN noUrl' = DOMAIN noUrl \cup {Len(noUrl) + 1}
        /\ Len(noUrl) + 1 \notin DOMAIN noUrl
        /\ \A k \in DOMAIN noUrl : noUrl'[k] = noUrl[k]
        /\ noUrl'[Len(noUrl) + 1] = job
    BY <1>2, <1>7, AppendShape
  <2>2. b \notin Places /\ Places' = (Places \ {a}) \cup {b}
    BY <1>3, <1>7, <2>1 DEF Places, PlaceSet
  <2>3. Holding'[b] = Holding[a]
    BY <1>4, <2>1, HeldThereNext
  <2>4. ASSUME NEW p \in Places \ {a} PROVE Holding'[p] = Holding[p]
    <3>1. p \in Places' /\ (p[1] = "noUrl" => p[2] \in DOMAIN noUrl)
      BY <2>2, PlaceForms
    <3> QED BY <1>1, <1>7, <2>1, <3>1, HeldStays
  <2>5. Relocated(Holding, Holding', a, b)
    BY <1>4, <2>2, <2>3, <2>4 DEF Relocated
  <2>6. FiledByPage'
    BY <1>1, <1>2, <1>7, <2>1 DEF FiledByPage, PagesDiffer
  <2>7. Shape'
    BY <1>2, <1>6, <1>7, <2>1
  <2> QED BY <1>1, <1>5, <2>5, <2>6, <2>7, RelocationStep
<1>8. CASE /\ Page(job) # NoUrl /\ out' = File(out, SamePage(out, job), job)
           /\ UNCHANGED noUrl /\ SamePage(out, job) = {}
  <2> DEFINE b == <<"out", Len(out) + 1>>
  <2>1. out' = Append(out, job)
    BY <1>8 DEF File
  <2>2. /\ IsList(out') /\ DOMAIN out' = DOMAIN out \cup {Len(out) + 1}
        /\ Len(out) + 1 \notin DOMAIN out
        /\ \A k \in DOMAIN out : out'[k] = out[k]
        /\ out'[Len(out) + 1] = job
    BY <1>2, <2>1, AppendShape
  <2>3. b \notin Places /\ Places' = (Places \ {a}) \cup {b}
    BY <1>3, <1>8, <2>2 DEF Places, PlaceSet
  <2>4. Holding'[b] = Holding[a]
    BY <1>4, <2>2, HeldThereNext
  <2>5. ASSUME NEW p \in Places \ {a} PROVE Holding'[p] = Holding[p]
    <3>1. p \in Places' /\ (p[1] = "out" => p[2] \in DOMAIN out)
      BY <2>3, PlaceForms
    <3> QED BY <1>1, <1>8, <2>2, <3>1, HeldStays
  <2>6. Relocated(Holding, Holding', a, b)
    BY <1>4, <2>3, <2>4, <2>5 DEF Relocated
  <2>7. FiledByPage'
    <3>1. \A k \in DOMAIN out : Page(out[k]) # Page(job)
      BY <1>8 DEF SamePage
    <3>2. \A k \in DOMAIN out' : Page(out'[k]) # NoUrl
      BY <1>1, <1>2, <1>8, <2>2 DEF FiledByPage
    <3>3. \A k, l \in DOMAIN out' : k # l => Page(out'[k]) # Page(out'[l])
      BY <1>1, <1>2, <2>2, <3>1 DEF FiledByPage, PagesDiffer
    <3> QED BY <1>1, <1>2, <1>8, <3>2, <3>3 DEF FiledByPage, PagesDiffer
  <2>8. Shape'
    BY <1>2, <1>6, <1>8, <2>2
  <2> QED BY <1>1, <1>5, <2>6, <2>7, <2>8, RelocationStep
<1>9. CASE /\ Page(job) # NoUrl /\ out' = File(out, SamePage(out, job), job)
           /\ UNCHANGED noUrl /\ SamePage(out, job) # {}
  <2>1. PICK k \in DOMAIN out : Page(out[k]) = Page(job)
    BY <1>9 DEF SamePage
  <2> DEFINE c == <<"out", k>>
  <2>2. c \in Places /\ Holding[c] = out[k] /\ c # a
    BY <2>1, PlaceForms, HeldThere
  <2>3. \A l \in DOMAIN out : l # k => Page(out[l]) # Page(out[k])
    BY <1>1, <1>2, <2>1 DEF FiledByPage, PagesDiffer
  <2>4. SamePage(out, job) = {k}
    BY <2>1, <2>3 DEF SamePage
  <2>5. out' = File(out, {k}, job) /\ IsList(out) /\ k \in DOMAIN out
    BY <1>2, <1>9, <2>1, <2>4
  <2>6. IsList(out') /\ DOMAIN out' = DOMAIN out
    BY <2>5, FileInPlace
  <2>7. out'[k] \in {Merge(out[k], job), Merge(job, out[k])}
    <3>1. out'[k] = MergeRicher(out[k], job)
      BY <2>5, FileInPlace
    <3> QED BY <3>1, RicherIsMerge
  <2>8. \A l \in DOMAIN out : l # k => out'[l] = out[l]
    BY <2>5, FileInPlace
  <2>9. Places' = Places \ {a}
    BY <1>3, <1>9, <2>6 DEF Places, PlaceSet
  <2>10. Holding'[c] \in {Merge(Holding[c], Holding[a]), Merge(Holding[a], Holding[c])}
    BY <1>4, <2>2, <2>5, <2>6, <2>7, HeldThereNext
  <2>11. ASSUME NEW p \in Places \ {a, c} PROVE Holding'[p] = Holding[p]
    <3>1. p \in Places' /\ (p[1] = "out" => p[2] \in DOMAIN out /\ p[2] # k)
      BY <2>9, PlaceForms
    <3> QED BY <1>1, <1>9, <2>8, <3>1, HeldStays
  <2>12. Joined(Holding, Holding', c, a)
    BY <1>4, <2>2, <2>9, <2>10, <2>11 DEF Joined
  <2>13. Sound(input, out[k]) /\ Sound(input, job)
    BY <1>2, <1>4, <2>2
  <2>14. Clusters!Bridged(Holding[c].members, Holding[a].members)
    <3>1. PICK i \in out[k].members : out[k].employer = input[i].employer
      BY <2>13 DEF Sound, Kept
    <3>2. PICK j \in job.members : job.employer = input[j].employer
      BY <2>13 DEF Sound, Kept
    <3>3. i \in DOMAIN input /\ j \in DOMAIN input
      BY <2>13, <3>1, <3>2 DEF Sound
    <3>4. <<i, j>> \in Links
      BY <1>9, <2>1, <3>1, <3>2, <3>3 DEF Links, Linked
    <3> QED BY <1>4, <2>2, <3>1, <3>2, <3>4 DEF Clusters!Bridged
  <2>15. Page(out'[k]) = Page(out[k])
    <3>1. IsRecord(out[k]) /\ IsRecord(job)
      BY <2>13 DEF Sound
    <3>2. Merge(out[k], job).employer = out[k].employer
      BY <1>9, <2>1, <3>1, PageOfMerge
    <3>3. Merge(job, out[k]).employer = job.employer
      BY <1>9, <3>1, PageOfMerge
    <3> QED BY <2>1, <2>7, <3>2, <3>3
  <2>16. \A l \in DOMAIN out : Page(out'[l]) = Page(out[l])
    BY <2>8, <2>15
  <2>17. FiledByPage'
    BY <1>1, <1>2, <1>9, <2>6, <2>16 DEF FiledByPage, PagesDiffer
  <2>18. Shape'
    BY <1>2, <1>6, <1>9, <2>6
  <2> QED BY <1>1, <1>5, <2>12, <2>14, <2>17, <2>18, JoinStep
<1> QED BY <1>7, <1>8, <1>9 DEF FileByUrl

LEMMA ReturnAnswers ==
    ASSUME PipelineInv, Return
    PROVE  PipelineInv' /\ Clusters!Return
<1>1. /\ stage = "url" /\ stage' = "done" /\ pos > Len(list)
      /\ out' = out \o noUrl /\ noUrl' = <<>>
      /\ UNCHANGED <<input, list, pos, inner, current, norm, merged>>
  BY DEF Return
<1>2. /\ Shape /\ IsList(list) /\ IsList(out) /\ IsList(noUrl) /\ pos \in Nat
      /\ Len(list) \in Nat /\ DOMAIN list = 1..Len(list)
      /\ Len(out) \in Nat /\ DOMAIN out = 1..Len(out)
      /\ Len(noUrl) \in Nat /\ DOMAIN noUrl = 1..Len(noUrl)
      /\ FiledByPage /\ DOMAIN noUrl' = {}
  BY <1>1, ListShape, EmptyIsList DEF PipelineInv, Shape
<1>3. /\ Entering = {} /\ Comparing = {} /\ Entering' = {} /\ Comparing' = {}
      /\ Staying = {} /\ Staying' = {}
  BY <1>1, <1>2 DEF Entering, Comparing, Staying, Waiting
<1>4. /\ IsList(out') /\ DOMAIN out' = 1..(Len(out) + Len(noUrl))
      /\ \A k \in DOMAIN out' : out'[k] = IF k <= Len(out) THEN out[k] ELSE noUrl[k - Len(out)]
  BY <1>1, <1>2, ConcatShape
<1>5. /\ Places = ({"out"} \X DOMAIN out) \cup ({"noUrl"} \X DOMAIN noUrl)
      /\ Places' = {"out"} \X DOMAIN out'
      /\ DOMAIN Holding = Places /\ DOMAIN Holding' = Places'
  BY <1>2, <1>3, HeldThere, HeldThereNext DEF Places, PlaceSet
<1> DEFINE from == [p \in Places' |->
                      IF p[2] <= Len(out) THEN <<"out", p[2]>> ELSE <<"noUrl", p[2] - Len(out)>>]
<1>6. MovedBy(Holding, Holding', from)
  <2>1. from \in [Places' -> Places]
    <3> SUFFICES ASSUME NEW p \in Places' PROVE from[p] \in Places
      OBVIOUS
    <3>1. PICK k \in DOMAIN out' : p = <<"out", k>>
      BY <1>5
    <3>2. CASE k <= Len(out)
      BY <1>2, <1>4, <1>5, <3>1, <3>2
    <3>3. CASE ~(k <= Len(out))
      <4>1. k - Len(out) \in DOMAIN noUrl
        BY <1>2, <1>4, <3>3
      <4> QED BY <1>5, <3>1, <3>3, <4>1
    <3> QED BY <3>2, <3>3
  <2>2. ASSUME NEW p \in Places', NEW q \in Places', p # q PROVE from[p] # from[q]
    <3>1. PICK k \in DOMAIN out', l \in DOMAIN out' : p = <<"out", k>> /\ q = <<"out", l>>
      BY <1>5
    <3>2. k # l /\ k \in Nat /\ l \in Nat
      BY <1>2, <1>4, <2>2, <3>1
    <3> QED BY <1>2, <3>1, <3>2
  <2>3. ASSUME NEW p \in Places PROVE \E q \in Places' : from[q] = p
    <3>1. CASE \E k \in DOMAIN out : p = <<"out", k>>
      <4>1. PICK k \in DOMAIN out : p = <<"out", k>>
        BY <3>1
      <4>2. <<"out", k>> \in Places' /\ k <= Len(out)
        BY <1>2, <1>4, <1>5, <4>1
      <4>3. from[<<"out", k>>] = p
        BY <4>1, <4>2
      <4> QED BY <4>2, <4>3
    <3>2. CASE \E k \in DOMAIN noUrl : p = <<"noUrl", k>>
      <4>1. PICK k \in DOMAIN noUrl : p = <<"noUrl", k>>
        BY <3>2
      <4> DEFINE l == Len(out) + k
      <4>2. <<"out", l>> \in Places' /\ ~(l <= Len(out)) /\ l - Len(out) = k
        BY <1>2, <1>4, <1>5, <4>1
      <4>3. from[<<"out", l>>] = p
        BY <4>1, <4>2
      <4> QED BY <4>2, <4>3
    <3> QED BY <1>5, <3>1, <3>2
  <2>4. ASSUME NEW p \in Places' PROVE Holding'[p] = Holding[from[p]]
    <3>1. PICK k \in DOMAIN out' : p = <<"out", k>>
      BY <1>5
    <3>2. Holding'[p] = out'[k]
      BY <3>1, HeldThereNext
    <3>3. CASE k <= Len(out)
      <4>1. k \in DOMAIN out /\ from[p] = <<"out", k>> /\ out'[k] = out[k]
        BY <1>2, <1>4, <3>1, <3>3
      <4> QED BY <3>2, <4>1, HeldThere
    <3>4. CASE ~(k <= Len(out))
      <4>1. /\ k - Len(out) \in DOMAIN noUrl /\ from[p] = <<"noUrl", k - Len(out)>>
            /\ out'[k] = noUrl[k - Len(out)]
        BY <1>2, <1>4, <3>1, <3>4
      <4> QED BY <3>2, <4>1, HeldThere
    <3> QED BY <3>3, <3>4
  <2> QED BY <1>5, <2>1, <2>2, <2>3, <2>4 DEF MovedBy
<1>7. Keyed(Holding')
  <2>1. \A p \in DOMAIN Holding' : from[p][1] # "input"
    BY <1>5
  <2> HIDE DEF from
  <2> QED BY <1>6, <2>1, MovesKeepKeys DEF PipelineInv
<1> HIDE DEF from
<1>8. /\ Parted(Holding') /\ MembersOf(Holding') = MembersOf(Holding)
      /\ \A p \in DOMAIN Holding' : \E q \in DOMAIN Holding : Holding'[p] = Holding[q]
  BY <1>6, MovesKeep DEF PipelineInv
<1>9. Shape'
  BY <1>1, <1>2, <1>4, EmptyIsList DEF Shape
<1>10. NamesKept'
  BY <1>1 DEF NamesKept, FreshNames, NamesOfMember
<1>11. FiledByPage'
  <2> SUFFICES ASSUME NEW k \in DOMAIN out', NEW l \in DOMAIN out', k # l
               PROVE  \/ CanonicalUrl(out'[k].employer) = NoUrl
                      \/ CanonicalUrl(out'[k].employer) # CanonicalUrl(out'[l].employer)
    BY <1>1, <1>2 DEF FiledByPage, PagesDiffer
  <2>1. k \in Nat /\ l \in Nat
    BY <1>2, <1>4
  <2>2. CASE k > Len(out)
    <3>1. k - Len(out) \in DOMAIN noUrl /\ out'[k] = noUrl[k - Len(out)]
      BY <1>2, <1>4, <2>1, <2>2
    <3> QED BY <1>2, <3>1 DEF FiledByPage
  <2>3. CASE k <= Len(out) /\ l > Len(out)
    <3>1. /\ l - Len(out) \in DOMAIN noUrl /\ out'[l] = noUrl[l - Len(out)]
          /\ k \in DOMAIN out /\ out'[k] = out[k]
      BY <1>2, <1>4, <2>1, <2>3
    <3> QED BY <1>1, <1>2, <3>1 DEF FiledByPage
  <2>4. CASE k <= Len(out) /\ l <= Len(out)
    <3>1. /\ k \in DOMAIN out /\ out'[k] = out[k]
          /\ l \in DOMAIN out /\ out'[l] = out[l]
      BY <1>2, <1>4, <2>1, <2>4
    <3> QED BY <1>1, <1>2, <3>1 DEF FiledByPage, PagesDiffer
  <2> QED BY <1>2, <2>1, <2>2, <2>3, <2>4
<1>12. PipelineInv'
  BY <1>1, <1>7, <1>8, <1>9, <1>10, <1>11 DEF PipelineInv
<1>13. Clusters!Return
  <2> DEFINE listed == [k \in DOMAIN out' |-> out'[k].members]
  <2>1. Answer = <<>> /\ Answer' = listed
    BY <1>1, UnansweredBefore DEF Answer
  <2>2. Groups' = Groups
    BY <1>8, GroupsAreMembers, GroupsAreMembersNext
  <2>3. \A k \in DOMAIN out' : <<"out", k>> \in Places' /\ Holding'[<<"out", k>>] = out'[k]
    BY <1>5, HeldThereNext
  <2>4. \A k \in DOMAIN out' : out'[k].members \in Groups
    BY <1>5, <1>8, <2>3, GroupsAreMembers DEF MembersOf
  <2>5. \A A \in Groups : \E k \in DOMAIN out' : out'[k].members = A
    <3> SUFFICES ASSUME NEW A \in Groups PROVE \E k \in DOMAIN out' : out'[k].members = A
      OBVIOUS
    <3>1. PICK p \in Places' : A = Holding'[p].members
      BY <1>5, <1>8, GroupsAreMembers DEF MembersOf
    <3>2. PICK k \in DOMAIN out' : p = <<"out", k>>
      BY <1>5
    <3> QED BY <2>3, <3>1, <3>2
  <2>6. \A k, l \in DOMAIN out' : out'[k].members = out'[l].members => k = l
    <3> SUFFICES ASSUME NEW k \in DOMAIN out', NEW l \in DOMAIN out', k # l
                 PROVE  out'[k].members # out'[l].members
      OBVIOUS
    <3>1. out'[k].members \cap out'[l].members = {}
      <4> DEFINE p == <<"out", k>>
                 q == <<"out", l>>
      <4>1. /\ p # q /\ p \in DOMAIN Holding' /\ q \in DOMAIN Holding'
            /\ Holding'[p] = out'[k] /\ Holding'[q] = out'[l]
        BY <1>5, <2>3
      <4> HIDE DEF p, q
      <4> QED BY <1>8, <4>1 DEF Parted
    <3>2. out'[k].members # {}
      BY <1>5, <1>12, <2>3 DEF PipelineInv, Sound
    <3> QED BY <3>1, <3>2
  <2>7. Answer' \in Seq(Groups)
    <3> DEFINE n == Len(out) + Len(noUrl)
    <3>1. n \in Nat /\ listed \in [1..n -> Groups]
      BY <1>2, <1>4, <2>4
    <3> HIDE DEF n, listed
    <3>2. [1..n -> Groups] \in {[1..m -> Groups] : m \in Nat}
      BY <3>1
    <3> QED BY <2>1, <3>1, <3>2, SeqDef
  <2>8. Clusters!IsInjective(Answer')
    BY <2>1, <2>6 DEF Clusters!IsInjective
  <2>9. \A A \in Groups : \E k \in DOMAIN Answer' : Answer'[k] = A
    BY <2>1, <2>5
  <2> QED BY <1>1, <2>1, <2>2, <2>7, <2>8, <2>9, LinksStay DEF Clusters!Return
<1> QED BY <1>12, <1>13

-----------------------------------------------------------------------------
(* The pipeline as a whole. *)

LEMMA PipelineInit == Init => PipelineInv /\ Clusters!Init
<1> SUFFICES ASSUME Init PROVE PipelineInv /\ Clusters!Init
  OBVIOUS
<1>1. /\ input \in Inputs /\ stage = "hash" /\ pos = 1 /\ inner = 0
      /\ list = <<>> /\ out = <<>> /\ noUrl = <<>> /\ merged = {}
  BY DEF Init
<1>2. IsList(input) /\ Len(input) \in Nat /\ DOMAIN input = 1..Len(input)
  <2>1. IsList(input)
    BY <1>1, DeduplicationAssumption DEF IsList
  <2> QED BY <2>1, ListShape
<1>3. Shape
  BY <1>1, <1>2, EmptyIsList DEF Shape
<1>4. NamesKept /\ FiledByPage
  BY <1>1, EmptyIsList DEF NamesKept, FreshNames, NamesOfMember, FiledByPage
<1>5. Entering = DOMAIN input /\ Staying = {} /\ Comparing = {} /\ DOMAIN out = {} /\ DOMAIN noUrl = {}
  BY <1>1, <1>2, EmptyIsList DEF Entering, Staying, Comparing, Waiting
<1>6. ASSUME NEW p \in DOMAIN Holding
      PROVE  \E i \in DOMAIN input : p = <<"input", i>> /\ Holding[p] = Load(i)
  BY <1>5, PlaceForms, HeldThere
<1>7. \A p \in DOMAIN Holding : Sound(input, Holding[p]) /\ p[1] = "input"
  BY <1>3, <1>6, LoadSound
<1>8. Parted(Holding)
  <2> SUFFICES ASSUME NEW p \in DOMAIN Holding, NEW q \in DOMAIN Holding, p # q
               PROVE  Holding[p].members \cap Holding[q].members = {}
    BY DEF Parted
  <2>1. PICK i \in DOMAIN input : p = <<"input", i>> /\ Holding[p] = Load(i)
    BY <1>6
  <2>2. PICK j \in DOMAIN input : q = <<"input", j>> /\ Holding[q] = Load(j)
    BY <1>6
  <2>3. Holding[p].members = {i} /\ Holding[q].members = {j} /\ i # j
    BY <1>3, <2>1, <2>2, LoadSound
  <2> QED BY <2>3
<1>9. Keyed(Holding)
  BY <1>7 DEF Keyed
<1>10. Clusters!Init
  <2>1. Groups = {{i} : i \in DOMAIN input}
    BY <1>1, <1>2, EmptyIsList DEF Groups, Waiting
  <2> QED BY <1>1, <2>1, UnansweredBefore DEF Clusters!Init, Links
<1> QED BY <1>3, <1>4, <1>7, <1>8, <1>9, <1>10 DEF PipelineInv

LEMMA PipelineStep ==
    PipelineInv /\ [Next]_vars => PipelineInv' /\ [Clusters!Next]_(Clusters!vars)
<1> SUFFICES ASSUME PipelineInv, [Next]_vars
             PROVE  PipelineInv' /\ [Clusters!Next]_(Clusters!vars)
  OBVIOUS
<1>1. CASE HashJob
  BY <1>1, HashJobStep DEF Clusters!Next
<1>2. CASE EndHashing
  BY <1>2, EndHashingStep
<1>3. CASE PickCurrent
  BY <1>3, PickCurrentStep
<1>4. CASE CompareNext
  BY <1>4, CompareNextStep DEF Clusters!Next
<1>5. CASE KeepCurrent
  BY <1>5, KeepCurrentStep
<1>6. CASE EndMatching
  BY <1>6, EndMatchingStep
<1>7. CASE FileByUrl
  BY <1>7, FileByUrlStep DEF Clusters!Next
<1>8. CASE Return
  BY <1>8, ReturnAnswers DEF Clusters!Next
<1>9. CASE UNCHANGED vars
  <2>1. UNCHANGED <<input, stage, list, pos, inner, current, norm, merged, out, noUrl>>
    BY <1>9 DEF vars
  <2>2. /\ Shape' = Shape /\ NamesKept' = NamesKept /\ FiledByPage' = FiledByPage
        /\ Answer' = Answer
    BY <2>1 DEF Shape, NamesKept, FreshNames, NamesOfMember, FiledByPage, PagesDiffer, Answer
  <2>3. Holding' = Holding
    <3>1. Staying' = Staying /\ Entering' = Entering /\ Comparing' = Comparing
      BY <2>1 DEF Staying, Waiting, Entering, Comparing
    <3>2. Places' = Places
      BY <2>1, <3>1 DEF Places
    <3>3. \A p \in Places : Holding'[p] = Holding[p]
      BY <2>1, <3>2, HeldStays
    <3> QED BY <3>2, <3>3 DEF Holding
  <2>4. Groups' = Groups
    BY <2>3, GroupsAreMembers, GroupsAreMembersNext
  <2>5. PipelineInv'
    BY <2>1, <2>2, <2>3 DEF PipelineInv
  <2> QED BY <2>1, <2>2, <2>4, <2>5, LinksStay DEF Clusters!vars
<1> QED BY <1>1, <1>2, <1>3, <1>4, <1>5, <1>6, <1>7, <1>8, <1>9 DEF Next


LEMMA PipelineInvariant == Spec => []PipelineInv
<1>1. Init => PipelineInv
  BY PipelineInit
<1>2. PipelineInv /\ [Next]_vars => PipelineInv'
  BY PipelineStep
<1> QED BY <1>1, <1>2, PTL DEF Spec

-----------------------------------------------------------------------------
(* What the positions say: no stage grows its list, so stage 1 leaves every *)
(* posting at its own position exactly when it removes none.                *)

Counts ==
    /\ pos \in 1..(Len(input) + 1) /\ inner \in 0..(Len(input) + 1)
    /\ merged \subseteq DOMAIN input
    /\ Len(list) <= Len(input)
    /\ stage \in {"hash", "pick", "compare"} => Len(out) < pos

InPlace(s) == \A k \in DOMAIN s : s[k].members = {k}

AsGiven ==
    /\ stage = "hash" /\ Len(out) = pos - 1 => InPlace(out)
    /\ stage \in {"pick", "compare"} /\ Len(list) = Len(input) => InPlace(list)

PositionInv == Counts /\ AsGiven /\ GateExactWithoutDuplicates

LEMMA PositionInit == Init => PositionInv
<1> SUFFICES ASSUME Init PROVE PositionInv
  OBVIOUS
<1>1. /\ stage = "hash" /\ pos = 1 /\ inner = 0 /\ merged = {}
      /\ list = <<>> /\ out = <<>>
  BY DEF Init
<1>2. Len(input) \in Nat
  BY PipelineInit DEF PipelineInv, Shape, IsList
<1> QED BY <1>1, <1>2, EmptyIsList
        DEF PositionInv, Counts, AsGiven, InPlace, GateExactWithoutDuplicates

LEMMA ComparedRecords ==
    ASSUME PipelineInv, stage = "compare", inner \in DOMAIN list, inner \notin merged, inner > pos
    PROVE  IsRecord(current) /\ IsRecord(list[inner])
<1>1. 0 \in Comparing /\ inner \in Staying
  BY DEF Comparing, Staying, Waiting
<1>2. /\ <<"current", 0>> \in DOMAIN Holding /\ Holding[<<"current", 0>>] = current
      /\ <<"list", inner>> \in DOMAIN Holding /\ Holding[<<"list", inner>>] = list[inner]
  BY <1>1, PlaceForms, HeldThere
<1>3. Sound(input, current) /\ Sound(input, list[inner])
  BY <1>2 DEF PipelineInv
<1> QED BY <1>3 DEF Sound

LEMMA PositionStep ==
    ASSUME PipelineInv, PositionInv, Next PROVE PositionInv'
<1>1. /\ IsList(input) /\ IsList(list) /\ IsList(out) /\ Shape
      /\ Counts /\ AsGiven /\ GateExactWithoutDuplicates
  BY DEF PipelineInv, PositionInv, Shape
<1>2. /\ Len(input) \in Nat /\ DOMAIN input = 1..Len(input)
      /\ Len(list) \in Nat /\ DOMAIN list = 1..Len(list) /\ Len(list) <= Len(input)
      /\ Len(out) \in Nat /\ DOMAIN out = 1..Len(out)
      /\ pos \in 1..(Len(input) + 1) /\ inner \in 0..(Len(input) + 1)
      /\ merged \subseteq DOMAIN input
  BY <1>1, ListShape DEF Counts
<1>3. CASE HashJob
  <2> DEFINE job == Load(pos)
  <2>1. /\ stage = "hash" /\ stage' = "hash" /\ pos <= Len(input) /\ pos' = pos + 1
        /\ out' = File(out, SameHash(out, job), job)
        /\ UNCHANGED <<input, apart, list, inner, merged>>
    BY <1>3 DEF HashJob
  <2>2. job.members = {pos} /\ Len(out) < pos
    BY <1>1, <2>1 DEF Load, Counts
  <2> HIDE DEF job
  <2>3. CASE SameHash(out, job) = {}
    <3>1. out' = Append(out, job)
      BY <2>1, <2>3 DEF File
    <3>2. /\ Len(out') = Len(out) + 1 /\ DOMAIN out' = DOMAIN out \cup {Len(out) + 1}
          /\ \A k \in DOMAIN out : out'[k] = out[k]
          /\ out'[Len(out) + 1] = job
      BY <1>1, <3>1, AppendShape
    <3>3. Counts'
      BY <1>2, <2>1, <2>2, <3>2 DEF Counts
    <3>4. ASSUME Len(out') = pos' - 1 PROVE InPlace(out')
      <4>1. Len(out) + 1 = pos
        BY <1>2, <2>1, <3>2, <3>4
      <4>2. InPlace(out)
        BY <1>1, <1>2, <2>1, <4>1 DEF AsGiven
      <4> QED BY <2>2, <3>2, <4>1, <4>2 DEF InPlace
    <3> QED BY <2>1, <3>3, <3>4 DEF PositionInv, AsGiven, GateExactWithoutDuplicates
  <2>4. CASE SameHash(out, job) # {}
    <3>1. DOMAIN out' = DOMAIN out
      BY <2>1, <2>4 DEF File
    <3>2. IsList(out')
      BY <1>3, HashJobStep DEF PipelineInv, Shape
    <3>3. Len(out') \in Nat /\ 1..Len(out') = 1..Len(out)
      BY <1>2, <3>1, <3>2, ListShape
    <3>4. Len(out') = Len(out)
      BY <1>2, <3>3
    <3>5. Counts'
      BY <1>2, <2>1, <2>2, <3>4 DEF Counts
    <3>6. Len(out') # pos' - 1
      <4>1. Len(out') < pos /\ pos' - 1 = pos /\ pos \in Nat /\ Len(out') \in Nat
        BY <1>2, <2>1, <2>2, <3>3, <3>4
      <4> QED BY <4>1
    <3> QED BY <2>1, <3>5, <3>6 DEF PositionInv, AsGiven, GateExactWithoutDuplicates
  <2> QED BY <2>3, <2>4
<1>4. CASE EndHashing
  <2>1. /\ stage = "hash" /\ stage' = "pick" /\ pos > Len(input) /\ pos' = 1
        /\ list' = out /\ out' = <<>> /\ UNCHANGED <<input, inner, merged>>
    BY <1>4 DEF EndHashing
  <2>2. pos = Len(input) + 1 /\ Len(out) < pos
    BY <1>1, <1>2, <2>1 DEF Counts
  <2>3. Counts'
    BY <1>2, <2>1, <2>2, EmptyIsList DEF Counts
  <2>4. ASSUME Len(out) = Len(input) PROVE InPlace(out)
    <3>1. Len(out) = pos - 1
      BY <1>2, <2>2, <2>4
    <3> QED BY <1>1, <2>1, <3>1 DEF AsGiven
  <2>5. AsGiven'
    BY <2>1, <2>4 DEF AsGiven
  <2> QED BY <2>1, <2>3, <2>5 DEF PositionInv, GateExactWithoutDuplicates
<1>5. CASE PickCurrent
  <2>1. /\ stage = "pick" /\ pos <= Len(list) /\ UNCHANGED <<input, apart, list, merged, out>>
        /\ \/ stage' = "pick" /\ pos' = pos + 1 /\ inner' = inner
           \/ stage' = "compare" /\ pos' = pos /\ inner' = pos + 1 /\ current' = list[pos]
    <3>1. CASE SkipMerged /\ UNCHANGED <<stage, inner, current, norm>>
      BY <1>5, <3>1 DEF PickCurrent, SkipMerged
    <3>2. CASE stage' = "compare" /\ pos' = pos /\ inner' = pos + 1 /\ current' = list[pos]
      BY <1>5, <3>2 DEF PickCurrent
    <3> QED BY <1>5, <3>1, <3>2 DEF PickCurrent
  <2>2. Len(out) < pos
    BY <1>1, <2>1 DEF Counts
  <2>3. Counts'
    BY <1>2, <2>1, <2>2 DEF Counts
  <2>4. AsGiven'
    BY <1>1, <2>1 DEF AsGiven, InPlace
  <2>5. GateExactWithoutDuplicates'
    <3> SUFFICES ASSUME stage' = "compare", Len(list) = Len(input)
                 PROVE  current'.members \ {pos'} = {}
      BY <2>1 DEF GateExactWithoutDuplicates
    <3>1. list[pos].members = {pos}
      BY <1>1, <1>2, <2>1 DEF AsGiven, InPlace
    <3> QED BY <2>1, <3>1
  <2> QED BY <2>3, <2>4, <2>5 DEF PositionInv
<1>6. CASE CompareNext
  <2>1. /\ stage = "compare" /\ stage' = "compare" /\ inner <= Len(list) /\ inner' = inner + 1
        /\ UNCHANGED <<input, apart, list, pos, out>>
        /\ \/ UNCHANGED <<current, merged>>
           \/ inner \notin merged /\ ~Gated(pos, inner) /\ Absorb(inner)
    BY <1>6 DEF CompareNext
  <2>2. inner \in DOMAIN list /\ inner > pos /\ Len(out) < pos
    BY <1>1, <1>2, <2>1 DEF Shape, Counts
  <2>3. merged' \subseteq DOMAIN input
    BY <1>2, <2>1, <2>2 DEF Absorb
  <2>4. Counts'
    BY <1>2, <2>1, <2>2, <2>3 DEF Counts
  <2>5. AsGiven'
    BY <1>1, <2>1 DEF AsGiven, InPlace
  <2>6. GateExactWithoutDuplicates'
    <3>1. CASE UNCHANGED <<current, merged>>
      BY <1>1, <2>1, <3>1 DEF GateExactWithoutDuplicates
    <3>2. CASE inner \notin merged /\ ~Gated(pos, inner) /\ Absorb(inner)
      <4> SUFFICES ASSUME Len(list) = Len(input), NEW i \in current'.members \ {pos}
                   PROVE  {pos, i} \notin apart
        BY <2>1 DEF GateExactWithoutDuplicates
      <4>1. IsRecord(current) /\ IsRecord(list[inner])
        BY <2>1, <2>2, <3>2, ComparedRecords
      <4>2. list[inner].members = {inner}
        BY <1>1, <2>1, <2>2 DEF AsGiven, InPlace
      <4>3. Merge(current, list[inner]).members = current.members \cup {inner}
        BY <4>1, <4>2, MergeMembers
      <4>4. Merge(list[inner], current).members = {inner} \cup current.members
        BY <4>1, <4>2, MergeMembers
      <4>5. i \in current.members \/ i = inner
        BY <3>2, <4>3, <4>4 DEF Absorb
      <4> QED BY <1>1, <2>1, <3>2, <4>5 DEF GateExactWithoutDuplicates, Gated
    <3> QED BY <2>1, <3>1, <3>2
  <2> QED BY <2>4, <2>5, <2>6 DEF PositionInv
<1>7. CASE KeepCurrent
  <2>1. /\ stage = "compare" /\ stage' = "pick" /\ pos' = pos + 1 /\ out' = Append(out, current)
        /\ UNCHANGED <<input, list, inner, merged>>
    BY <1>7 DEF KeepCurrent
  <2>2. Len(out') = Len(out) + 1
    BY <1>1, <2>1, AppendShape
  <2>3. pos <= Len(list) /\ Len(out) < pos
    BY <1>1, <1>2, <2>1 DEF Shape, Counts
  <2>4. Counts'
    BY <1>2, <2>1, <2>2, <2>3 DEF Counts
  <2>5. AsGiven'
    BY <1>1, <2>1 DEF AsGiven, InPlace
  <2> QED BY <2>1, <2>4, <2>5 DEF PositionInv, GateExactWithoutDuplicates
<1>8. CASE EndMatching
  <2>1. /\ stage = "pick" /\ stage' = "url" /\ pos > Len(list) /\ pos' = 1
        /\ list' = out /\ UNCHANGED <<input, inner, merged>>
    BY <1>8 DEF EndMatching
  <2>2. Len(out) < pos /\ pos <= Len(list) + 1
    BY <1>1, <1>2, <2>1 DEF Counts, Shape
  <2>3. Counts'
    BY <1>2, <2>1, <2>2 DEF Counts
  <2> QED BY <2>1, <2>3 DEF PositionInv, AsGiven, GateExactWithoutDuplicates
<1>9. CASE FileByUrl
  <2>1. /\ stage = "url" /\ stage' = "url" /\ pos <= Len(list) /\ pos' = pos + 1
        /\ UNCHANGED <<input, list, inner, merged>>
    BY <1>9 DEF FileByUrl
  <2>2. Counts'
    BY <1>2, <2>1 DEF Counts
  <2> QED BY <2>1, <2>2 DEF PositionInv, AsGiven, GateExactWithoutDuplicates
<1>10. CASE Return
  <2>1. stage = "url" /\ stage' = "done" /\ UNCHANGED <<input, list, pos, inner, merged>>
    BY <1>10 DEF Return
  <2>2. Counts'
    BY <1>2, <2>1 DEF Counts
  <2> QED BY <2>1, <2>2 DEF PositionInv, AsGiven, GateExactWithoutDuplicates
<1> QED BY <1>3, <1>4, <1>5, <1>6, <1>7, <1>8, <1>9, <1>10 DEF Next

LEMMA PositionsHold == Spec => []PositionInv
<1>1. PipelineInv /\ PositionInv /\ [Next]_vars => PositionInv'
  <2>1. ASSUME PositionInv, UNCHANGED vars PROVE PositionInv'
    BY <2>1 DEF vars, PositionInv, Counts, AsGiven, InPlace, GateExactWithoutDuplicates
  <2> QED BY <2>1, PositionStep
<1> QED BY <1>1, PositionInit, PipelineInvariant, PTL DEF Spec

LEMMA RecordsAreSound ==
    ASSUME PipelineInv, NEW r \in Records PROVE Sound(input, r)
<1>1. \A p \in Places : Sound(input, Holding[p])
  BY HeldThere DEF PipelineInv
<1>2. CASE \E k \in DOMAIN out : r = out[k]
  BY <1>1, <1>2, PlaceForms, HeldThere
<1>3. CASE \E k \in DOMAIN noUrl : r = noUrl[k]
  BY <1>1, <1>3, PlaceForms, HeldThere
<1>4. CASE stage = "compare" /\ r = current
  <2>1. 0 \in Comparing
    BY <1>4 DEF Comparing
  <2> QED BY <1>1, <1>4, <2>1, PlaceForms, HeldThere
<1> QED BY <1>2, <1>3, <1>4 DEF Records

-----------------------------------------------------------------------------
(* The theorems. *)

(* The positions stay inside the lists, the records are made of postings.   *)
THEOREM PipelineTypes == Spec => []TypeOK
<1>1. PipelineInv /\ PositionInv => TypeOK
  <2> SUFFICES ASSUME PipelineInv, PositionInv PROVE TypeOK
    OBVIOUS
  <2>1. \A r \in Records : /\ r.members \subseteq DOMAIN input
                          /\ r.extra \in [Fields -> {0} \cup DOMAIN input]
    BY RecordsAreSound DEF Sound
  <2> QED BY <2>1 DEF PipelineInv, Shape, PositionInv, Counts, TypeOK
<1> QED BY <1>1, PipelineInvariant, PositionsHold, PTL

(* Whatever the three stages merge, in whatever order: deduplicate_jobs is  *)
(* the clustering of its postings by the links between them.                *)
THEOREM PipelineIsAClustering == Spec => ImplementsClusters
<1>1. Init => PipelineInv /\ Clusters!Init
  BY PipelineInit
<1>2. PipelineInv /\ [Next]_vars => PipelineInv' /\ [Clusters!Next]_(Clusters!vars)
  BY PipelineStep
<1> QED BY <1>1, <1>2, PTL DEF Spec, ImplementsClusters, Clusters!Spec

(* No stage loses a posting or holds it in two records. *)
THEOREM PipelineLosesNothing == Spec => []Clusters!GroupsPartition
  BY PipelineIsAClustering, PostingsArePartitioned, PTL DEF ImplementsClusters

(* The postings of a record hang together by similar names or a common      *)
(* page; the stale names of stage 2 and the merged employer pages never     *)
(* bring two unrelated jobs together.                                       *)
THEOREM PipelineKeepsJobsApart == Spec => []Clusters!GroupsConnected
  BY PipelineIsAClustering, GroupsHangTogether, PTL DEF ImplementsClusters

(* The returned list has every posting of the call in exactly one record.   *)
THEOREM PipelineReportsOnce == Spec => []Clusters!EachPostingOnce
  BY PipelineIsAClustering, AnswerReportsOnce, PTL DEF ImplementsClusters

(* The merges of all three stages lose no field of a posting that can be    *)
(* empty and invent none; is_remote they take from one of the postings.     *)
THEOREM MergesKeepFields == Spec => []FieldsFromMembers
<1>1. PipelineInv => FieldsFromMembers
  BY RecordsAreSound DEF FieldsFromMembers, Sound
<1> QED BY <1>1, PipelineInvariant, PTL

(* The returned records differ in both keys that are used after the call.   *)
THEOREM ResultsHaveTheirOwnKeys == Spec => []ResultsDistinct
<1>1. PipelineInv => ResultsDistinct
  <2> SUFFICES ASSUME PipelineInv, stage = "done",
                      NEW k \in DOMAIN out, NEW l \in DOMAIN out, k # l
               PROVE  /\ out[k].hash # out[l].hash
                      /\ \/ CanonicalUrl(out[k].employer) = NoUrl
                         \/ CanonicalUrl(out[k].employer) # CanonicalUrl(out[l].employer)
    BY DEF ResultsDistinct
  <2>1. out[k].hash # out[l].hash
    <3>1. /\ <<"out", k>> \in DOMAIN Holding /\ Holding[<<"out", k>>] = out[k]
          /\ <<"out", l>> \in DOMAIN Holding /\ Holding[<<"out", l>>] = out[l]
          /\ <<"out", k>> # <<"out", l>>
      BY PlaceForms, HeldThere
    <3>2. Keyed(Holding)
      BY DEF PipelineInv
    <3> QED BY <3>1, <3>2 DEF Keyed
  <2>2. PagesDiffer
    BY DEF PipelineInv, FiledByPage
  <2> QED BY <2>1, <2>2 DEF PagesDiffer
<1> QED BY <1>1, PipelineInvariant, PTL

(* A content_hash is that of one of the record's postings, and the record   *)
(* has left it behind only where a merge filled in what that posting lacks. *)
THEOREM HashesFollowNames == Spec => []HashStaleOnlyByBackfill
<1>1. PipelineInv => HashStaleOnlyByBackfill
  BY RecordsAreSound DEF HashStaleOnlyByBackfill, Sound, HashOf
<1> QED BY <1>1, PipelineInvariant, PTL

(* As long as stage 1 removed nothing, stage 2 merges no posting into a     *)
(* current one whose vector is apart from its own: what the docstring says  *)
(* of embeddings fails only behind an exact duplicate.                      *)
THEOREM GateIsExactWithoutDuplicates == Spec => []GateExactWithoutDuplicates
<1>1. PositionInv => GateExactWithoutDuplicates
  BY DEF PositionInv
<1> QED BY <1>1, PositionsHold, PTL
=============================================================================
