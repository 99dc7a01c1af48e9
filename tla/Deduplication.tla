---------------------------- MODULE Deduplication ----------------------------
(***************************************************************************)
(* deduplicate_jobs (utils/deduplication.py): three stages over a list of  *)
(* postings.  One step is one iteration of a stage's innermost loop, so    *)
(* that what a stage has read and what it has yet to read can be compared. *)
(*                                                                         *)
(* A record is a JobDescription without its texts: the fields that a stage *)
(* reads, is_remote, and for the other optional fields (salary, skills,    *)
(* dates, ...) the position of the posting that supplied them, 0 for none. *)
(* A title, company or location that is None or "" is <<>>.  members is    *)
(* history: the postings that were merged into the record.                 *)
(***************************************************************************)
EXTENDS Canonical, FiniteSets

CONSTANTS
    Inputs,     \* the lists of postings that deduplicate_jobs is called with
    Alike,      \* the pairs of different titles whose fuzz.ratio reaches 85
    Fields,     \* the optional fields other than location and employer URL
    Apart,      \* the sets of position pairs whose embeddings are under 0.92
    NoUrl

ASSUME DeduplicationAssumption ==
    \A jobs \in Inputs : jobs \in Seq({jobs[i] : i \in DOMAIN jobs})

VARIABLES
    input,    \* the jobs argument
    apart,    \* the embeddings argument: pairs of positions below the threshold
    stage,    \* the stage, and for stage 2 which of its two loops
    list,     \* the list the stage reads
    pos,      \* the position of its outer loop
    inner,    \* the position of stage 2's inner loop
    current,  \* stage 2: the record others are merged into
    norm,     \* stage 2: norm_title_i and norm_company_i
    merged,   \* stage 2: the positions whose merged_flags are set
    out,      \* bucket, result or url_bucket, in insertion order
    noUrl     \* stage 3: no_url

vars == <<input, apart, stage, list, pos, inner, current, norm, merged, out, noUrl>>

-----------------------------------------------------------------------------
(* _canonical_url: host and path without scheme, "www." and query; a URL    *)
(* whose host urlparse does not find counts as none.                        *)
CanonicalUrl(url) ==
    IF url = NoUrl THEN NoUrl ELSE IF url.host = "" THEN NoUrl ELSE <<url.host, url.path>>

(* The job at position i as stage 1 reads it, with its content_hash. *)
Load(i) ==
    LET p == input[i] IN
    [title |-> p.title, company |-> p.company, location |-> p.location, employer |-> p.employer,
     remote |-> p.remote,
     extra |-> [f \in Fields |-> IF f \in p.extra THEN i ELSE 0],
     hash |-> JobHash(p.title, p.company, p.location), members |-> {i}]

(* _richness, up to the fields that every record fills (is_remote and the   *)
(* content_hash).                                                           *)
Richness(job) ==
    Cardinality({f \in Fields : job.extra[f] # 0})
        + Cardinality({n \in {"title", "company", "location"} : job[n] # <<>>})
        + (IF job.employer # NoUrl THEN 1 ELSE 0)

(* Faulty variant: the primary is returned without back-filling.           *)
MergeDropsSecondary(primary, secondary) ==
    [primary EXCEPT !.members = @ \cup secondary.members]

(* Faulty variant: the secondary's location replaces the primary's.        *)
MergeMovesJob(primary, secondary) ==
    [primary EXCEPT
        !.location = IF secondary.location = <<>> THEN @ ELSE secondary.location,
        !.members = @ \cup secondary.members]

(* _merge_jobs: the primary, its empty fields back-filled.  A flag is       *)
(* neither None nor empty, so is_remote stays the primary's, and so does    *)
(* the content_hash that stage 1 set.                                       *)
Merge(primary, secondary) ==
    LET Filled(value, none, other) == IF value = none THEN other ELSE value IN
    [primary EXCEPT
        !.title = Filled(@, <<>>, secondary.title),
        !.company = Filled(@, <<>>, secondary.company),
        !.location = Filled(@, <<>>, secondary.location),
        !.employer = Filled(@, NoUrl, secondary.employer),
        !.extra = [f \in Fields |-> Filled(@[f], 0, secondary.extra[f])],
        !.members = @ \cup secondary.members]

(* Stages 1 and 3 on a key collision: the richer record is the primary. *)
MergeRicher(existing, job) ==
    IF Richness(job) > Richness(existing) THEN Merge(job, existing) ELSE Merge(existing, job)

(* One record into an insertion-ordered dict, same being the positions with *)
(* its key: a new key at the end, a known one in place.                     *)
File(bucket, same, job) ==
    IF same = {} THEN Append(bucket, job)
    ELSE [k \in DOMAIN bucket |-> IF k \in same THEN MergeRicher(bucket[k], job) ELSE bucket[k]]

SameHash(bucket, job) == {k \in DOMAIN bucket : bucket[k].hash = job.hash}

SamePage(bucket, job) ==
    {k \in DOMAIN bucket : CanonicalUrl(bucket[k].employer) = CanonicalUrl(job.employer)}

-----------------------------------------------------------------------------
NoRecord == [members |-> {}]

Init ==
    /\ input \in Inputs
    /\ apart \in Apart
    /\ stage = "hash" /\ pos = 1 /\ inner = 0
    /\ list = <<>> /\ out = <<>> /\ noUrl = <<>>
    /\ current = NoRecord /\ norm = <<>> /\ merged = {}

(* _stage1_exact_hash, one job. *)
HashJob ==
    /\ stage = "hash"
    /\ pos <= Len(input)
    /\ out' = File(out, SameHash(out, Load(pos)), Load(pos))
    /\ pos' = pos + 1
    /\ UNCHANGED <<input, apart, stage, list, inner, current, norm, merged, noUrl>>

(* The bucket's values are the list of stage 2. *)
EndHashing ==
    /\ stage = "hash"
    /\ pos > Len(input)
    /\ list' = out
    /\ out' = <<>>
    /\ pos' = 1
    /\ stage' = "pick"
    /\ UNCHANGED <<input, apart, inner, current, norm, merged, noUrl>>

(* continue, for a record whose flag is set. *)
SkipMerged == pos' = pos + 1

(* _stage2_fuzzy_match, head of the outer loop: a merged record is skipped, *)
(* any other becomes current; its names are normalised here, once.          *)
PickCurrent ==
    /\ stage = "pick"
    /\ pos <= Len(list)
    /\ \/ /\ pos \in merged
          /\ SkipMerged
          /\ UNCHANGED <<stage, inner, current, norm>>
       \/ /\ pos \notin merged
          /\ current' = list[pos]
          /\ norm' = <<NormalizeTitle(list[pos].title), NormalizeCompany(list[pos].company)>>
          /\ inner' = pos + 1
          /\ stage' = "compare"
          /\ UNCHANGED pos
    /\ UNCHANGED <<input, apart, list, merged, out, noUrl>>

(* fuzz.ratio at or above its threshold. *)
Similar(a, b) == a = b \/ {a, b} \in Alike

(* Title and company reach their thresholds.  Company names of the model    *)
(* are alike only when they are equal.                                      *)
Matches(job) ==
    /\ Similar(norm[1], NormalizeTitle(job.title))
    /\ norm[2] = NormalizeCompany(job.company)

(* The embedding gate looks its two vectors up by position in the list.     *)
Gated(i, j) == {i, j} \in apart

(* Faulty variant: merged_flags[j] is not set.                             *)
AbsorbUnmarked(j) ==
    /\ current' = Merge(current, list[j])
    /\ UNCHANGED merged

(* The merge of stage 2: the record with an employer URL is the primary.    *)
Absorb(j) ==
    /\ current' = IF list[j].employer # NoUrl /\ current.employer = NoUrl
                    THEN Merge(list[j], current) ELSE Merge(current, list[j])
    /\ merged' = merged \cup {j}

(* One iteration of the inner loop. *)
CompareNext ==
    /\ stage = "compare"
    /\ inner <= Len(list)
    /\ IF inner \notin merged /\ Matches(list[inner]) /\ ~Gated(pos, inner)
         THEN Absorb(inner)
         ELSE UNCHANGED <<current, merged>>
    /\ inner' = inner + 1
    /\ UNCHANGED <<input, apart, stage, list, pos, norm, out, noUrl>>

(* result.append(current). *)
KeepCurrent ==
    /\ stage = "compare"
    /\ inner > Len(list)
    /\ out' = Append(out, current)
    /\ current' = NoRecord
    /\ norm' = <<>>
    /\ pos' = pos + 1
    /\ stage' = "pick"
    /\ UNCHANGED <<input, apart, list, inner, merged, noUrl>>

EndMatching ==
    /\ stage = "pick"
    /\ pos > Len(list)
    /\ list' = out
    /\ out' = <<>>
    /\ pos' = 1
    /\ stage' = "url"
    /\ UNCHANGED <<input, apart, inner, current, norm, merged, noUrl>>

(* _stage3_cross_platform_url, one job. *)
FileByUrl ==
    /\ stage = "url"
    /\ pos <= Len(list)
    /\ \/ /\ CanonicalUrl(list[pos].employer) = NoUrl
          /\ noUrl' = Append(noUrl, list[pos])
          /\ UNCHANGED out
       \/ /\ CanonicalUrl(list[pos].employer) # NoUrl
          /\ out' = File(out, SamePage(out, list[pos]), list[pos])
          /\ UNCHANGED noUrl
    /\ pos' = pos + 1
    /\ UNCHANGED <<input, apart, stage, list, inner, current, norm, merged>>

(* deduplicate_jobs returns; the loop that fills missing content_hashes     *)
(* finds none, since stage 1 sets them all and merges keep the primary's.   *)
Return ==
    /\ stage = "url"
    /\ pos > Len(list)
    /\ out' = out \o noUrl
    /\ noUrl' = <<>>
    /\ stage' = "done"
    /\ UNCHANGED <<input, apart, list, pos, inner, current, norm, merged>>

Next ==
    \/ HashJob \/ EndHashing
    \/ PickCurrent \/ CompareNext \/ KeepCurrent \/ EndMatching
    \/ FileByUrl \/ Return

Spec == Init /\ [][Next]_vars

-----------------------------------------------------------------------------
(* Properties. *)

Records ==
    {out[k] : k \in DOMAIN out} \cup {noUrl[k] : k \in DOMAIN noUrl}
        \cup (IF stage = "compare" THEN {current} ELSE {})

TypeOK ==
    /\ stage \in {"hash", "pick", "compare", "url", "done"}
    /\ pos \in 1..(Len(input) + 1)
    /\ inner \in 0..(Len(input) + 1)
    /\ merged \subseteq DOMAIN input
    /\ \A r \in Records :
        /\ r.members \subseteq DOMAIN input
        /\ r.extra \in [Fields -> {0} \cup DOMAIN input]

(* The places where a record can wait for the rest of the pipeline. *)
Waiting(k) ==
    CASE stage = "hash" -> FALSE
      [] stage = "pick" -> k >= pos /\ k \notin merged
      [] stage = "compare" -> k > pos /\ k \notin merged
      [] stage = "url" -> k >= pos
      [] stage = "done" -> FALSE

(* Two postings that a stage may bring together: similar names, or a common *)
(* employer page.                                                           *)
Linked(i, j) ==
    LET a == input[i]
        b == input[j]
    IN  \/ /\ Similar(NormalizeTitle(a.title), NormalizeTitle(b.title))
           /\ NormalizeCompany(a.company) = NormalizeCompany(b.company)
        \/ /\ CanonicalUrl(a.employer) # NoUrl
           /\ CanonicalUrl(a.employer) = CanonicalUrl(b.employer)

(* The postings of every record that is in the pipeline or still to enter.  *)
Groups ==
    {out[k].members : k \in DOMAIN out}
        \cup {noUrl[k].members : k \in DOMAIN noUrl}
        \cup {list[k].members : k \in {n \in DOMAIN list : Waiting(n)}}
        \cup (IF stage = "compare" THEN {current.members} ELSE {})
        \cup (IF stage = "hash" THEN {{i} : i \in pos..Len(input)} ELSE {})

Links == {p \in (DOMAIN input) \X (DOMAIN input) : Linked(p[1], p[2])}

Answer == IF stage = "done" THEN [k \in DOMAIN out |-> out[k].members] ELSE <<>>

(* The pipeline implements the clustering of PostingClusters: no posting is *)
(* lost or reported twice at any moment, and different jobs stay separate:  *)
(* a merge of any stage joins two records between whose own postings there  *)
(* is a link, whatever was merged before and however stale the names the    *)
(* stage compares with.                                                     *)
Clusters == INSTANCE PostingClusters WITH
    postings <- DOMAIN input, links <- Links, groups <- Groups, answer <- Answer

ImplementsClusters == Clusters!Spec

(* The value of a field is one of those given, and none only if all are. *)
Kept(value, none, given) ==
    /\ value \in given
    /\ value = none => given \subseteq {none}

(* A merge loses no field that can be empty and invents none: a record has  *)
(* a title, company, location, employer page or other optional field when   *)
(* one of its postings has it, and the value is one of theirs.  Of the flag *)
(* is_remote it only holds that a posting has its value (_merge_jobs over   *)
(* all three stages; RemoteSurvives).                                       *)
FieldsFromMembers ==
    \A r \in Records :
        /\ Kept(r.title, <<>>, {input[i].title : i \in r.members})
        /\ Kept(r.company, <<>>, {input[i].company : i \in r.members})
        /\ Kept(r.location, <<>>, {input[i].location : i \in r.members})
        /\ Kept(r.employer, NoUrl, {input[i].employer : i \in r.members})
        /\ r.remote \in {input[i].remote : i \in r.members}
        /\ \A f \in Fields :
            Kept(r.extra[f], 0, {IF f \in input[i].extra THEN i ELSE 0 : i \in r.members})

(* The returned records differ in their content_hash and in the employer    *)
(* page they lead to, so that neither works as a duplicate key downstream.  *)
ResultsDistinct ==
    stage = "done" =>
        \A k, l \in DOMAIN out :
            k # l =>
                /\ out[k].hash # out[l].hash
                /\ \/ CanonicalUrl(out[k].employer) = NoUrl
                   \/ CanonicalUrl(out[k].employer) # CanonicalUrl(out[l].employer)

(* A content_hash is stale only where a merge back-filled: it is that of    *)
(* one of the record's postings, and the record's title, company and        *)
(* location differ from that posting's only where the posting has none.     *)
(* (Stage 1 sets the hash, the merges of all stages change the fields.)     *)
HashStaleOnlyByBackfill ==
    \A r \in Records : \E i \in r.members :
        /\ r.hash = JobHash(input[i].title, input[i].company, input[i].location)
        /\ input[i].title \in {r.title, <<>>}
        /\ input[i].company \in {r.company, <<>>}
        /\ input[i].location \in {r.location, <<>>}

(* The embedding gate does what deduplicate_jobs says as long as stage 1    *)
(* removed nothing: no posting is merged into one whose vector is apart     *)
(* from its own.                                                            *)
GateExactWithoutDuplicates ==
    stage = "compare" /\ Len(list) = Len(input) =>
        \A i \in current.members \ {pos} : {pos, i} \notin apart

(* What the docstring of deduplicate_jobs says of embeddings, a mapping     *)
(* from the original list index: stage 2 checks the two jobs' own vectors,  *)
(* so a posting is not merged into a current one it is apart from.          *)
GateUsesOriginalIndices ==
    stage = "compare" =>
        \A k \in DOMAIN list : \A i, j \in DOMAIN input :
            /\ k \in merged
            /\ list[k].members = {i} /\ list[pos].members = {j}
            /\ i \in current.members
            => {i, j} \notin apart

(* What deduplicate_jobs promises with "return unique jobs": no two of the  *)
(* returned records match by the rule of stage 2.  Without embeddings.      *)
NoMatchLeft ==
    stage = "done" /\ apart = {} =>
        \A k, l \in DOMAIN out :
            k # l =>
                ~ /\ Similar(NormalizeTitle(out[k].title), NormalizeTitle(out[l].title))
                  /\ NormalizeCompany(out[k].company) = NormalizeCompany(out[l].company)

(* What a merge would keep if it lost no information at all: a record is    *)
(* remote when one of its postings is.                                      *)
RemoteSurvives == \A r \in Records : r.remote <=> \E i \in r.members : input[i].remote

(* What the comments of normalize_location say: a US state abbreviation     *)
(* stands for the United States, and a middle part, the state, is kept.     *)
StatesAreAmerican ==
    \A s \in StateAbbreviations, city \in {"austin"} :
        /\ NormalizeLocation(<<city, s>>) = <<city, s, "united states">>
        /\ NormalizeLocation(<<city, s, "us">>) = <<city, s, "united states">>
=============================================================================
