--------------------------- MODULE PostingClusters ---------------------------
(***************************************************************************)
(* What deduplicate_jobs promises, without stages, keys, records or an     *)
(* order: the postings are grouped, two groups become one only when a      *)
(* posting of one is linked to a posting of the other, and the answer      *)
(* lists every group once.  Deduplication implements this specification.   *)
(***************************************************************************)
EXTENDS Integers, Sequences, Functions

VARIABLES
    postings,   \* the positions of the call's argument
    links,      \* the pairs of positions a stage may bring together
    groups,     \* the sets of positions that make one record each
    answer      \* the groups in the order returned, <<>> until then

vars == <<postings, links, groups, answer>>

TypeOK ==
    /\ links \subseteq postings \X postings
    /\ groups \subseteq SUBSET postings
    /\ answer \in Seq(SUBSET postings)

Init ==
    /\ links \subseteq postings \X postings
    /\ groups = {{i} : i \in postings}
    /\ answer = <<>>

Bridged(A, B) == \E i \in A, j \in B : <<i, j>> \in links \/ <<j, i>> \in links

Unite(A, B) ==
    /\ answer = <<>>
    /\ A # B
    /\ Bridged(A, B)
    /\ groups' = (groups \ {A, B}) \cup {A \cup B}
    /\ UNCHANGED <<postings, links, answer>>

Return ==
    /\ answer = <<>>
    /\ answer' \in Seq(groups)
    /\ IsInjective(answer')
    /\ \A A \in groups : \E k \in DOMAIN answer' : answer'[k] = A
    /\ UNCHANGED <<postings, links, groups>>

Next == Return \/ \E A, B \in groups : Unite(A, B)

Spec == Init /\ [][Next]_vars

-----------------------------------------------------------------------------
(* Properties. *)

(* No posting is lost and none is in two groups.                            *)
GroupsPartition ==
    /\ \A i \in postings : \E A \in groups : i \in A
    /\ \A A, B \in groups : A # B => A \cap B = {}
    /\ {} \notin groups

(* Different jobs stay separate: however a group is divided in two, a link  *)
(* joins the parts.                                                         *)
GroupsConnected ==
    \A A \in groups : \A S \in SUBSET A :
        S # {} /\ S # A => Bridged(S, A \ S)

(* Every posting is in exactly one of the places of the answer.             *)
EachPostingOnce ==
    answer # <<>> =>
        \A i \in postings :
            \E k \in DOMAIN answer :
                /\ i \in answer[k]
                /\ \A l \in DOMAIN answer : i \in answer[l] => l = k
=============================================================================
