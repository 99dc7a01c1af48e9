-------------------------- MODULE StrategyCascade --------------------------
(***************************************************************************)
(* What PlatformAdapter.search promises, without a limiter's counters, a   *)
(* registry or coroutines: each search walks down the strategies that the  *)
(* platform's policy permits, one after another, attempting each unless    *)
(* the limiter refuses it, until one answers or none is left.              *)
(* PlatformSearch implements this specification.                           *)
(***************************************************************************)
EXTENDS Integers, Sequences, Functions

CONSTANTS Searches, Strategies, NoStrategy

VARIABLES
    permitted,   \* the platform's permitted strategies, in its order
    refusing,    \* whether a limiter may refuse an attempt
    walk         \* search -> how far it is and what came of each strategy

vars == <<permitted, refusing, walk>>

Walk == [past : Nat,
         tried : SUBSET Strategies, refused : SUBSET Strategies,
         answer : Strategies \cup {NoStrategy},
         end : {"open", "answered", "failed", "lost"}]

TypeOK ==
    /\ permitted \in Seq(Strategies)
    /\ refusing \in BOOLEAN
    /\ walk \in [Searches -> Walk]

Init ==
    /\ permitted \in Seq(Strategies) /\ IsInjective(permitted)
    /\ refusing \in BOOLEAN
    /\ walk = [s \in Searches |-> [past |-> 0, tried |-> {}, refused |-> {},
                                   answer |-> NoStrategy, end |-> "open"]]

CanTry(s) == walk[s].end = "open" /\ walk[s].past < Len(permitted)
Upcoming(s) == permitted[walk[s].past + 1]

Succeed(s) ==
    /\ CanTry(s)
    /\ walk' = [walk EXCEPT ![s].past = @ + 1, ![s].tried = @ \cup {Upcoming(s)},
                            ![s].answer = Upcoming(s), ![s].end = "answered"]
    /\ UNCHANGED <<permitted, refusing>>

Fail(s) ==
    /\ CanTry(s)
    /\ walk' = [walk EXCEPT ![s].past = @ + 1, ![s].tried = @ \cup {Upcoming(s)}]
    /\ UNCHANGED <<permitted, refusing>>

Refuse(s) ==
    /\ CanTry(s)
    /\ refusing
    /\ walk' = [walk EXCEPT ![s].past = @ + 1, ![s].refused = @ \cup {Upcoming(s)}]
    /\ UNCHANGED <<permitted, refusing>>

GiveUp(s) ==
    /\ walk[s].end = "open"
    /\ walk[s].past = Len(permitted)
    /\ walk' = [walk EXCEPT ![s].end = "failed"]
    /\ UNCHANGED <<permitted, refusing>>

(* The searches of a process end with it. *)
Lose(S) ==
    /\ \A s \in S : walk[s].end = "open"
    /\ walk' = [s \in Searches |-> IF s \in S THEN [walk[s] EXCEPT !.end = "lost"] ELSE walk[s]]
    /\ UNCHANGED <<permitted, refusing>>

Next ==
    \/ \E s \in Searches : Succeed(s) \/ Fail(s) \/ Refuse(s) \/ GiveUp(s)
    \/ \E S \in SUBSET Searches : Lose(S)

Spec == Init /\ [][Next]_vars

-----------------------------------------------------------------------------
(* Properties. *)

(* Neither a jump nor a repetition: what came of the strategies behind a    *)
(* search is known of each, and of no other.                                *)
NothingSkipped ==
    \A s \in Searches :
        /\ walk[s].past <= Len(permitted)
        /\ walk[s].tried \cup walk[s].refused = {permitted[k] : k \in 1..walk[s].past}
        /\ walk[s].tried \cap walk[s].refused = {}
        /\ ~refusing => walk[s].refused = {}

(* An answer comes from the strategy tried last, and a search fails only    *)
(* when every permitted strategy is behind it.                              *)
EndsExplained ==
    \A s \in Searches :
        /\ walk[s].end = "answered" =>
             /\ walk[s].past >= 1
             /\ walk[s].answer = permitted[walk[s].past]
             /\ walk[s].answer \in walk[s].tried
        /\ walk[s].end # "answered" => walk[s].answer = NoStrategy
        /\ walk[s].end = "failed" => walk[s].past = Len(permitted)
=============================================================================
