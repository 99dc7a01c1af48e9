--------------------------- MODULE PlatformSearch ---------------------------
(***************************************************************************)
(* PlatformAdapter.search (src/platforms/base_adapter.py) for one          *)
(* platform: several searches, each trying its strategies one after        *)
(* another, under the platform's SourcePolicy (src/platforms/              *)
(* source_policy.py) and through the rate limiter of module RateLimiter.   *)
(*                                                                         *)
(* No subclass of this adapter is in the repository: what a strategy does  *)
(* is any outcome search distinguishes, and nobody halves the rate.        *)
(***************************************************************************)
EXTENDS SourcePolicies, Positions

CONSTANTS
    Searches,     \* the calls of search
    Preferred,    \* _preferred_strategy_order()
    Policies,     \* the policies the registry may hold for the platform
    NoPolicy,     \* get_policy returned None
    NoStrategy,   \* no strategy
    Processes, ProcessOf, MaxRpm, Window, KeyTtl, HalfTime, RetryAfters,
    Connected, MaxDelay, MaxTime, MaxCount  \* as in RateLimiter

ASSUME SearchAssumption ==
    /\ Preferred \in Seq(ToSet(Preferred)) /\ IsInjective(Preferred)
    /\ NoStrategy \notin ToSet(Preferred) \cup {"manual_input"}

VARIABLES
    policy,   \* _policy, fixed when the adapter is built
    limited,  \* whether the adapter was given a rate limiter
    search,   \* search -> its coroutine
    opened,   \* history: the calls the limiter let pass without counting
    now, halved, call, count, expiry, granted, slowed, at, unchecked, quiet

Limiter == INSTANCE RateLimiter WITH Callers <- Searches

ASSUME SharedLimiterAssumption == Limiter!LimiterAssumption

limiterVars == <<now, halved, call, count, expiry, granted, slowed, at, unchecked, quiet>>
vars == <<policy, limited, search, opened, limiterVars>>

ManualInput == "manual_input"
Strategies == ToSet(Preferred) \cup {ManualInput}

Search == [stage : {"ready", "turn", "asking", "trying", "done", "lost"},
           left : Seq(Strategies),
           tried : SUBSET Strategies,
           refused : SUBSET Strategies,
           error : {"none", "limited", "failed"},
           answer : Strategies \cup {NoStrategy}]

TypeOK ==
    /\ policy \in Policies \cup {NoPolicy}
    /\ limited \in BOOLEAN
    /\ search \in [Searches -> Search]
    /\ opened \in Nat
    /\ Limiter!TypeOK

(* _policy_allows: an unknown source allows nothing. *)
ModeAllowed(mode) == policy # NoPolicy /\ IsModeAllowed(policy, mode)

(* _configure_strategies: the policy's switch is_enabled is not read here. *)
Configured ==
    IF policy = NoPolicy
      THEN <<ManualInput>>
      ELSE Kept(Preferred, {i \in DOMAIN Preferred :
                              Preferred[i] \in ToSet(policy.allowed) \ policy.blocked})

Init ==
    /\ policy \in Policies \cup {NoPolicy}
    /\ limited \in BOOLEAN
    /\ search = [s \in Searches |->
                   [stage |-> "ready", left |-> <<>>, tried |-> {}, refused |-> {},
                    error |-> "none", answer |-> NoStrategy]]
    /\ opened = 0
    /\ Limiter!Init

-----------------------------------------------------------------------------
At(s, stage) == search[s].stage = stage
Strategy(s) == Head(search[s].left)

(* search is called: the loop starts at the first configured strategy. *)
Begin(s) ==
    /\ At(s, "ready")
    /\ search' = [search EXCEPT ![s].stage = "turn", ![s].left = Configured]
    /\ UNCHANGED <<policy, limited, opened, limiterVars>>

(* A strategy the registry does not allow is passed over. *)
SkipBlocked(s) ==
    /\ At(s, "turn") /\ search[s].left # <<>>
    /\ ~ModeAllowed(Strategy(s))
    /\ search' = [search EXCEPT ![s].left = Tail(@)]
    /\ UNCHANGED <<policy, limited, opened, limiterVars>>

(* Every strategy is used up: status "failed". *)
Exhausted(s) ==
    /\ At(s, "turn") /\ search[s].left = <<>>
    /\ search' = [search EXCEPT ![s].stage = "done"]
    /\ UNCHANGED <<policy, limited, opened, limiterVars>>

(* Without a limiter the attempt starts at once; with one, acquire is       *)
(* called with the platform's name, which without a connection of the cache *)
(* lets the call pass at once.                                              *)
Ask(s) ==
    /\ At(s, "turn") /\ search[s].left # <<>>
    /\ ModeAllowed(Strategy(s))
    /\ \/ /\ ~limited
          /\ search' = [search EXCEPT ![s].stage = "trying"]
          /\ UNCHANGED <<opened, limiterVars>>
       \/ /\ limited
          /\ Limiter!Acquire(s)
          /\ search' = [search EXCEPT ![s].stage = IF Connected THEN "asking" ELSE "trying"]
          /\ opened' = IF Connected THEN opened ELSE opened + 1
    /\ UNCHANGED <<policy, limited>>

(* Faulty variant: the refused strategy is asked for again.                *)
JudgedRetrying(s) ==
    \/ Limiter!Pending(s)' /\ UNCHANGED search
    \/ /\ ~Limiter!Pending(s)'
       /\ search' = [search EXCEPT ![s].stage = IF granted' # granted THEN "trying" ELSE "turn"]

(* acquire goes on: it awaits Redis again, returns, or raises and costs the *)
(* search its strategy; the next one asks anew, against the same limit.     *)
Judged(s) ==
    \/ Limiter!Pending(s)' /\ UNCHANGED search
    \/ /\ ~Limiter!Pending(s)' /\ granted' # granted
       /\ search' = [search EXCEPT ![s].stage = "trying"]
    \/ /\ ~Limiter!Pending(s)' /\ granted' = granted
       /\ search' = [search EXCEPT ![s].stage = "turn", ![s].left = Tail(@),
                                   ![s].refused = @ \cup {Strategy(s)}, ![s].error = "limited"]

Answered(s) ==
    /\ At(s, "asking")
    /\ Limiter!Incr(s) \/ Limiter!Expire(s)
    /\ Judged(s)
    /\ UNCHANGED <<policy, limited, opened>>

(* acquire fails open. *)
FailsOpen(s) ==
    /\ At(s, "asking")
    /\ Limiter!RedisFails(s)
    /\ search' = [search EXCEPT ![s].stage = "trying"]
    /\ opened' = opened + 1
    /\ UNCHANGED <<policy, limited>>

(* _execute_strategy has results: search returns them. *)
Succeeds(s) ==
    /\ At(s, "trying")
    /\ search' = [search EXCEPT ![s].stage = "done", ![s].tried = @ \cup {Strategy(s)},
                                ![s].left = Tail(@), ![s].answer = Strategy(s)]
    /\ UNCHANGED <<policy, limited, opened, limiterVars>>

(* Faulty variant: the next strategy goes out on the same pass.            *)
FallsThroughUnpaid(s) ==
    /\ At(s, "trying")
    /\ search' = [search EXCEPT ![s].stage = IF Len(search[s].left) > 1 THEN "trying"
                                                  ELSE "turn",
                                ![s].tried = @ \cup {Strategy(s)},
                                ![s].left = Tail(@), ![s].error = "failed"]
    /\ UNCHANGED <<policy, limited, opened, limiterVars>>

(* _execute_strategy raises, meets a challenge, fails or has no result: the *)
(* search falls through to the next strategy.                               *)
FallsThrough(s) ==
    /\ At(s, "trying")
    /\ search' = [search EXCEPT ![s].stage = "turn", ![s].tried = @ \cup {Strategy(s)},
                                ![s].left = Tail(@), ![s].error = "failed"]
    /\ UNCHANGED <<policy, limited, opened, limiterVars>>

(* A process restarts with the searches it ran. *)
Restart(p) ==
    /\ Limiter!Restart(p)
    /\ search' = [s \in Searches |->
                    IF ProcessOf[s] = p /\ search[s].stage \notin {"ready", "done"}
                      THEN [search[s] EXCEPT !.stage = "lost"]
                      ELSE search[s]]
    /\ UNCHANGED <<policy, limited, opened>>

Tick ==
    /\ Limiter!Tick
    /\ UNCHANGED <<policy, limited, search, opened>>

Step(s) ==
    \/ Begin(s) \/ SkipBlocked(s) \/ Exhausted(s) \/ Ask(s)
    \/ Answered(s) \/ FailsOpen(s) \/ Succeeds(s) \/ FallsThrough(s)

Next ==
    \/ \E s \in Searches : Step(s)
    \/ \E p \in Processes : Restart(p)
    \/ Tick

Spec == Init /\ [][Next]_vars

(* Every coroutine goes on: the event loop resumes it, a call of Redis ends *)
(* and a strategy's requests time out.                                      *)
FairSpec == Spec /\ \A s \in Searches : WF_vars(Step(s))

-----------------------------------------------------------------------------
(* Properties. *)

(* Search implements the cascade of StrategyCascade: the strategies that    *)
(* the policy permits, and no other, are attempted or refused one after     *)
(* another in the platform's order, without a jump or a repetition, though  *)
(* they are filtered once when the adapter is built, checked again before   *)
(* each attempt by a rule that differs, and paid for in between.            *)
Permitted ==
    IF policy = NoPolicy THEN <<>>
    ELSE Kept(Preferred, {i \in DOMAIN Preferred :
                /\ policy.enabled
                /\ Preferred[i] \in ToSet(policy.allowed) \ policy.blocked})

Walked(r) ==
    [past |-> Cardinality(r.tried \cup r.refused),
     tried |-> r.tried, refused |-> r.refused, answer |-> r.answer,
     end |-> CASE r.stage \notin {"done", "lost"} -> "open"
               [] r.stage = "lost" -> "lost"
               [] r.stage = "done" /\ r.answer = NoStrategy -> "failed"
               [] r.stage = "done" /\ r.answer # NoStrategy -> "answered"]

Walks == [s \in Searches |-> Walked(search[s])]

Cascade == INSTANCE StrategyCascade WITH
    permitted <- Permitted, refusing <- limited, walk <- Walks

ImplementsCascade == Cascade!Spec

(* The attempts made and under way, and the passes of the counters, each    *)
(* with its place in its window.                                            *)
Attempts == {a \in Searches \X Strategies :
                \/ a[2] \in search[a[1]].tried
                \/ At(a[1], "trying") /\ a[2] = Strategy(a[1])}
Passes == UNION {{w} \X (1..granted[w]) : w \in DOMAIN granted}

(* Every attempt is paid for: through a limiter, the attempts of all        *)
(* searches are as many as the calls of acquire that counted and passed     *)
(* plus those that failed open, whatever was refused, lost or restarted.    *)
(* An attempt under way is lost with its process, its pass is not.          *)
AttemptsPaid ==
    limited =>
        /\ Cardinality(Attempts) <= Cardinality(Passes) + opened
        /\ (\A s \in Searches : ~At(s, "lost")) =>
             Cardinality(Attempts) = Cardinality(Passes) + opened

(* A search ends in an answer, in exhaustion or with its process.          *)
SearchesEnd == \A s \in Searches : At(s, "turn") ~> search[s].stage \in {"done", "lost"}

(* The warning of _configure_strategies: without a policy, "using           *)
(* manual_input only".  A search that ended there has tried it.             *)
UnknownFallsBack ==
    \A s \in Searches :
        policy = NoPolicy /\ At(s, "done") => ManualInput \in search[s].tried

(* The plan's source redundancy: a failed strategy is followed by the next  *)
(* one "before falling back to manual input".  A search that failed on a    *)
(* platform whose policy allows manual input has tried it.                  *)
ManualInputReached ==
    \A s \in Searches :
        /\ At(s, "done") /\ search[s].answer = NoStrategy
        /\ ManualInput \in ToSet(Permitted)
        => ManualInput \in search[s].tried
=============================================================================
