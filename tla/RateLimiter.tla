---------------------------- MODULE RateLimiter ----------------------------
(***************************************************************************)
(* RedisTokenBucket (src/scraping/rate_limiter.py) for one domain: the     *)
(* coroutines of several processes that share the per-minute counters in   *)
(* Redis, while each process keeps its own halvings in memory.             *)
(*                                                                         *)
(* Time is counted in whole seconds, as int(time.time()) does; a tick may  *)
(* fall between any two awaits.  A call of Redis is answered or fails      *)
(* within MaxDelay seconds.                                                *)
(***************************************************************************)
EXTENDS Integers, FiniteSets, Functions

CONSTANTS
    Callers,     \* the coroutines that call acquire
    Processes,   \* the worker processes
    ProcessOf,   \* caller -> its process
    MaxRpm,      \* max_rpm of the domain
    Window,      \* the length of a window (60)
    KeyTtl,      \* the ttl of a window's key (120)
    HalfTime,    \* halve_rate's duration_seconds (600)
    RetryAfters, \* the values a Retry-After header may hold
    Connected,   \* whether RedisCache.connect was ever called
    MaxDelay,
    MaxTime,     \* bound: the last second
    MaxCount     \* bound: the calls of one window

ASSUME LimiterAssumption ==
    /\ IsFiniteSet(Callers)
    /\ ProcessOf \in [Callers -> Processes]
    /\ {MaxRpm, Window, KeyTtl, HalfTime} \subseteq Nat \ {0}
    /\ RetryAfters \subseteq Nat
    /\ Connected \in BOOLEAN
    /\ {MaxDelay, MaxTime, MaxCount} \subseteq Nat
    /\ Window + MaxDelay <= KeyTtl

VARIABLES
    now,       \* the clock
    halved,    \* process -> the end of its halving, 0 for none (_halved)
    call,      \* caller -> its call of acquire
    count,     \* Redis: window -> the counter of its key, 0 for no key
    expiry,    \* Redis: window -> when its key expires, 0 for never
    granted,   \* history: window -> the calls the counter let pass
    slowed,    \* history: those of them that began under a halved rate
    at,        \* history: second -> the calls the counter let pass then
    unchecked, \* history: window -> the calls let pass for want of a connection
    quiet      \* history: the processes halved by a Retry-After last

redisVars == <<count, expiry>>
passVars == <<granted, slowed, at>>
vars == <<now, halved, call, redisVars, passVars, unchecked, quiet>>

Times == 0..MaxTime
Windows == 0..(MaxTime \div Window)
Half == IF MaxRpm >= 2 THEN MaxRpm \div 2 ELSE 1
Later(a, b) == IF a >= b THEN a ELSE b

Idle == [pc |-> "idle", window |-> 0, limit |-> 0, began |-> 0]
Call == {Idle} \cup [pc : {"incr", "expire"}, window : Windows, limit : {MaxRpm, Half}, began : Times]
Pending(c) == call[c].pc # "idle"

TypeOK ==
    /\ now \in Times
    /\ halved \in [Processes -> Nat]
    /\ call \in [Callers -> Call]
    /\ count \in [Windows -> Nat]
    /\ expiry \in [Windows -> Nat]
    /\ granted \in [Windows -> Nat]
    /\ slowed \in [Windows -> Nat]
    /\ at \in [Times -> Nat]
    /\ unchecked \in [Windows -> Nat]
    /\ quiet \subseteq Processes

Init ==
    /\ now = 0
    /\ halved = [p \in Processes |-> 0]
    /\ call = [c \in Callers |-> Idle]
    /\ count = [w \in Windows |-> 0]
    /\ expiry = [w \in Windows |-> 0]
    /\ granted = [w \in Windows |-> 0]
    /\ slowed = [w \in Windows |-> 0]
    /\ at = [t \in Times |-> 0]
    /\ unchecked = [w \in Windows |-> 0]
    /\ quiet = {}

-----------------------------------------------------------------------------
(* _get_config: max_rpm, or its half while the process is halved. *)
Limit(p) == IF now < halved[p] THEN Half ELSE MaxRpm

(* Faulty variant: one call more than max_rpm.                             *)
VerdictOffByOne(c, n) ==
    IF n > call[c].limit + 1
      THEN UNCHANGED passVars
      ELSE /\ granted' = [granted EXCEPT ![call[c].window] = @ + 1]
           /\ slowed' = [slowed EXCEPT ![call[c].window] = @ + IF call[c].limit < MaxRpm THEN 1 ELSE 0]
           /\ at' = [at EXCEPT ![now] = @ + 1]

(* The comparison of the counter's value with the limit read before the     *)
(* await: beyond it acquire raises RateLimitExceededError.                  *)
Verdict(c, n) ==
    IF n > call[c].limit
      THEN UNCHANGED passVars
      ELSE /\ granted' = [granted EXCEPT ![call[c].window] = @ + 1]
           /\ slowed' = [slowed EXCEPT ![call[c].window] = @ + IF call[c].limit < MaxRpm THEN 1 ELSE 0]
           /\ at' = [at EXCEPT ![now] = @ + 1]

(* acquire returns or raises: its locals die. *)
End(c) == call' = [call EXCEPT ![c] = Idle]

(* acquire up to its first await: read the limit (an expired halving is     *)
(* dropped) and name the window.  Without a connection incr raises at once. *)
Acquire(c) ==
    /\ ~Pending(c)
    /\ LET p == ProcessOf[c]
           w == now \div Window
       IN /\ count[w] + unchecked[w] + Cardinality({d \in Callers : Pending(d)}) < MaxCount
          /\ halved' = [halved EXCEPT ![p] = IF now < @ THEN @ ELSE 0]
          /\ quiet' = IF now < halved[p] THEN quiet ELSE quiet \ {p}
          /\ IF Connected
               THEN /\ call' = [call EXCEPT ![c] =
                                  [pc |-> "incr", window |-> w, limit |-> Limit(p), began |-> now]]
                    /\ UNCHANGED unchecked
               ELSE /\ unchecked' = [unchecked EXCEPT ![w] = @ + 1]
                    /\ UNCHANGED call
    /\ UNCHANGED <<now, redisVars, passVars>>

(* INCR: the first caller of a window has an EXPIRE to send before the      *)
(* verdict, the others have it at once.                                     *)
Incr(c) ==
    /\ call[c].pc = "incr"
    /\ LET w == call[c].window IN
         /\ count' = [count EXCEPT ![w] = @ + 1]
         /\ IF count[w] = 0
              THEN call' = [call EXCEPT ![c].pc = "expire"] /\ UNCHANGED passVars
              ELSE End(c) /\ Verdict(c, count[w] + 1)
    /\ UNCHANGED <<now, halved, expiry, unchecked, quiet>>

(* Faulty variant: the key lives for less than its window.                 *)
ExpireTooSoon(c) ==
    /\ call[c].pc = "expire"
    /\ expiry' = [expiry EXCEPT ![call[c].window] = now + 1]
    /\ End(c) /\ Verdict(c, 1)
    /\ UNCHANGED <<now, halved, count, unchecked, quiet>>

(* EXPIRE, and the verdict on the count of 1. *)
Expire(c) ==
    /\ call[c].pc = "expire"
    /\ expiry' = [expiry EXCEPT ![call[c].window] = now + KeyTtl]
    /\ End(c) /\ Verdict(c, 1)
    /\ UNCHANGED <<now, halved, count, unchecked, quiet>>

(* Redis is away: the call raises, whether or not the command was executed, *)
(* and acquire fails open.                                                  *)
RedisFails(c) ==
    /\ \/ Pending(c) /\ UNCHANGED redisVars
       \/ /\ call[c].pc = "incr"
          /\ count' = [count EXCEPT ![call[c].window] = @ + 1]
          /\ UNCHANGED expiry
       \/ /\ call[c].pc = "expire"
          /\ expiry' = [expiry EXCEPT ![call[c].window] = now + KeyTtl]
          /\ UNCHANGED count
    /\ End(c)
    /\ UNCHANGED <<now, halved, passVars, unchecked, quiet>>

(* halve_rate, on a 429. *)
HalveRate(p) ==
    /\ halved' = [halved EXCEPT ![p] = now + HalfTime]
    /\ quiet' = quiet \ {p}
    /\ UNCHANGED <<now, call, redisVars, passVars, unchecked>>

(* respect_retry_after calls halve_rate with the header's value. *)
RespectRetryAfter(p, seconds) ==
    /\ halved' = [halved EXCEPT ![p] = now + seconds]
    /\ quiet' = quiet \cup {p}
    /\ UNCHANGED <<now, call, redisVars, passVars, unchecked>>

(* A process restarts: its calls and its halvings are gone. *)
Restart(p) ==
    /\ call' = [c \in Callers |-> IF ProcessOf[c] = p THEN Idle ELSE call[c]]
    /\ halved' = [halved EXCEPT ![p] = 0]
    /\ quiet' = quiet \ {p}
    /\ UNCHANGED <<now, redisVars, passVars, unchecked>>

Expired(w) == expiry[w] # 0 /\ expiry[w] <= now + 1

(* A second passes; Redis drops the keys whose time has come. *)
Tick ==
    /\ now < MaxTime
    /\ \A c \in Callers : Pending(c) => now < call[c].began + MaxDelay
    /\ now' = now + 1
    /\ count' = [w \in Windows |-> IF Expired(w) THEN 0 ELSE count[w]]
    /\ expiry' = [w \in Windows |-> IF Expired(w) THEN 0 ELSE expiry[w]]
    /\ UNCHANGED <<halved, call, passVars, unchecked, quiet>>

Next ==
    \/ \E c \in Callers : Acquire(c) \/ Incr(c) \/ Expire(c) \/ RedisFails(c)
    \/ \E p \in Processes :
         \/ HalveRate(p)
         \/ \E s \in RetryAfters : RespectRetryAfter(p, s)
         \/ Restart(p)
    \/ Tick

Spec == Init /\ [][Next]_vars

-----------------------------------------------------------------------------
(* Properties. *)

(* The counter lets at most max_rpm calls of a window pass, over all        *)
(* processes, whatever was delayed, failed or restarted in between: the key *)
(* does not expire under a call that still counts in it.                    *)
WindowBudget == \A w \in Windows : granted[w] <= MaxRpm

(* Calls that began under a halved rate pass at most half of max_rpm times  *)
(* in a window, over all processes that were halved.                        *)
SlowBudget == \A w \in Windows : slowed[w] <= Half

(* The comment in acquire: "Simple sliding window counter in Redis".  No    *)
(* Window seconds see more than max_rpm calls pass.                         *)
SlidingWindow ==
    \A s \in Times :
        SumFunctionOnSet(at, {t \in Times : s <= t /\ t < s + Window}) <= MaxRpm

(* The module's docstring: "Retry-After header respect".  Until the time a  *)
(* process was given is over, no call that began since then passes.         *)
RetryAfterRespected ==
    [][\A c \in Callers :
        /\ ProcessOf[c] \in quiet /\ now < halved[ProcessOf[c]]
        /\ call[c].limit < MaxRpm
        /\ Pending(c) /\ ~Pending(c)'
        => granted' = granted]_vars

(* The plan: "halve rate for 10 min".  A halving under way ends when it was *)
(* to end, unless its process restarts.                                     *)
HalvingLasts ==
    [][\A p \in Processes :
        now < halved[p] => halved'[p] >= halved[p] \/ Restart(p)]_vars

(* The module's docstring: "Redis-backed".  At most max_rpm calls of a      *)
(* window pass, by whatever branch of acquire, while Redis is up.           *)
LimitEnforced == \A w \in Windows : granted[w] + unchecked[w] <= MaxRpm
=============================================================================
