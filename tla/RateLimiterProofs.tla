------------------------- MODULE RateLimiterProofs -------------------------
(* The budget of a window holds for any number of processes and callers.    *)
EXTENDS RateLimiter, FiniteSetTheorems, TLAPS

(* The first second of a window. *)
Start(w) == w * Window

LEMMA WindowBounds ==
    ASSUME NEW n \in Nat
    PROVE  /\ n \div Window \in Nat
           /\ Start(n \div Window) <= n
           /\ n < Start(n \div Window) + Window
BY LimiterAssumption DEF Start

(* Every second of the run lies in one of its windows. *)
LEMMA WindowOfTime == ASSUME NEW t \in Times PROVE t \div Window \in Windows
BY LimiterAssumption DEF Times, Windows

LEMMA Constants ==
    /\ MaxRpm \in Nat /\ Half \in Nat /\ 1 <= Half /\ Half <= MaxRpm
    /\ Window \in Nat /\ KeyTtl \in Nat /\ 1 <= KeyTtl /\ HalfTime \in Nat
    /\ MaxDelay \in Nat /\ MaxTime \in Nat
    /\ Window + MaxDelay <= KeyTtl
    /\ ProcessOf \in [Callers -> Processes]
    /\ \A w \in Windows : w \in Nat /\ Start(w) \in Nat
BY LimiterAssumption DEF Half, Windows, Start

(* The callers whose INCR made the key of w and who have not sent EXPIRE.   *)
Owners(w) == {c \in Callers : call[c].pc = "expire" /\ call[c].window = w}

(* A pending call still counts in the window it began in. *)
CallsAreTimely ==
    \A c \in Callers :
        Pending(c) => /\ call[c].began <= now
                      /\ now <= call[c].began + MaxDelay
                      /\ Start(call[c].window) <= call[c].began
                      /\ call[c].began < Start(call[c].window) + Window

(* No key expires while a call may still count in it. *)
KeysOutliveCalls ==
    \A w \in Windows : expiry[w] # 0 => Start(w) + Window + MaxDelay <= expiry[w]

(* The counter is ahead of what it let pass, until no call can reach it.    *)
CounterAhead ==
    \A w \in Windows :
        /\ granted[w] + Cardinality(Owners(w)) <= MaxRpm
        /\ \/ granted[w] + Cardinality(Owners(w)) <= count[w]
           \/ Start(w) + Window + MaxDelay <= now

IInv == TypeOK /\ CallsAreTimely /\ KeysOutliveCalls /\ CounterAhead

LEMMA OwnerCounts ==
    ASSUME NEW S \in SUBSET Callers, NEW T \in SUBSET Callers, NEW c \in Callers
    PROVE  /\ Cardinality(S) \in Nat
           /\ S \subseteq T => Cardinality(S) <= Cardinality(T)
           /\ S \subseteq T \cup {c} => Cardinality(S) <= Cardinality(T) + 1
           /\ c \in T /\ S \subseteq T \ {c} => Cardinality(S) + 1 <= Cardinality(T)
<1>1. IsFiniteSet(S) /\ IsFiniteSet(T) /\ IsFiniteSet(T \cup {c}) /\ IsFiniteSet(T \ {c})
  BY LimiterAssumption, FS_Subset
<1>2. Cardinality(S) \in Nat /\ Cardinality(T) \in Nat
      /\ Cardinality(T \cup {c}) \in Nat /\ Cardinality(T \ {c}) \in Nat
  BY <1>1, FS_CardinalityType
<1>3. S \subseteq T => Cardinality(S) <= Cardinality(T)
  BY <1>1, FS_Subset
<1>4. S \subseteq T \cup {c} => Cardinality(S) <= Cardinality(T \cup {c})
  BY <1>1, FS_Subset
<1>5. Cardinality(T \cup {c}) <= Cardinality(T) + 1
  BY <1>1, <1>2, FS_AddElement
<1>6. S \subseteq T \ {c} => Cardinality(S) <= Cardinality(T \ {c})
  BY <1>1, FS_Subset
<1>7. c \in T => Cardinality(T \ {c}) = Cardinality(T) - 1
  BY <1>1, FS_RemoveElement
<1> QED
  BY <1>2, <1>3, <1>4, <1>5, <1>6, <1>7

LEMMA InitEstablishes == Init => IInv
<1> SUFFICES ASSUME Init PROVE IInv
  OBVIOUS
<1> USE Constants
<1>1. TypeOK
  BY DEF Init, TypeOK, Times, Windows, Call, Idle
<1>2. \A w \in Windows : Owners(w) = {}
  BY DEF Init, Owners, Idle
<1>3. \A w \in Windows : granted[w] = 0 /\ count[w] = 0 /\ Cardinality(Owners(w)) = 0
  BY <1>2, FS_EmptySet DEF Init
<1>4. CounterAhead
  BY <1>3 DEF CounterAhead
<1> QED
  BY <1>1, <1>4 DEF Init, IInv, CallsAreTimely, KeysOutliveCalls, Pending, Idle

(* What the type invariant says of a caller's record. *)
LEMMA PendingCall ==
    ASSUME TypeOK, NEW c \in Callers, Pending(c)
    PROVE  /\ call[c] \in [pc : {"incr", "expire"}, window : Windows, limit : {MaxRpm, Half}, began : Times]
           /\ call[c].window \in Windows /\ call[c].began \in Nat
           /\ call[c].limit \in Nat \ {0} /\ call[c].limit <= MaxRpm
<1>1. call[c] \in Call /\ call[c] # Idle
  BY DEF TypeOK, Pending, Idle
<1> QED
  BY <1>1, Constants DEF Call, Times

LEMMA TypeStep == TypeOK /\ [Next]_vars => TypeOK'
<1> SUFFICES ASSUME TypeOK, [Next]_vars PROVE TypeOK'
  OBVIOUS
<1> USE Constants DEF TypeOK
<1>t. now \in Nat /\ now + KeyTtl \in Nat /\ now + HalfTime \in Nat
  BY DEF Times
<1>v. ASSUME NEW c \in Callers, NEW n \in Nat, Pending(c), Verdict(c, n)
      PROVE  granted' \in [Windows -> Nat] /\ slowed' \in [Windows -> Nat] /\ at' \in [Times -> Nat]
  BY <1>v, PendingCall DEF Verdict, passVars
<1>e. ASSUME NEW c \in Callers, End(c) PROVE call' \in [Callers -> Call]
  BY <1>e DEF End, Call
<1>1. ASSUME NEW c \in Callers, Acquire(c) PROVE TypeOK'
  <2> DEFINE w == now \div Window
  <2>1. w \in Windows /\ now \in Nat
    BY WindowOfTime DEF Times
  <2>2. Limit(ProcessOf[c]) \in {MaxRpm, Half}
    BY DEF Limit
  <2>3. [pc |-> "incr", window |-> w, limit |-> Limit(ProcessOf[c]), began |-> now] \in Call
    BY <2>1, <2>2 DEF Call
  <2>4. halved' \in [Processes -> Nat] /\ quiet' \subseteq Processes
    BY <1>1, <2>1 DEF Acquire
  <2>5. call' \in [Callers -> Call]
    BY <1>1, <2>3 DEF Acquire
  <2>6. unchecked' \in [Windows -> Nat]
    BY <1>1, <2>1 DEF Acquire
  <2> QED
    BY <1>1, <2>4, <2>5, <2>6 DEF Acquire, redisVars, passVars
<1>2. ASSUME NEW c \in Callers, Incr(c) PROVE TypeOK'
  <2>1. Pending(c)
    BY <1>2 DEF Incr, Pending
  <2>2. call[c].window \in Windows /\ count' \in [Windows -> Nat]
    BY <1>2, <2>1, PendingCall DEF Incr
  <2>3. CASE count[call[c].window] = 0
    <3>1. [call[c] EXCEPT !.pc = "expire"] \in Call
      BY <2>1, PendingCall DEF Call
    <3> QED
      BY <1>2, <2>2, <2>3, <3>1 DEF Incr, passVars
  <2>4. CASE count[call[c].window] # 0
    BY <1>2, <2>1, <2>2, <2>4, <1>v, <1>e DEF Incr
  <2> QED
    BY <2>3, <2>4
<1>3. ASSUME NEW c \in Callers, Expire(c) PROVE TypeOK'
  <2>1. Pending(c)
    BY <1>3 DEF Expire, Pending
  <2> QED
    BY <1>3, <1>t, <2>1, <1>v, <1>e, PendingCall DEF Expire
<1>4. ASSUME NEW c \in Callers, RedisFails(c) PROVE TypeOK'
  <2>1. Pending(c)
    BY <1>4 DEF RedisFails, Pending
  <2> QED
    BY <1>4, <1>t, <2>1, <1>e, PendingCall DEF RedisFails, redisVars, passVars
<1>5. ASSUME NEW p \in Processes, HalveRate(p) PROVE TypeOK'
  BY <1>5, <1>t DEF HalveRate, redisVars, passVars
<1>6. ASSUME NEW p \in Processes, NEW s \in RetryAfters, RespectRetryAfter(p, s) PROVE TypeOK'
  <2>1. s \in Nat /\ now \in Nat
    BY LimiterAssumption DEF Times
  <2> QED
    BY <1>6, <2>1 DEF RespectRetryAfter, redisVars, passVars
<1>7. ASSUME NEW p \in Processes, Restart(p) PROVE TypeOK'
  BY <1>7 DEF Restart, redisVars, passVars, Call
<1>8. ASSUME Tick PROVE TypeOK'
  BY <1>8 DEF Tick, passVars, Times
<1>9. ASSUME UNCHANGED vars PROVE TypeOK'
  BY <1>9 DEF vars, redisVars, passVars
<1> QED
  BY <1>1, <1>2, <1>3, <1>4, <1>5, <1>6, <1>7, <1>8, <1>9 DEF Next

LEMMA TimelyStep == IInv /\ [Next]_vars => CallsAreTimely'
<1> SUFFICES ASSUME TypeOK, CallsAreTimely, [Next]_vars PROVE CallsAreTimely'
  BY DEF IInv
<1> USE Constants DEF CallsAreTimely, TypeOK
<1>t. now \in Nat
  BY DEF Times
<1>1. ASSUME NEW c \in Callers, Acquire(c) PROVE CallsAreTimely'
  <2>1. Start(now \div Window) <= now /\ now < Start(now \div Window) + Window
    BY <1>t, WindowBounds
  <2>2. now' = now /\ \A d \in Callers \ {c} : call'[d] = call[d]
    BY <1>1 DEF Acquire
  <2>3. call'[c] = call[c] \/ (call'[c].window = now \div Window /\ call'[c].began = now)
    BY <1>1 DEF Acquire
  <2> QED
    BY <1>t, <2>1, <2>2, <2>3 DEF Pending
<1>2. ASSUME NEW c \in Callers, Incr(c) \/ Expire(c) \/ RedisFails(c) PROVE CallsAreTimely'
  <2>1. now' = now /\ \A d \in Callers \ {c} : call'[d] = call[d]
    BY <1>2 DEF Incr, Expire, RedisFails, End
  <2>2. \/ call'[c] = Idle
        \/ /\ Pending(c)
           /\ call'[c].window = call[c].window /\ call'[c].began = call[c].began
    BY <1>2, PendingCall DEF Incr, Expire, RedisFails, End, Pending, Idle
  <2> QED
    BY <2>1, <2>2 DEF Pending, Idle
<1>3. ASSUME NEW p \in Processes, Restart(p) PROVE CallsAreTimely'
  BY <1>3 DEF Restart, Pending, Idle
<1>4. ASSUME NEW p \in Processes, NEW s \in RetryAfters, HalveRate(p) \/ RespectRetryAfter(p, s)
      PROVE  CallsAreTimely'
  BY <1>4 DEF HalveRate, RespectRetryAfter, Pending
<1>5. ASSUME Tick PROVE CallsAreTimely'
  <2> SUFFICES ASSUME NEW c \in Callers, Pending(c)'
               PROVE  /\ call[c].began <= now + 1
                      /\ now + 1 <= call[c].began + MaxDelay
                      /\ Start(call[c].window) <= call[c].began
                      /\ call[c].began < Start(call[c].window) + Window
    BY <1>5 DEF Tick
  <2>1. Pending(c) /\ now < call[c].began + MaxDelay
    BY <1>5 DEF Tick, Pending
  <2> QED
    BY <1>t, <2>1, PendingCall
<1>6. ASSUME UNCHANGED vars PROVE CallsAreTimely'
  BY <1>6 DEF vars, Pending
<1>7. ASSUME NEW p \in Processes, HalveRate(p) PROVE CallsAreTimely'
  BY <1>7 DEF HalveRate, Pending
<1> QED
  BY <1>1, <1>2, <1>3, <1>4, <1>5, <1>6, <1>7 DEF Next

LEMMA KeysStep == IInv /\ [Next]_vars => KeysOutliveCalls'
<1> SUFFICES ASSUME TypeOK, CallsAreTimely, KeysOutliveCalls, [Next]_vars PROVE KeysOutliveCalls'
  BY DEF IInv
<1> USE Constants DEF KeysOutliveCalls
<1>1. ASSUME NEW c \in Callers, call[c].pc = "expire",
             expiry' = [expiry EXCEPT ![call[c].window] = now + KeyTtl]
      PROVE  KeysOutliveCalls'
  <2>1. Pending(c)
    BY <1>1 DEF Pending
  <2>2. now \in Nat
    BY DEF TypeOK, Times
  <2>3. /\ call[c].window \in Windows /\ call[c].began \in Nat
        /\ Start(call[c].window) \in Nat /\ Start(call[c].window) <= now
    BY <2>1, <2>2, PendingCall DEF CallsAreTimely
  <2> QED
    BY <1>1, <2>2, <2>3 DEF TypeOK
<1>2. ASSUME Tick PROVE KeysOutliveCalls'
  BY <1>2 DEF Tick, TypeOK
<1>3. ASSUME expiry' = expiry PROVE KeysOutliveCalls'
  BY <1>3
<1> QED
  BY <1>1, <1>2, <1>3
     DEF Next, vars, redisVars, Acquire, Incr, Expire, RedisFails, HalveRate, RespectRetryAfter, Restart

(* A call that still counts finds the counter ahead, whatever expired. *)
LEMMA LiveCounter ==
    ASSUME IInv, NEW c \in Callers, Pending(c)
    PROVE  granted[call[c].window] + Cardinality(Owners(call[c].window)) <= count[call[c].window]
<1> DEFINE w == call[c].window
<1>1. w \in Windows /\ call[c].began \in Nat
  BY PendingCall DEF IInv
<1>2. now \in Nat /\ Start(w) \in Nat
  BY <1>1, Constants DEF IInv, TypeOK, Times
<1>3. ~(Start(w) + Window + MaxDelay <= now)
  BY <1>1, <1>2, Constants DEF IInv, CallsAreTimely
<1> QED
  BY <1>1, <1>3 DEF IInv, CounterAhead

LEMMA CounterStep == IInv /\ [Next]_vars => CounterAhead'
<1> SUFFICES ASSUME IInv, [Next]_vars PROVE CounterAhead'
  OBVIOUS
<1> USE Constants
<1>t. TypeOK /\ TypeOK'
  BY TypeStep DEF IInv
<1>s. now \in Nat
  BY <1>t DEF TypeOK, Times
<1>o. \A w \in Windows : /\ Owners(w) \in SUBSET Callers
                          /\ Owners(w)' \in SUBSET Callers
                          /\ Cardinality(Owners(w)) \in Nat
                          /\ Cardinality(Owners(w)') \in Nat
  <2>1. \A w \in Windows : Owners(w) \in SUBSET Callers /\ Owners(w)' \in SUBSET Callers
    BY DEF Owners
  <2>2. \A S \in SUBSET Callers : Cardinality(S) \in Nat
    BY LimiterAssumption, FS_Subset, FS_CardinalityType
  <2> QED
    BY <2>1, <2>2
<1>n. \A w \in Windows : /\ granted[w] \in Nat /\ granted'[w] \in Nat
                          /\ count[w] \in Nat /\ count'[w] \in Nat
                          /\ Start(w) \in Nat
  BY <1>t DEF TypeOK
<1>i. \A w \in Windows :
        /\ granted[w] + Cardinality(Owners(w)) <= MaxRpm
        /\ \/ granted[w] + Cardinality(Owners(w)) <= count[w]
           \/ Start(w) + Window + MaxDelay <= now
  BY DEF IInv, CounterAhead
<1>mono. ASSUME NEW S \in SUBSET Callers, NEW T \in SUBSET Callers, S \subseteq T
         PROVE  Cardinality(S) <= Cardinality(T)
  BY <1>mono, LimiterAssumption, FS_Subset
<1>quietly. ASSUME granted' = granted, now' = now,
                   \A w \in Windows : count'[w] >= count[w] /\ Owners(w)' \subseteq Owners(w)
            PROVE  CounterAhead'
  <2> SUFFICES ASSUME NEW w \in Windows
               PROVE  /\ granted[w] + Cardinality(Owners(w)') <= MaxRpm
                      /\ \/ granted[w] + Cardinality(Owners(w)') <= count'[w]
                         \/ Start(w) + Window + MaxDelay <= now
    BY <1>quietly DEF CounterAhead
  <2>1. Cardinality(Owners(w)') <= Cardinality(Owners(w))
    BY <1>quietly, <1>mono, <1>o
  <2>2. count'[w] \in Nat /\ count[w] \in Nat /\ granted[w] \in Nat
    BY <1>t DEF TypeOK
  <2> QED
    BY <2>1, <2>2, <1>o, <1>quietly DEF IInv, CounterAhead
<1>1. ASSUME NEW c \in Callers, Acquire(c) PROVE CounterAhead'
  <2>1. \A w \in Windows : Owners(w)' \subseteq Owners(w)
    BY <1>1, <1>t DEF Acquire, Owners, TypeOK
  <2> QED
    BY <1>1, <2>1, <1>t, <1>quietly DEF Acquire, redisVars, passVars, TypeOK
<1>2. ASSUME NEW c \in Callers, Incr(c) PROVE CounterAhead'
  <2>p. Pending(c)
    BY <1>2 DEF Incr, Pending
  <2> PICK v \in Windows : v = call[c].window
    BY <2>p, <1>t, PendingCall
  <2>0. Pending(c) /\ v = call[c].window /\ call[c].limit \in Nat /\ call[c].limit <= MaxRpm
    BY <2>p, <1>t, PendingCall
  <2>1. granted[v] + Cardinality(Owners(v)) <= count[v]
    BY <2>0, LiveCounter
  <2>2. /\ count[v] \in Nat /\ granted[v] \in Nat /\ now' = now
        /\ count' = [count EXCEPT ![v] = count[v] + 1]
    BY <1>2, <2>0, <1>t DEF Incr, TypeOK
  <2>3. CASE count[v] = 0
    <3>1. /\ granted' = granted
          /\ Owners(v)' \subseteq Owners(v) \cup {c}
          /\ \A w \in Windows \ {v} : Owners(w)' \subseteq Owners(w)
      BY <1>2, <2>3, <1>t, <2>0 DEF Incr, Owners, passVars, TypeOK, Pending, Call, Idle
    <3>2. Cardinality(Owners(v)') <= Cardinality(Owners(v)) + 1
      BY <3>1, <1>o, <2>0, OwnerCounts
    <3>3. granted[v] + Cardinality(Owners(v)') <= 1
      BY <3>2, <2>1, <2>2, <2>3, <1>o, <1>n, <2>0
    <3>4. \A w \in Windows \ {v} : Cardinality(Owners(w)') <= Cardinality(Owners(w))
      BY <3>1, <1>mono, <1>o
    <3> SUFFICES ASSUME NEW w \in Windows
                 PROVE  /\ granted[w] + Cardinality(Owners(w)') <= MaxRpm
                        /\ \/ granted[w] + Cardinality(Owners(w)') <= count'[w]
                           \/ Start(w) + Window + MaxDelay <= now
      BY <3>1, <2>2 DEF CounterAhead
    <3>5. CASE w = v
      <4>1. count'[v] = 1 /\ 1 <= MaxRpm
        BY <2>2, <2>3, <1>t DEF TypeOK
      <4> QED
        BY <4>1, <3>3, <3>5, <1>o, <1>n
    <3>6. CASE w # v
      BY <3>4, <3>6, <2>2, <1>o, <1>t DEF IInv, CounterAhead, TypeOK
    <3> QED
      BY <3>5, <3>6
  <2>4. CASE count[v] # 0
    <3>1. End(c) /\ Verdict(c, count[v] + 1)
      BY <1>2, <2>4 DEF Incr
    <3>2. \A w \in Windows : Owners(w)' \subseteq Owners(w)
      BY <3>1, <1>t DEF End, Owners, Idle, TypeOK
    <3>3. \A w \in Windows : Cardinality(Owners(w)') <= Cardinality(Owners(w))
      BY <3>2, <1>mono, <1>o
    <3>4. \/ granted' = granted
          \/ granted' = [granted EXCEPT ![v] = granted[v] + 1] /\ count[v] + 1 <= call[c].limit
      BY <3>1, <2>0, <2>2 DEF Verdict, passVars
    <3> SUFFICES ASSUME NEW w \in Windows
                 PROVE  /\ granted'[w] + Cardinality(Owners(w)') <= MaxRpm
                        /\ \/ granted'[w] + Cardinality(Owners(w)') <= count'[w]
                           \/ Start(w) + Window + MaxDelay <= now
      BY <2>2 DEF CounterAhead
    <3>5. CASE w = v
      <4>0. \/ granted'[v] = granted[v]
            \/ granted'[v] = granted[v] + 1 /\ count[v] + 1 <= MaxRpm
        <5>1. CASE granted' = [granted EXCEPT ![v] = granted[v] + 1] /\ count[v] + 1 <= call[c].limit
          <6>1. granted'[v] = granted[v] + 1
            BY <5>1, <1>t DEF TypeOK
          <6> QED
            BY <5>1, <6>1, <2>0, <2>2
        <5>2. CASE granted' = granted
          BY <5>2
        <5> QED
          BY <3>4, <5>1, <5>2
      <4>1. granted'[v] + Cardinality(Owners(v)') <= count[v] + 1
        BY <3>3, <4>0, <2>0, <2>1, <1>o, <1>n
      <4>2. granted'[v] + Cardinality(Owners(v)') <= MaxRpm
        BY <3>3, <4>0, <2>0, <2>1, <1>i, <1>o, <1>n
      <4>3. count'[v] = count[v] + 1
        BY <2>0, <2>2, <1>t DEF TypeOK
      <4> QED
        BY <4>1, <4>2, <4>3, <3>5
    <3>6. CASE w # v
      BY <3>3, <3>4, <3>6, <2>2, <1>o, <1>t DEF IInv, CounterAhead, TypeOK
    <3> QED
      BY <3>5, <3>6
  <2> QED
    BY <2>3, <2>4
<1>3. ASSUME NEW c \in Callers, Expire(c) PROVE CounterAhead'
  <2>p. Pending(c)
    BY <1>3 DEF Expire, Pending
  <2> PICK v \in Windows : v = call[c].window
    BY <2>p, <1>t, PendingCall
  <2>0. Pending(c) /\ v = call[c].window
    BY <2>p
  <2>1. c \in Owners(v) /\ Owners(v)' \subseteq Owners(v) \ {c}
        /\ \A w \in Windows \ {v} : Owners(w)' \subseteq Owners(w)
    BY <1>3, <1>t, <2>0 DEF Expire, End, Owners, Idle, TypeOK
  <2>2. Cardinality(Owners(v)') + 1 <= Cardinality(Owners(v))
    BY <2>0, <2>1, <1>o, OwnerCounts
  <2>3. \A w \in Windows \ {v} : Cardinality(Owners(w)') <= Cardinality(Owners(w))
    BY <2>1, <1>mono, <1>o
  <2>4. granted' = granted \/ granted' = [granted EXCEPT ![v] = granted[v] + 1]
    BY <1>3 DEF Expire, Verdict, passVars
  <2>5. now' = now /\ count' = count
    BY <1>3 DEF Expire
  <2> SUFFICES ASSUME NEW w \in Windows
               PROVE  /\ granted'[w] + Cardinality(Owners(w)') <= MaxRpm
                      /\ \/ granted'[w] + Cardinality(Owners(w)') <= count[w]
                         \/ Start(w) + Window + MaxDelay <= now
    BY <2>5 DEF CounterAhead
  <2>6. granted'[w] + Cardinality(Owners(w)') <= granted[w] + Cardinality(Owners(w))
    <3>1. CASE w = v
      <4>1. granted'[v] = granted[v] \/ granted'[v] = granted[v] + 1
        BY <2>4, <2>0, <1>t DEF TypeOK
      <4> QED
        BY <3>1, <4>1, <2>2, <2>0, <1>o, <1>n
    <3>2. CASE w # v
      BY <3>2, <2>3, <2>4, <1>o, <1>t DEF TypeOK
    <3> QED
      BY <3>1, <3>2
  <2> QED
    BY <2>6, <1>o, <1>t DEF IInv, CounterAhead, TypeOK
<1>4. ASSUME NEW c \in Callers, RedisFails(c) PROVE CounterAhead'
  <2>1. \A w \in Windows : Owners(w)' \subseteq Owners(w)
    BY <1>4, <1>t DEF RedisFails, End, Owners, Idle, TypeOK
  <2>2. \A w \in Windows : count'[w] >= count[w]
    BY <1>4, <1>t DEF RedisFails, redisVars, TypeOK
  <2> QED
    BY <1>4, <2>1, <2>2, <1>quietly DEF RedisFails, passVars
<1>5. ASSUME NEW p \in Processes, HalveRate(p) PROVE CounterAhead'
  BY <1>5, <1>quietly, <1>t DEF HalveRate, Owners, redisVars, passVars, TypeOK
<1>6. ASSUME NEW p \in Processes, NEW s \in RetryAfters, RespectRetryAfter(p, s) PROVE CounterAhead'
  BY <1>6, <1>quietly, <1>t DEF RespectRetryAfter, Owners, redisVars, passVars, TypeOK
<1>7. ASSUME NEW p \in Processes, Restart(p) PROVE CounterAhead'
  <2>1. \A w \in Windows : Owners(w)' \subseteq Owners(w)
    BY <1>7, <1>t DEF Restart, Owners, Idle, TypeOK
  <2> QED
    BY <1>7, <2>1, <1>quietly, <1>t DEF Restart, redisVars, passVars, TypeOK
<1>8. ASSUME Tick PROVE CounterAhead'
  <2> SUFFICES ASSUME NEW w \in Windows
               PROVE  /\ granted[w] + Cardinality(Owners(w)) <= MaxRpm
                      /\ \/ granted[w] + Cardinality(Owners(w)) <= count'[w]
                         \/ Start(w) + Window + MaxDelay <= now + 1
    BY <1>8 DEF Tick, CounterAhead, Owners, passVars
  <2>1. CASE Expired(w)
    <3>1. expiry[w] \in Nat /\ Start(w) + Window + MaxDelay <= expiry[w]
      BY <2>1, <1>t DEF Expired, IInv, KeysOutliveCalls, TypeOK
    <3> QED
      BY <2>1, <3>1, <1>i, <1>n, <1>s DEF Expired
  <2>2. CASE ~Expired(w)
    BY <2>2, <1>8, <1>t DEF Tick, IInv, CounterAhead, TypeOK
  <2> QED
    BY <2>1, <2>2
<1>9. ASSUME UNCHANGED vars PROVE CounterAhead'
  BY <1>9, <1>quietly, <1>t DEF vars, Owners, redisVars, passVars, TypeOK
<1> QED
  BY <1>1, <1>2, <1>3, <1>4, <1>5, <1>6, <1>7, <1>8, <1>9 DEF Next

THEOREM InvariantHolds == Spec => []IInv
<1>1. IInv /\ [Next]_vars => IInv'
  BY TypeStep, TimelyStep, KeysStep, CounterStep DEF IInv
<1> QED
  BY <1>1, InitEstablishes, PTL DEF Spec

(* Clock, counters and calls keep their types. *)
THEOREM TypesAreKept == Spec => []TypeOK
<1>1. IInv => TypeOK
  BY DEF IInv
<1> QED
  BY <1>1, InvariantHolds, PTL

(* No window lets more than max_rpm calls pass, for any number of callers   *)
(* and processes and whatever Redis or a process loses, as long as a Redis  *)
(* call is over before its window's key can expire.                         *)
THEOREM WindowBudgetHolds == Spec => []WindowBudget
<1>1. IInv => WindowBudget
  <2> SUFFICES ASSUME IInv, NEW w \in Windows PROVE granted[w] <= MaxRpm
    BY DEF WindowBudget
  <2>1. Owners(w) \in SUBSET Callers
    BY DEF Owners
  <2>2. Cardinality(Owners(w)) \in Nat
    BY <2>1, LimiterAssumption, FS_Subset, FS_CardinalityType
  <2> QED
    BY <2>2, Constants DEF IInv, CounterAhead, TypeOK
<1> QED
  BY <1>1, InvariantHolds, PTL

(* Of the calls that passed, those under a halved rate, and the callers     *)
(* that have yet to send EXPIRE, stay within half of the budget.            *)
SlowAhead ==
    \A w \in Windows :
        /\ slowed[w] <= granted[w]
        /\ slowed[w] + Cardinality(Owners(w)) <= Half

LEMMA SlowStep == IInv /\ SlowAhead /\ [Next]_vars => SlowAhead'
<1> SUFFICES ASSUME IInv, SlowAhead, [Next]_vars PROVE SlowAhead'
  OBVIOUS
<1> USE Constants
<1>t. TypeOK /\ TypeOK'
  BY TypeStep DEF IInv
<1>o. \A w \in Windows : /\ Owners(w) \in SUBSET Callers
                          /\ Owners(w)' \in SUBSET Callers
                          /\ Cardinality(Owners(w)) \in Nat
                          /\ Cardinality(Owners(w)') \in Nat
  <2>1. \A w \in Windows : Owners(w) \in SUBSET Callers /\ Owners(w)' \in SUBSET Callers
    BY DEF Owners
  <2>2. \A S \in SUBSET Callers : Cardinality(S) \in Nat
    BY LimiterAssumption, FS_Subset, FS_CardinalityType
  <2> QED
    BY <2>1, <2>2
<1>n. \A w \in Windows : /\ granted[w] \in Nat /\ slowed[w] \in Nat /\ count[w] \in Nat
  BY <1>t DEF TypeOK
<1>mono. ASSUME NEW S \in SUBSET Callers, NEW T \in SUBSET Callers, S \subseteq T
         PROVE  Cardinality(S) <= Cardinality(T)
  BY <1>mono, LimiterAssumption, FS_Subset
<1>quietly. ASSUME granted' = granted, slowed' = slowed,
                   \A w \in Windows : Owners(w)' \subseteq Owners(w)
            PROVE  SlowAhead'
  <2>1. \A w \in Windows : Cardinality(Owners(w)') <= Cardinality(Owners(w))
    BY <1>quietly, <1>mono, <1>o
  <2> QED
    BY <2>1, <1>quietly, <1>o, <1>n DEF SlowAhead
<1>1. ASSUME NEW c \in Callers, Acquire(c) PROVE SlowAhead'
  <2>1. \A w \in Windows : Owners(w)' \subseteq Owners(w)
    BY <1>1, <1>t DEF Acquire, Owners, TypeOK
  <2> QED
    BY <1>1, <2>1, <1>quietly DEF Acquire, passVars
<1>2. ASSUME NEW c \in Callers, Incr(c) PROVE SlowAhead'
  <2>p. Pending(c)
    BY <1>2 DEF Incr, Pending
  <2> PICK v \in Windows : v = call[c].window
    BY <2>p, <1>t, PendingCall
  <2>0. /\ v = call[c].window /\ call[c].limit \in {MaxRpm, Half}
        /\ granted[v] + Cardinality(Owners(v)) <= count[v]
    BY <2>p, <1>t, PendingCall, LiveCounter
  <2>1. CASE count[v] = 0
    <3>1. /\ granted' = granted /\ slowed' = slowed
          /\ Owners(v)' \subseteq Owners(v) \cup {c}
          /\ \A w \in Windows \ {v} : Owners(w)' \subseteq Owners(w)
      BY <1>2, <2>1, <1>t, <2>0, <2>p DEF Incr, Owners, passVars, TypeOK, Pending, Call, Idle
    <3>2. Cardinality(Owners(v)') <= Cardinality(Owners(v)) + 1
      BY <3>1, <1>o, OwnerCounts
    <3>3. slowed[v] + Cardinality(Owners(v)') <= Half
      BY <3>2, <2>0, <2>1, <1>o, <1>n DEF SlowAhead
    <3>4. \A w \in Windows \ {v} : Cardinality(Owners(w)') <= Cardinality(Owners(w))
      BY <3>1, <1>mono, <1>o
    <3> QED
      BY <3>1, <3>3, <3>4, <1>o, <1>n DEF SlowAhead
  <2>2. CASE count[v] # 0
    <3>1. End(c) /\ Verdict(c, count[v] + 1)
      BY <1>2, <2>2, <2>0 DEF Incr
    <3>2. \A w \in Windows : Owners(w)' \subseteq Owners(w)
      BY <3>1, <1>t DEF End, Owners, Idle, TypeOK
    <3>3. \A w \in Windows : Cardinality(Owners(w)') <= Cardinality(Owners(w))
      BY <3>2, <1>mono, <1>o
    <3>4. CASE count[v] + 1 > call[c].limit
      BY <3>1, <3>2, <3>4, <1>quietly DEF Verdict, passVars
    <3>5. CASE ~(count[v] + 1 > call[c].limit) /\ call[c].limit = MaxRpm
      <4>1. /\ granted'[v] = granted[v] + 1 /\ slowed'[v] = slowed[v]
            /\ \A w \in Windows \ {v} : granted'[w] = granted[w] /\ slowed'[w] = slowed[w]
        BY <3>1, <3>5, <2>0, <1>t DEF Verdict, TypeOK
      <4> QED
        BY <3>3, <4>1, <1>o, <1>n DEF SlowAhead
    <3>6. CASE ~(count[v] + 1 > call[c].limit) /\ call[c].limit # MaxRpm
      <4>1. /\ granted'[v] = granted[v] + 1 /\ slowed'[v] = slowed[v] + 1
            /\ \A w \in Windows \ {v} : granted'[w] = granted[w] /\ slowed'[w] = slowed[w]
        BY <3>1, <3>6, <2>0, <1>t DEF Verdict, TypeOK
      <4>2. slowed[v] + 1 + Cardinality(Owners(v)') <= Half
        BY <3>3, <3>6, <2>0, <1>o, <1>n DEF SlowAhead
      <4> QED
        BY <3>3, <4>1, <4>2, <1>o, <1>n DEF SlowAhead
    <3> QED
      BY <3>4, <3>5, <3>6
  <2> QED
    BY <2>1, <2>2
<1>3. ASSUME NEW c \in Callers, Expire(c) PROVE SlowAhead'
  <2>p. Pending(c)
    BY <1>3 DEF Expire, Pending
  <2> PICK v \in Windows : v = call[c].window
    BY <2>p, <1>t, PendingCall
  <2>1. /\ c \in Owners(v) /\ Owners(v)' \subseteq Owners(v) \ {c}
        /\ \A w \in Windows \ {v} : Owners(w)' \subseteq Owners(w)
    BY <1>3, <1>t DEF Expire, End, Owners, Idle, TypeOK
  <2>2. Cardinality(Owners(v)') + 1 <= Cardinality(Owners(v))
    BY <2>1, <1>o, OwnerCounts
  <2>3. \A w \in Windows \ {v} : Cardinality(Owners(w)') <= Cardinality(Owners(w))
    BY <2>1, <1>mono, <1>o
  <2>4. /\ slowed'[v] - slowed[v] \in {0, 1} /\ granted'[v] \in Nat /\ slowed'[v] \in Nat
        /\ slowed'[v] - slowed[v] <= granted'[v] - granted[v]
        /\ \A w \in Windows \ {v} : granted'[w] = granted[w] /\ slowed'[w] = slowed[w]
    <3>1. CASE granted' = granted /\ slowed' = slowed
      BY <3>1, <1>n
    <3>2. CASE /\ granted' = [granted EXCEPT ![v] = @ + 1]
               /\ \/ slowed' = [slowed EXCEPT ![v] = @ + 1]
                  \/ slowed' = [slowed EXCEPT ![v] = @ + 0]
      BY <3>2, <1>t, <1>n DEF TypeOK
    <3>3. Verdict(c, 1)
      BY <1>3 DEF Expire
    <3> QED
      BY <3>1, <3>2, <3>3 DEF Verdict, passVars
  <2> QED
    BY <2>2, <2>3, <2>4, <1>o, <1>n DEF SlowAhead
<1>4. ASSUME NEW c \in Callers, RedisFails(c) PROVE SlowAhead'
  <2>1. \A w \in Windows : Owners(w)' \subseteq Owners(w)
    BY <1>4, <1>t DEF RedisFails, End, Owners, Idle, TypeOK
  <2> QED
    BY <1>4, <2>1, <1>quietly DEF RedisFails, passVars
<1>5. ASSUME NEW p \in Processes, Restart(p) PROVE SlowAhead'
  <2>1. \A w \in Windows : Owners(w)' \subseteq Owners(w)
    BY <1>5, <1>t DEF Restart, Owners, Idle, TypeOK
  <2> QED
    BY <1>5, <2>1, <1>quietly DEF Restart, passVars
<1>6. ASSUME UNCHANGED <<call, granted, slowed>> PROVE SlowAhead'
  BY <1>6, <1>quietly DEF Owners
<1> QED
  BY <1>1, <1>2, <1>3, <1>4, <1>5, <1>6 DEF Next, HalveRate, RespectRetryAfter, Tick, vars, passVars

(* Calls that began under a halved rate never take more than half of a      *)
(* window's budget, for any number of processes, halved or not.             *)
THEOREM SlowBudgetHolds == Spec => []SlowBudget
<1>1. Init => SlowAhead
  <2> SUFFICES ASSUME Init PROVE SlowAhead
    OBVIOUS
  <2>1. \A w \in Windows : Owners(w) = {}
    BY DEF Init, Owners, Idle
  <2> QED
    BY <2>1, FS_EmptySet, Constants DEF Init, SlowAhead
<1>2. TypeOK /\ SlowAhead => SlowBudget
  <2> SUFFICES ASSUME TypeOK, SlowAhead, NEW w \in Windows PROVE slowed[w] <= Half
    BY DEF SlowBudget
  <2>1. Owners(w) \in SUBSET Callers
    BY DEF Owners
  <2>2. Cardinality(Owners(w)) \in Nat
    BY <2>1, LimiterAssumption, FS_Subset, FS_CardinalityType
  <2> QED
    BY <2>2, Constants DEF SlowAhead, TypeOK
<1> QED
  BY <1>1, <1>2, SlowStep, InvariantHolds, TypesAreKept, PTL DEF Spec
=============================================================================
