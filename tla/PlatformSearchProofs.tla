------------------------- MODULE PlatformSearchProofs -------------------------
(***************************************************************************)
(* For any number of searches, strategies, processes and windows, under any *)
(* policy: search implements the cascade of StrategyCascade, drives the    *)
(* limiter of RateLimiter and pays for every attempt.                      *)
(*                                                                         *)
(* The cascade's own invariant comes first, then the list that the adapter *)
(* filters, then what a search knows of how far it is (SearchInv), from    *)
(* which every action of the adapter is a step of the cascade or none.     *)
(***************************************************************************)
EXTENDS PlatformSearch, FiniteSetTheorems, SequenceTheorems, TLAPS

(* As many members of a finite set of positions precede one of them as you  *)
(* like, up to the last: Nth(H, q) is a member, and the one it names.       *)
LEMMA NthExists ==
    ASSUME NEW n \in Nat, NEW H \in SUBSET (1..n), NEW q \in 0..(Cardinality(H) - 1)
    PROVE  Nth(H, q) \in H /\ Cardinality({j \in H : j < Nth(H, q)}) = q
<1> DEFINE Before(i) == {j \in H : j < i}
           f == [i \in H |-> Cardinality(Before(i))]
           T == 0..(Cardinality(H) - 1)
<1>0. \A i \in H : i \in Int
  OBVIOUS
<1>1. IsFiniteSet(H) /\ Cardinality(H) \in Nat
  <2>1. IsFiniteSet(1..n)
    BY FS_Interval
  <2>2. IsFiniteSet(H)
    BY <2>1, FS_Subset
  <2> QED BY <2>2, FS_CardinalityType
<1>2. ASSUME NEW i \in H
      PROVE  IsFiniteSet(Before(i)) /\ Cardinality(Before(i)) \in Nat
  <2>1. Before(i) \in SUBSET H
    OBVIOUS
  <2> HIDE DEF Before
  <2>2. IsFiniteSet(Before(i))
    BY <1>1, <2>1, FS_Subset
  <2> QED BY <2>2, FS_CardinalityType
<1>3. ASSUME NEW i \in H, NEW k \in H, i < k
      PROVE  Cardinality(Before(i)) < Cardinality(Before(k))
  <2>1. Before(i) \in SUBSET Before(k) /\ i \in Before(k) /\ i \notin Before(i)
    <3>1. \A j \in H : j < i => j < k
      BY <1>0, <1>3
    <3>2. ~(i < i)
      BY <1>0
    <3> QED BY <1>3, <3>1, <3>2
  <2>2. /\ Cardinality(Before(i)) <= Cardinality(Before(k))
        /\ Cardinality(Before(i)) # Cardinality(Before(k))
    <3> HIDE DEF Before
    <3> QED BY <1>2, <2>1, FS_Subset
  <2> QED BY <1>2, <2>2
<1>4. ASSUME NEW i \in H PROVE Cardinality(Before(i)) \in T
  <2>1. Before(i) \in SUBSET H /\ Before(i) # H
    OBVIOUS
  <2>2. Cardinality(Before(i)) <= Cardinality(H) /\ Cardinality(Before(i)) # Cardinality(H)
    <3> HIDE DEF Before
    <3> QED BY <1>1, <2>1, FS_Subset
  <2> QED BY <1>1, <1>2, <2>2
<1>5. f \in Injection(H, T)
  <2>1. f \in [H -> T]
    BY <1>4
  <2>2. ASSUME NEW i \in H, NEW k \in H, f[i] = f[k] PROVE i = k
    <3>1. i \in Int /\ k \in Int
      OBVIOUS
    <3>2. f[i] = Cardinality(Before(i)) /\ f[k] = Cardinality(Before(k))
      OBVIOUS
    <3>3. ~(i < k) /\ ~(k < i)
      <4>1. Cardinality(Before(i)) = Cardinality(Before(k))
        BY <2>2, <3>2
      <4>2. Cardinality(Before(i)) \in Nat /\ Cardinality(Before(k)) \in Nat
        BY <1>2
      <4>3. i < k => Cardinality(Before(i)) < Cardinality(Before(k))
        BY <1>3
      <4>4. k < i => Cardinality(Before(k)) < Cardinality(Before(i))
        BY <1>3
      <4> HIDE DEF f, Before
      <4> QED BY <4>1, <4>2, <4>3, <4>4
    <3> QED BY <3>1, <3>3
  <2> HIDE DEF f
  <2> QED BY <2>1, <2>2 DEF Injection, IsInjective
<1>6. f \in Surjection(H, T)
  <2>1. IsFiniteSet(T) /\ Cardinality(T) = Cardinality(H)
    BY <1>1, FS_Interval
  <2> HIDE DEF f, T
  <2> QED BY <1>5, <2>1, FS_Injection
<1>7. \E i \in H : Cardinality({j \in H : j < i}) = q
  BY <1>6 DEF Surjection
<1> QED
  BY <1>7 DEF Nth

-----------------------------------------------------------------------------
(* The cascade itself. *)

(* What a walk down the permitted strategies keeps. *)
CInv == Cascade!TypeOK /\ IsInjective(Permitted) /\ Cascade!NothingSkipped /\ Cascade!EndsExplained

LEMMA CascadeInit == Cascade!Init => CInv
<1> SUFFICES ASSUME Cascade!Init PROVE CInv
  OBVIOUS
<1>1. \A s \in Searches :
        Walks[s] = [past |-> 0, tried |-> {}, refused |-> {}, answer |-> NoStrategy, end |-> "open"]
  BY DEF Cascade!Init
<1>2. Cascade!TypeOK
  BY DEF Cascade!Init, Cascade!TypeOK, Cascade!Walk
<1>3. Cascade!NothingSkipped
  BY <1>1 DEF Cascade!Init, Cascade!NothingSkipped
<1>4. Cascade!EndsExplained
  BY <1>1 DEF Cascade!EndsExplained
<1> QED BY <1>2, <1>3, <1>4 DEF CInv, Cascade!Init, IsInjective, Cascade!IsInjective

(* The strategy ahead is none of those behind. *)
LEMMA UpcomingIsNew ==
    ASSUME CInv, NEW s \in Searches, Cascade!CanTry(s)
    PROVE  /\ Walks[s] \in Cascade!Walk
           /\ Walks[s].past + 1 \in 1..Len(Permitted)
           /\ Cascade!Upcoming(s) \in Strategies
           /\ Cascade!Upcoming(s) \notin Walks[s].tried \cup Walks[s].refused
           /\ Walks[s].tried \cup Walks[s].refused \cup {Cascade!Upcoming(s)}
                = {Permitted[k] : k \in 1..(Walks[s].past + 1)}
<1>1. Walks[s] \in Cascade!Walk /\ Permitted \in Seq(Strategies)
  BY DEF CInv, Cascade!TypeOK
<1>2. Walks[s].past \in Nat /\ Len(Permitted) \in Nat
  BY <1>1 DEF Cascade!Walk
<1>3. Walks[s].past + 1 \in 1..Len(Permitted) /\ Walks[s].past + 1 \in DOMAIN Permitted
  BY <1>1, <1>2 DEF Cascade!CanTry
<1>4. Walks[s].tried \cup Walks[s].refused = {Permitted[k] : k \in 1..Walks[s].past}
  BY DEF CInv, Cascade!NothingSkipped
<1>5. Cascade!Upcoming(s) = Permitted[Walks[s].past + 1] /\ Cascade!Upcoming(s) \in Strategies
  BY <1>1, <1>3 DEF Cascade!Upcoming
<1>6. Cascade!Upcoming(s) \notin Walks[s].tried \cup Walks[s].refused
  <2> SUFFICES ASSUME NEW k \in 1..Walks[s].past, Permitted[k] = Cascade!Upcoming(s) PROVE FALSE
    BY <1>4
  <2>1. k \in DOMAIN Permitted /\ k # Walks[s].past + 1
    BY <1>1, <1>2, <1>3
  <2> QED BY <1>3, <1>5, <2>1 DEF CInv, IsInjective
<1>7. 1..(Walks[s].past + 1) = 1..Walks[s].past \cup {Walks[s].past + 1}
  BY <1>2
<1> QED BY <1>1, <1>3, <1>4, <1>5, <1>6, <1>7

(* A search that moves on by one strategy, whatever came of it. *)
LEMMA MovesOn ==
    ASSUME CInv, NEW s \in Searches, Cascade!CanTry(s), NEW w \in Cascade!Walk,
           Walks' = [Walks EXCEPT ![s] = w], UNCHANGED <<Permitted, limited>>,
           w.past = Walks[s].past + 1,
           \/ w.tried = Walks[s].tried \cup {Cascade!Upcoming(s)} /\ w.refused = Walks[s].refused
           \/ /\ limited
              /\ w.refused = Walks[s].refused \cup {Cascade!Upcoming(s)} /\ w.tried = Walks[s].tried,
           \/ w.end = "open" /\ w.answer = NoStrategy
           \/ w.end = "answered" /\ w.answer = Cascade!Upcoming(s) /\ w.answer \in w.tried
    PROVE  CInv'
<1>1. /\ Walks' \in [Searches -> Cascade!Walk] /\ Walks'[s] = w
      /\ \A t \in Searches : t # s => Walks'[t] = Walks[t]
  BY DEF CInv, Cascade!TypeOK
<1>2. Cascade!TypeOK' /\ IsInjective(Permitted)'
  BY <1>1 DEF CInv, Cascade!TypeOK, IsInjective
<1>3. Cascade!NothingSkipped'
  <2>1. /\ w.past <= Len(Permitted)
        /\ w.tried \cup w.refused = {Permitted[k] : k \in 1..w.past}
        /\ w.tried \cap w.refused = {}
        /\ ~limited => w.refused = {}
    <3>1. w.past <= Len(Permitted)
      BY UpcomingIsNew
    <3>2. w.tried \cup w.refused = Walks[s].tried \cup Walks[s].refused \cup {Cascade!Upcoming(s)}
      OBVIOUS
    <3>3. w.tried \cap w.refused = {}
      BY UpcomingIsNew DEF CInv, Cascade!NothingSkipped
    <3> QED BY <3>1, <3>2, <3>3, UpcomingIsNew DEF CInv, Cascade!NothingSkipped
  <2> QED BY <1>1, <2>1 DEF CInv, Cascade!NothingSkipped
<1>4. Cascade!EndsExplained'
  <2>1. /\ w.past >= 1 /\ Cascade!Upcoming(s) = Permitted[w.past]
    <3>1. Walks[s].past \in Nat
      BY UpcomingIsNew DEF Cascade!Walk
    <3> QED BY <3>1 DEF Cascade!Upcoming
  <2> QED BY <1>1, <2>1 DEF CInv, Cascade!EndsExplained
<1> QED BY <1>2, <1>3, <1>4 DEF CInv

(* A search that ends where it is, without an answer. *)
LEMMA EndsHere ==
    ASSUME CInv, NEW S \in SUBSET Searches, NEW e \in {"failed", "lost"},
           \A s \in S : Walks[s].end = "open" /\ (e = "failed" => Walks[s].past = Len(Permitted)),
           Walks' = [s \in Searches |-> IF s \in S THEN [Walks[s] EXCEPT !.end = e] ELSE Walks[s]],
           UNCHANGED <<Permitted, limited>>
    PROVE  CInv'
<1>1. \A s \in Searches : Walks[s] \in Cascade!Walk
  BY DEF CInv, Cascade!TypeOK
<1>2. ASSUME NEW s \in Searches
      PROVE  /\ Walks'[s] \in Cascade!Walk
             /\ Walks'[s].past = Walks[s].past /\ Walks'[s].tried = Walks[s].tried
             /\ Walks'[s].refused = Walks[s].refused /\ Walks'[s].answer = Walks[s].answer
             /\ Walks'[s].end = IF s \in S THEN e ELSE Walks[s].end
  BY <1>1 DEF Cascade!Walk
<1>3. Cascade!TypeOK' /\ IsInjective(Permitted)'
  BY <1>2 DEF CInv, Cascade!TypeOK, IsInjective
<1>4. Cascade!NothingSkipped'
  BY <1>2 DEF CInv, Cascade!NothingSkipped
<1>5. Cascade!EndsExplained'
  BY <1>2 DEF CInv, Cascade!EndsExplained
<1> QED BY <1>3, <1>4, <1>5 DEF CInv

(* One more strategy behind a search keeps its record's type. *)
LEMMA StepTypes ==
    ASSUME NEW r \in Cascade!Walk, NEW t \in Strategies
    PROVE  /\ r.past + 1 \in Nat
           /\ r.tried \cup {t} \in SUBSET Strategies
           /\ r.refused \cup {t} \in SUBSET Strategies
BY DEF Cascade!Walk

LEMMA CascadeInvariant == Cascade!Spec => []CInv
<1>1. CInv /\ [Cascade!Next]_(Cascade!vars) => CInv'
  <2> SUFFICES ASSUME CInv, [Cascade!Next]_(Cascade!vars) PROVE CInv'
    OBVIOUS
  <2>1. ASSUME NEW s \in Searches, Cascade!Succeed(s) PROVE CInv'
    <3> DEFINE v == [Walks[s] EXCEPT !.past = @ + 1, !.tried = @ \cup {Cascade!Upcoming(s)},
                                    !.answer = Cascade!Upcoming(s), !.end = "answered"]
    <3>1. Walks[s] \in Cascade!Walk /\ Cascade!Upcoming(s) \in Strategies
      BY <2>1, UpcomingIsNew DEF Cascade!Succeed
    <3>2. v \in Cascade!Walk
      BY <3>1, StepTypes DEF Cascade!Walk
    <3>3. /\ v.past = Walks[s].past + 1 /\ v.end = "answered"
          /\ v.tried = Walks[s].tried \cup {Cascade!Upcoming(s)} /\ v.refused = Walks[s].refused
          /\ v.answer = Cascade!Upcoming(s)
      BY <3>1 DEF Cascade!Walk
    <3>4. Walks' = [Walks EXCEPT ![s] = v] /\ UNCHANGED <<Permitted, limited>> /\ Cascade!CanTry(s)
      BY <2>1 DEF Cascade!Succeed
    <3> HIDE DEF v
    <3>5. PICK w \in Cascade!Walk : w = v
      BY <3>2
    <3> QED BY <3>3, <3>4, <3>5, MovesOn
  <2>2. ASSUME NEW s \in Searches, Cascade!Fail(s) PROVE CInv'
    <3> DEFINE v == [Walks[s] EXCEPT !.past = @ + 1, !.tried = @ \cup {Cascade!Upcoming(s)}]
    <3>1. Walks[s] \in Cascade!Walk /\ Cascade!Upcoming(s) \in Strategies
      BY <2>2, UpcomingIsNew DEF Cascade!Fail
    <3>2. v \in Cascade!Walk
      BY <3>1, StepTypes DEF Cascade!Walk
    <3>3. /\ v.past = Walks[s].past + 1 /\ v.end = Walks[s].end
          /\ v.tried = Walks[s].tried \cup {Cascade!Upcoming(s)} /\ v.refused = Walks[s].refused
          /\ v.answer = Walks[s].answer
      BY <3>1 DEF Cascade!Walk
    <3>4. Walks' = [Walks EXCEPT ![s] = v] /\ UNCHANGED <<Permitted, limited>> /\ Cascade!CanTry(s)
      BY <2>2 DEF Cascade!Fail
    <3> HIDE DEF v
    <3>5. PICK w \in Cascade!Walk : w = v
      BY <3>2
    <3>6. Walks[s].end = "open" /\ Walks[s].answer = NoStrategy
      BY <3>4 DEF Cascade!CanTry, CInv, Cascade!EndsExplained
    <3> QED BY <3>3, <3>4, <3>5, <3>6, MovesOn
  <2>3. ASSUME NEW s \in Searches, Cascade!Refuse(s) PROVE CInv'
    <3> DEFINE v == [Walks[s] EXCEPT !.past = @ + 1, !.refused = @ \cup {Cascade!Upcoming(s)}]
    <3>1. Walks[s] \in Cascade!Walk /\ Cascade!Upcoming(s) \in Strategies
      BY <2>3, UpcomingIsNew DEF Cascade!Refuse
    <3>2. v \in Cascade!Walk
      BY <3>1, StepTypes DEF Cascade!Walk
    <3>3. /\ v.past = Walks[s].past + 1 /\ v.end = Walks[s].end
          /\ v.tried = Walks[s].tried /\ v.refused = Walks[s].refused \cup {Cascade!Upcoming(s)}
          /\ v.answer = Walks[s].answer
      BY <3>1 DEF Cascade!Walk
    <3>4. Walks' = [Walks EXCEPT ![s] = v] /\ UNCHANGED <<Permitted, limited>> /\ Cascade!CanTry(s)
      BY <2>3 DEF Cascade!Refuse
    <3> HIDE DEF v
    <3>5. PICK w \in Cascade!Walk : w = v
      BY <3>2
    <3>6. Walks[s].end = "open" /\ Walks[s].answer = NoStrategy
      BY <3>4 DEF Cascade!CanTry, CInv, Cascade!EndsExplained
    <3>7. limited
      BY <2>3 DEF Cascade!Refuse
    <3> QED BY <3>3, <3>4, <3>5, <3>6, <3>7, MovesOn
  <2>4. ASSUME NEW s \in Searches, Cascade!GiveUp(s) PROVE CInv'
    <3>1. Walks' = [t \in Searches |-> IF t \in {s} THEN [Walks[t] EXCEPT !.end = "failed"] ELSE Walks[t]]
      BY <2>4 DEF Cascade!GiveUp, CInv, Cascade!TypeOK
    <3>2. Walks[s].end = "open" /\ Walks[s].past = Len(Permitted) /\ UNCHANGED <<Permitted, limited>>
      BY <2>4 DEF Cascade!GiveUp
    <3>3. PICK S \in SUBSET Searches : S = {s}
      OBVIOUS
    <3> QED BY <3>1, <3>2, <3>3, EndsHere
  <2>5. ASSUME NEW S \in SUBSET Searches, Cascade!Lose(S) PROVE CInv'
    BY <2>5, EndsHere DEF Cascade!Lose
  <2>6. CASE UNCHANGED Cascade!vars
    <3>1. UNCHANGED Permitted /\ UNCHANGED limited /\ UNCHANGED Walks
      BY <2>6 DEF Cascade!vars
    <3>2. Cascade!TypeOK' /\ IsInjective(Permitted)'
      BY <3>1 DEF CInv, Cascade!TypeOK, IsInjective
    <3>3. Cascade!NothingSkipped' /\ Cascade!EndsExplained'
      BY <3>1 DEF CInv, Cascade!NothingSkipped, Cascade!EndsExplained
    <3> QED BY <3>2, <3>3 DEF CInv
  <2> QED BY <2>1, <2>2, <2>3, <2>4, <2>5, <2>6 DEF Cascade!Next
<1> QED BY <1>1, CascadeInit, PTL DEF Cascade!Spec

(* No search ever jumps over a permitted strategy, tries one twice or tries *)
(* one that the policy does not permit.                                     *)
THEOREM CascadeSkipsNothing == Cascade!Spec => []Cascade!NothingSkipped
<1>1. CInv => Cascade!NothingSkipped
  BY DEF CInv
<1> QED BY <1>1, CascadeInvariant, PTL

(* A search ends with the answer of the strategy tried last, or with every  *)
(* permitted strategy behind it, or with its process.                       *)
THEOREM CascadeEndsExplained == Cascade!Spec => []Cascade!EndsExplained
<1>1. CInv => Cascade!EndsExplained
  BY DEF CInv
<1> QED BY <1>1, CascadeInvariant, PTL

-----------------------------------------------------------------------------
(* The list that the adapter filters. *)

(* Filtering keeps the order and repeats nothing. *)
LEMMA KeptList ==
    ASSUME NEW S, NEW seq \in Seq(S), IsInjective(seq), NEW I \in SUBSET (DOMAIN seq)
    PROVE  /\ Kept(seq, I) \in Seq(S) /\ IsInjective(Kept(seq, I))
           /\ \A k \in DOMAIN Kept(seq, I) : \E i \in I : Kept(seq, I)[k] = seq[i]
<1> DEFINE m == Cardinality(I)
<1>1. PICK n \in Nat : DOMAIN seq = 1..n
  OBVIOUS
<1>2. IsFiniteSet(I) /\ m \in Nat
  <2>1. IsFiniteSet(1..n)
    BY FS_Interval
  <2>2. IsFiniteSet(I)
    BY <1>1, <2>1, FS_Subset
  <2> QED BY <2>2, FS_CardinalityType
<1>3. ASSUME NEW k \in 1..m
      PROVE  /\ Nth(I, k - 1) \in I /\ Nth(I, k - 1) \in DOMAIN seq
             /\ Cardinality({j \in I : j < Nth(I, k - 1)}) = k - 1
  <2>1. k - 1 \in 0..(m - 1)
    BY <1>2
  <2>2. I \in SUBSET (1..n)
    BY <1>1
  <2>3. \A q \in 0..(m - 1) :
          Nth(I, q) \in I /\ Cardinality({j \in I : j < Nth(I, q)}) = q
    BY <2>2, NthExists
  <2> QED BY <2>1, <2>3
<1>4. Kept(seq, I) = [k \in 1..m |-> seq[Nth(I, k - 1)]]
  BY DEF Kept
<1>5. Kept(seq, I) \in [1..m -> S]
  <2>1. \A i \in DOMAIN seq : seq[i] \in S
    OBVIOUS
  <2>2. \A k \in 1..m : seq[Nth(I, k - 1)] \in S
    <3> HIDE DEF m
    <3> QED BY <1>3, <2>1
  <2> HIDE DEF m
  <2> QED BY <1>4, <2>2
<1>6. Kept(seq, I) \in Seq(S)
  <2>1. [1..m -> S] \in {[1..i -> S] : i \in Nat}
    BY <1>2
  <2> HIDE DEF m
  <2> QED BY <1>5, <2>1, SeqDef
<1>7. IsInjective(Kept(seq, I))
  <2> SUFFICES ASSUME NEW k \in 1..m, NEW l \in 1..m, seq[Nth(I, k - 1)] = seq[Nth(I, l - 1)]
               PROVE  k = l
    BY <1>4 DEF IsInjective
  <2>1. Nth(I, k - 1) = Nth(I, l - 1)
    BY <1>3 DEF IsInjective
  <2>2. k - 1 = l - 1
    BY <1>3, <2>1
  <2> QED BY <1>2, <2>2
<1> QED
  BY <1>3, <1>4, <1>6, <1>7

(* The policy lets strategies through at all. *)
Allowing == policy # NoPolicy /\ policy.enabled

(* Under such a policy the list of the adapter holds exactly what the check *)
(* before each attempt lets pass; otherwise nothing passes it.              *)
LEMMA PermittedList ==
    /\ Permitted \in Seq(Strategies) /\ IsInjective(Permitted)
    /\ Configured \in Seq(Strategies)
    /\ Allowing => /\ Configured = Permitted
                   /\ \A k \in DOMAIN Permitted : ModeAllowed(Permitted[k])
    /\ ~Allowing => Permitted = <<>> /\ \A m : ~ModeAllowed(m)
<1> DEFINE I == {i \in DOMAIN Preferred :
                    policy.enabled /\ Preferred[i] \in ToSet(policy.allowed) \ policy.blocked}
<1>1. Preferred \in Seq(Strategies) /\ IsInjective(Preferred)
  <2>1. Preferred \in Seq(ToSet(Preferred)) /\ ToSet(Preferred) \subseteq Strategies
    BY SearchAssumption DEF Strategies
  <2> QED BY <2>1, SeqMonotonic, SearchAssumption
<1>2. /\ Kept(Preferred, I) \in Seq(Strategies) /\ IsInjective(Kept(Preferred, I))
      /\ \A k \in DOMAIN Kept(Preferred, I) : \E i \in I : Kept(Preferred, I)[k] = Preferred[i]
  <2>1. PICK J \in SUBSET (DOMAIN Preferred) : J = I
    OBVIOUS
  <2>2. /\ Kept(Preferred, J) \in Seq(Strategies) /\ IsInjective(Kept(Preferred, J))
        /\ \A k \in DOMAIN Kept(Preferred, J) : \E i \in J : Kept(Preferred, J)[k] = Preferred[i]
    BY <1>1, KeptList
  <2> QED BY <2>1, <2>2
<1>3. Permitted = IF policy = NoPolicy THEN <<>> ELSE Kept(Preferred, I)
  BY DEF Permitted
<1>4. <<>> \in Seq(Strategies) /\ IsInjective(<<>>)
  BY DEF IsInjective
<1>5. ASSUME Allowing
      PROVE  Configured = Permitted /\ \A k \in DOMAIN Permitted : ModeAllowed(Permitted[k])
  <2>1. I = {i \in DOMAIN Preferred : Preferred[i] \in ToSet(policy.allowed) \ policy.blocked}
    BY <1>5 DEF Allowing
  <2>2. Configured = Kept(Preferred, I) /\ Permitted = Kept(Preferred, I)
    BY <1>3, <1>5, <2>1 DEF Allowing, Configured
  <2>3. \A i \in I : ModeAllowed(Preferred[i])
    BY <1>5 DEF Allowing, ModeAllowed, IsModeAllowed
  <2> HIDE DEF I
  <2> QED BY <1>2, <2>2, <2>3
<1>6. ASSUME ~Allowing PROVE Permitted = <<>> /\ \A m : ~ModeAllowed(m)
  <2>1. CASE policy = NoPolicy
    BY <1>3, <2>1 DEF ModeAllowed
  <2>2. CASE policy # NoPolicy /\ ~policy.enabled
    <3>1. I = {}
      BY <2>2
    <3>2. Cardinality(I) = 0
      BY <3>1, FS_EmptySet
    <3>3. DOMAIN Kept(Preferred, I) = 1..Cardinality(I)
      BY DEF Kept
    <3>4. Kept(Preferred, I) = <<>>
      <4>1. Kept(Preferred, I) \in Seq(Strategies)
        BY <1>2
      <4>2. DOMAIN Kept(Preferred, I) = {}
        <5> HIDE DEF I
        <5> QED BY <3>2, <3>3
      <4> HIDE DEF I
      <4> QED BY <4>1, <4>2
    <3> QED BY <1>3, <2>2, <3>4 DEF ModeAllowed, IsModeAllowed
  <2> QED BY <1>6, <2>1, <2>2 DEF Allowing
<1>7. Configured \in Seq(Strategies)
  <2>1. CASE policy = NoPolicy
    BY <2>1 DEF Configured, Strategies
  <2>2. CASE policy # NoPolicy
    <3> DEFINE J == {i \in DOMAIN Preferred : Preferred[i] \in ToSet(policy.allowed) \ policy.blocked}
    <3>1. PICK K \in SUBSET (DOMAIN Preferred) : K = J
      OBVIOUS
    <3>2. Kept(Preferred, K) \in Seq(Strategies)
      BY <1>1, KeptList
    <3> QED BY <2>2, <3>1, <3>2 DEF Configured
  <2> QED BY <2>1, <2>2
<1> QED
  <2> HIDE DEF I
  <2> QED BY <1>2, <1>3, <1>4, <1>5, <1>6, <1>7

-----------------------------------------------------------------------------
(* How far a search is. *)

Behind(r) == r.tried \cup r.refused
Far(r) == Cardinality(Behind(r))
Ahead(r) == SubSeq(Permitted, Far(r) + 1, Len(Permitted))

(* What a search has behind it and before it is, in the platform's order,   *)
(* the list of the permitted strategies.  Without a policy that permits any *)
(* the list the adapter holds is another one, and nothing of it is tried.   *)
Tracks(r) ==
    /\ IsFiniteSet(Behind(r)) /\ Far(r) <= Len(Permitted)
    /\ Behind(r) = {Permitted[k] : k \in 1..Far(r)}
    /\ r.stage = "ready" => Far(r) = 0
    /\ r.stage \in {"turn", "asking", "trying"} /\ Allowing => r.left = Ahead(r)
    /\ r.stage \in {"asking", "trying"} => Allowing /\ r.left # <<>>
    /\ r.stage = "asking" => limited
    /\ r.stage # "done" => r.answer = NoStrategy
    /\ r.stage = "done" /\ r.answer = NoStrategy => Far(r) = Len(Permitted)

SType ==
    /\ policy \in Policies \cup {NoPolicy}
    /\ limited \in BOOLEAN
    /\ search \in [Searches -> Search]

SearchInv == SType /\ \A s \in Searches : Tracks(search[s])

(* The next strategy of a search that may try one is the first that is not  *)
(* behind it.                                                               *)
LEMMA Advances ==
    ASSUME NEW r \in Search, Tracks(r), r.left # <<>>, Allowing,
           r.stage \in {"turn", "asking", "trying"}
    PROVE  /\ Far(r) \in Nat /\ Far(r) + 1 \in 1..Len(Permitted)
           /\ Head(r.left) = Permitted[Far(r) + 1] /\ Head(r.left) \in Strategies
           /\ Head(r.left) \notin Behind(r)
           /\ Tail(r.left) = SubSeq(Permitted, Far(r) + 2, Len(Permitted))
           /\ IsFiniteSet(Behind(r) \cup {Head(r.left)})
           /\ Cardinality(Behind(r) \cup {Head(r.left)}) = Far(r) + 1
           /\ Behind(r) \cup {Head(r.left)} = {Permitted[k] : k \in 1..(Far(r) + 1)}
           /\ ModeAllowed(Head(r.left))
<1>1. PICK q \in Seq(Strategies) : q = Permitted
  BY PermittedList
<1>2. Far(r) \in Nat /\ Len(q) \in Nat /\ Far(r) <= Len(q)
  <2>1. Cardinality(Behind(r)) \in Nat
    BY FS_CardinalityType DEF Tracks
  <2> QED BY <1>1, <2>1 DEF Far, Tracks
<1>3. r.left = SubSeq(q, Far(r) + 1, Len(q))
  BY <1>1 DEF Tracks, Ahead
<1>4. Far(r) + 1 \in 1..Len(q)
  <2>1. ~(Len(q) < Far(r) + 1)
    BY <1>2, <1>3, SubSeqEmpty
  <2> QED BY <1>2, <2>1
<1>5. PICK m \in 1..Len(q) : m = Far(r) + 1
  BY <1>4
<1>6. Head(SubSeq(q, m, Len(q))) = q[m] /\ Tail(SubSeq(q, m, Len(q))) = SubSeq(q, m + 1, Len(q))
  <2>1. Len(q) \in m..Len(q)
    BY <1>2
  <2> QED BY <2>1, HeadTailOfSubSeq
<1>7. /\ Head(r.left) = Permitted[Far(r) + 1] /\ Head(r.left) \in Strategies
      /\ Tail(r.left) = SubSeq(Permitted, Far(r) + 2, Len(Permitted))
  <2>1. m + 1 = Far(r) + 2
    BY <1>2, <1>5
  <2>2. q[m] \in Strategies
    OBVIOUS
  <2> QED BY <1>1, <1>3, <1>5, <1>6, <2>1, <2>2
<1>8. Behind(r) = {Permitted[k] : k \in 1..Far(r)} /\ IsFiniteSet(Behind(r))
  BY DEF Tracks
<1>9. Head(r.left) \notin Behind(r)
  <2> SUFFICES ASSUME NEW k \in 1..Far(r), Permitted[k] = Permitted[Far(r) + 1] PROVE FALSE
    BY <1>7, <1>8
  <2>1. k \in DOMAIN Permitted /\ Far(r) + 1 \in DOMAIN Permitted /\ k # Far(r) + 1
    BY <1>1, <1>2, <1>4
  <2> QED BY <2>1, PermittedList DEF IsInjective
<1>10. 1..(Far(r) + 1) = 1..Far(r) \cup {Far(r) + 1}
  BY <1>2
<1>11. Behind(r) \cup {Head(r.left)} = {Permitted[k] : k \in 1..(Far(r) + 1)}
  BY <1>7, <1>8, <1>10
<1>12. /\ IsFiniteSet(Behind(r) \cup {Head(r.left)})
       /\ Cardinality(Behind(r) \cup {Head(r.left)}) = Far(r) + 1
  BY <1>8, <1>9, FS_AddElement DEF Far
<1>13. ModeAllowed(Head(r.left))
  BY <1>1, <1>4, <1>7, PermittedList
<1> QED BY <1>1, <1>2, <1>4, <1>7, <1>9, <1>11, <1>12, <1>13

(* One search goes from one record to another, the rest is as it was. *)
LEMMA ReplaceOne ==
    ASSUME SearchInv, NEW s \in Searches, NEW r \in Search, Tracks(r),
           search' = [search EXCEPT ![s] = r], UNCHANGED <<policy, limited>>
    PROVE  /\ SearchInv'
           /\ Walks' = [Walks EXCEPT ![s] = Walked(r)]
           /\ UNCHANGED <<Permitted, limited>>
<1>1. Permitted' = Permitted /\ Allowing' = Allowing
  BY DEF Permitted, Allowing
<1>2. SType'
  BY DEF SearchInv, SType
<1>3. ASSUME NEW t \in Searches PROVE Tracks(search[t])'
  <2>1. PICK u \in Search : u = search'[t]
    BY <1>2 DEF SType
  <2>2. Tracks(u)
    BY <2>1 DEF SearchInv, SType
  <2>3. Tracks(u)'
    BY <1>1, <2>2 DEF Tracks, Behind, Far, Ahead
  <2> QED BY <2>1, <2>3 DEF Tracks, Behind, Far, Ahead
<1>4. Walks' = [Walks EXCEPT ![s] = Walked(r)]
  BY DEF Walks, SearchInv, SType
<1> QED BY <1>1, <1>2, <1>3, <1>4 DEF SearchInv

-----------------------------------------------------------------------------
(* Every step of a search is a step of the cascade or changes nothing of it. *)

Follows == SearchInv' /\ [Cascade!Next]_(Cascade!vars)

(* A record that shows the cascade nothing new. *)
LEMMA Stutters ==
    ASSUME SearchInv, NEW s \in Searches, NEW r \in Search, Tracks(r),
           search' = [search EXCEPT ![s] = r], UNCHANGED <<policy, limited>>,
           Walked(r) = Walked(search[s])
    PROVE  Follows
<1>1. SearchInv' /\ Walks' = [Walks EXCEPT ![s] = Walked(r)] /\ UNCHANGED <<Permitted, limited>>
  BY ReplaceOne
<1>2. Walks' = Walks
  BY <1>1 DEF Walks
<1> QED BY <1>1, <1>2 DEF Follows, Cascade!vars

LEMMA RecordOf ==
    ASSUME SearchInv, NEW s \in Searches
    PROVE  /\ search[s] \in Search /\ Tracks(search[s])
           /\ Walks[s] = Walked(search[s])
           /\ search \in [Searches -> Search]
BY DEF SearchInv, SType, Walks

LEMMA BeginStep == ASSUME SearchInv, NEW s \in Searches, Begin(s) PROVE Follows
<1> DEFINE v == [search[s] EXCEPT !.stage = "turn", !.left = Configured]
<1>1. search[s] \in Search /\ Tracks(search[s]) /\ search[s].stage = "ready"
  BY RecordOf DEF Begin, At
<1>2. v \in Search
  BY <1>1, PermittedList DEF Search
<1>3. PICK r \in Search : r = v
  BY <1>2
<1>4. /\ r.stage = "turn" /\ r.left = Configured /\ r.tried = search[s].tried
      /\ r.refused = search[s].refused /\ r.answer = search[s].answer
  BY <1>1, <1>3 DEF Search
<1>5. Behind(r) = Behind(search[s]) /\ Far(r) = 0 /\ Far(search[s]) = 0
  BY <1>1, <1>4 DEF Behind, Far, Tracks
<1>6. Allowing => r.left = Ahead(r)
  <2>1. PICK q \in Seq(Strategies) : q = Permitted
    BY PermittedList
  <2>2. SubSeq(q, 1, Len(q)) = q
    BY SubSeqFull
  <2> QED BY <1>4, <1>5, <2>1, <2>2, PermittedList DEF Ahead
<1>7. Tracks(r)
  BY <1>1, <1>4, <1>5, <1>6 DEF Tracks
<1>8. Walked(r) = Walked(search[s])
  BY <1>1, <1>4, <1>5 DEF Walked, Behind
<1>9. search' = [search EXCEPT ![s] = r] /\ UNCHANGED <<policy, limited>>
  BY <1>3, RecordOf DEF Begin
<1> QED BY <1>7, <1>8, <1>9, Stutters

LEMMA SkipStep == ASSUME SearchInv, NEW s \in Searches, SkipBlocked(s) PROVE Follows
<1> DEFINE v == [search[s] EXCEPT !.left = Tail(@)]
<1>1. /\ search[s] \in Search /\ Tracks(search[s]) /\ search[s].stage = "turn"
      /\ search[s].left # <<>> /\ search[s].left \in Seq(Strategies)
  BY RecordOf DEF SkipBlocked, At, Search
<1>2. ~Allowing
  BY <1>1, Advances DEF SkipBlocked, Strategy
<1>3. Tail(search[s].left) \in Seq(Strategies)
  BY <1>1, HeadTailProperties
<1>4. v \in Search
  BY <1>1, <1>3 DEF Search
<1>5. PICK r \in Search : r = v
  BY <1>4
<1>6. /\ r.stage = "turn" /\ r.tried = search[s].tried
      /\ r.refused = search[s].refused /\ r.answer = search[s].answer
  BY <1>1, <1>5 DEF Search
<1>7. Tracks(r)
  BY <1>1, <1>2, <1>6 DEF Tracks, Behind, Far
<1>8. Walked(r) = Walked(search[s])
  BY <1>1, <1>6 DEF Walked
<1>9. search' = [search EXCEPT ![s] = r] /\ UNCHANGED <<policy, limited>>
  BY <1>5, RecordOf DEF SkipBlocked
<1> QED BY <1>7, <1>8, <1>9, Stutters

(* A search that goes on to ask the limiter, or to the attempt. *)
LEMMA GoesOn ==
    ASSUME SearchInv, NEW s \in Searches, NEW g \in {"asking", "trying"},
           search[s].stage \in {"turn", "asking"}, search[s].left # <<>>,
           Allowing, g = "asking" => limited,
           search' = [search EXCEPT ![s].stage = g], UNCHANGED <<policy, limited>>
    PROVE  Follows
<1>1. search[s] \in Search /\ Tracks(search[s])
  BY RecordOf
<1>2. PICK r \in Search : r = [search[s] EXCEPT !.stage = g]
  BY <1>1 DEF Search
<1>3. /\ r.stage = g /\ r.left = search[s].left /\ r.tried = search[s].tried
      /\ r.refused = search[s].refused /\ r.answer = search[s].answer
  BY <1>1, <1>2 DEF Search
<1>4. Tracks(r)
  BY <1>1, <1>3 DEF Tracks, Behind, Far, Ahead
<1>5. Walked(r) = Walked(search[s])
  BY <1>3 DEF Walked
<1>6. search' = [search EXCEPT ![s] = r]
  BY <1>2, RecordOf
<1> QED BY <1>4, <1>5, <1>6, Stutters

LEMMA AskStep == ASSUME SearchInv, NEW s \in Searches, Ask(s) PROVE Follows
<1>1. search[s].stage = "turn" /\ search[s].left # <<>> /\ UNCHANGED <<policy, limited>>
  BY DEF Ask, At
<1>2. Allowing
  BY PermittedList DEF Ask
<1>3. PICK g \in {"asking", "trying"} :
        (g = "asking" => limited) /\ search' = [search EXCEPT ![s].stage = g]
  BY DEF Ask
<1> QED BY <1>1, <1>2, <1>3, GoesOn

LEMMA ExhaustedStep == ASSUME SearchInv, NEW s \in Searches, Exhausted(s) PROVE Follows
<1>1. search[s] \in Search /\ Tracks(search[s]) /\ search[s].stage = "turn" /\ search[s].left = <<>>
  BY RecordOf DEF Exhausted, At
<1>2. PICK r \in Search : r = [search[s] EXCEPT !.stage = "done"]
  BY <1>1 DEF Search
<1>3. /\ r.stage = "done" /\ r.tried = search[s].tried
      /\ r.refused = search[s].refused /\ r.answer = NoStrategy
  BY <1>1, <1>2 DEF Search, Tracks
<1>4. Far(search[s]) = Len(Permitted) /\ Far(search[s]) \in Nat
  <2>1. PICK q \in Seq(Strategies) : q = Permitted
    BY PermittedList
  <2>2. Far(search[s]) \in Nat /\ Far(search[s]) <= Len(q) /\ Len(q) \in Nat
    BY <1>1, <2>1, FS_CardinalityType DEF Tracks, Far
  <2>3. CASE Allowing
    <3>1. SubSeq(q, Far(search[s]) + 1, Len(q)) = <<>>
      BY <1>1, <2>1, <2>3 DEF Tracks, Ahead
    <3>2. ASSUME Far(search[s]) < Len(q) PROVE FALSE
      <4>1. PICK m \in 1..Len(q) : m = Far(search[s]) + 1
        BY <2>2, <3>2
      <4>2. Len(q) \in m..Len(q)
        BY <2>2
      <4>3. Len(SubSeq(q, m, Len(q))) # 0
        BY <4>2, SubSeqProperties
      <4> QED BY <3>1, <4>1, <4>3
    <3> QED BY <2>1, <2>2, <3>2
  <2>4. CASE ~Allowing
    BY <2>1, <2>2, <2>4, PermittedList
  <2> QED BY <2>2, <2>3, <2>4
<1>5. Tracks(r)
  BY <1>1, <1>3, <1>4 DEF Tracks, Behind, Far
<1>6. search' = [search EXCEPT ![s] = r] /\ UNCHANGED <<policy, limited>>
  BY <1>2, RecordOf DEF Exhausted
<1>7. SearchInv' /\ Walks' = [Walks EXCEPT ![s] = Walked(r)] /\ UNCHANGED <<Permitted, limited>>
  BY <1>5, <1>6, ReplaceOne
<1>8. /\ Walks[s].end = "open" /\ Walks[s].past = Len(Permitted)
      /\ Walked(r) = [Walks[s] EXCEPT !.end = "failed"]
  <2>1. Walks[s] = [past |-> Far(search[s]), tried |-> search[s].tried,
                    refused |-> search[s].refused, answer |-> NoStrategy, end |-> "open"]
    BY <1>1, RecordOf DEF Walked, Behind, Far, Tracks
  <2>2. Walked(r) = [past |-> Far(search[s]), tried |-> search[s].tried,
                     refused |-> search[s].refused, answer |-> NoStrategy, end |-> "failed"]
    BY <1>3 DEF Walked, Behind, Far
  <2> QED BY <1>4, <2>1, <2>2
<1>9. Cascade!GiveUp(s)
  BY <1>7, <1>8 DEF Cascade!GiveUp
<1> QED BY <1>7, <1>9 DEF Follows, Cascade!Next

LEMMA NothingMoves == ASSUME SearchInv, UNCHANGED <<policy, limited, search>> PROVE Follows
<1>1. Permitted' = Permitted /\ Allowing' = Allowing /\ Walks' = Walks
  BY DEF Permitted, Allowing, Walks
<1>2. ASSUME NEW t \in Searches PROVE Tracks(search[t])'
  <2>1. PICK u \in Search : u = search[t]
    BY DEF SearchInv, SType
  <2>2. Tracks(u)'
    BY <1>1, <2>1 DEF SearchInv, Tracks, Behind, Far, Ahead
  <2> QED BY <2>1, <2>2 DEF Tracks, Behind, Far, Ahead
<1> QED BY <1>1, <1>2 DEF Follows, SearchInv, SType, Cascade!vars

(* A walk is its five parts. *)
LEMMA SameWalk ==
    ASSUME NEW v \in Cascade!Walk, NEW w \in Cascade!Walk,
           v.past = w.past, v.tried = w.tried, v.refused = w.refused,
           v.answer = w.answer, v.end = w.end
    PROVE  v = w
BY DEF Cascade!Walk

LEMMA WalkOf ==
    ASSUME NEW r \in Search, Tracks(r)
    PROVE  /\ Walked(r) \in Cascade!Walk
           /\ Walked(r).past = Far(r) /\ Walked(r).tried = r.tried
           /\ Walked(r).refused = r.refused /\ Walked(r).answer = r.answer
           /\ r.stage \notin {"done", "lost"} => Walked(r).end = "open"
           /\ r.stage = "done" /\ r.answer # NoStrategy => Walked(r).end = "answered"
<1>1. Far(r) \in Nat
  BY FS_CardinalityType DEF Tracks, Far
<1>2. r.tried \in SUBSET Strategies /\ r.refused \in SUBSET Strategies
      /\ r.answer \in Strategies \cup {NoStrategy}
      /\ r.stage \in {"ready", "turn", "asking", "trying", "done", "lost"}
  BY DEF Search
<1>3. Walked(r).end \in {"open", "answered", "failed", "lost"}
  BY <1>2 DEF Walked
<1>4. Walked(r) \in Cascade!Walk
  <2>1. Walked(r) = [past |-> Far(r), tried |-> r.tried, refused |-> r.refused,
                     answer |-> r.answer, end |-> Walked(r).end]
    BY DEF Walked, Far, Behind
  <2> QED BY <1>1, <1>2, <1>3, <2>1 DEF Cascade!Walk
<1> QED BY <1>4 DEF Walked, Far, Behind

(* A search that has dealt with its next strategy, whatever came of it. *)
LEMMA Past ==
    ASSUME SearchInv, NEW s \in Searches, NEW r \in Search,
           search[s].stage \in {"asking", "trying"},
           search' = [search EXCEPT ![s] = r], UNCHANGED <<policy, limited>>,
           r.left = Tail(search[s].left),
           \/ r.tried = search[s].tried \cup {Strategy(s)} /\ r.refused = search[s].refused
           \/ r.tried = search[s].tried /\ r.refused = search[s].refused \cup {Strategy(s)},
           \/ r.stage = "turn" /\ r.answer = NoStrategy
           \/ r.stage = "done" /\ r.answer = Strategy(s)
    PROVE  /\ SearchInv'
           /\ Walks' = [Walks EXCEPT ![s] = Walked(r)] /\ UNCHANGED <<Permitted, limited>>
           /\ Cascade!CanTry(s) /\ Cascade!Upcoming(s) = Strategy(s) /\ Strategy(s) \in Strategies
           /\ Walks[s] \in Cascade!Walk /\ Walked(r) \in Cascade!Walk
           /\ Walks[s].past \in Nat /\ Walked(r).past = Walks[s].past + 1
           /\ Walks[s].tried = search[s].tried /\ Walked(r).tried = r.tried
           /\ Walks[s].refused = search[s].refused /\ Walked(r).refused = r.refused
           /\ Walks[s].answer = NoStrategy /\ Walked(r).answer = r.answer
           /\ Walks[s].end = "open"
           /\ Walked(r).end = IF r.stage = "done" THEN "answered" ELSE "open"
<1>1. /\ search[s] \in Search /\ Tracks(search[s]) /\ search[s].left # <<>> /\ Allowing
  BY RecordOf DEF Tracks
<1>2. /\ Far(search[s]) \in Nat /\ Far(search[s]) + 1 \in 1..Len(Permitted)
      /\ Strategy(s) = Permitted[Far(search[s]) + 1] /\ Strategy(s) \in Strategies
      /\ Tail(search[s].left) = SubSeq(Permitted, Far(search[s]) + 2, Len(Permitted))
      /\ IsFiniteSet(Behind(search[s]) \cup {Strategy(s)})
      /\ Cardinality(Behind(search[s]) \cup {Strategy(s)}) = Far(search[s]) + 1
      /\ Behind(search[s]) \cup {Strategy(s)} = {Permitted[k] : k \in 1..(Far(search[s]) + 1)}
  BY <1>1, Advances DEF Strategy
<1>3. Behind(r) = Behind(search[s]) \cup {Strategy(s)}
  BY DEF Behind
<1>4. Far(r) = Far(search[s]) + 1
  BY <1>2, <1>3 DEF Far
<1>5. Far(r) <= Len(Permitted) /\ Far(r) + 1 = Far(search[s]) + 2
  <2>1. PICK q \in Seq(Strategies) : q = Permitted
    BY PermittedList
  <2> QED BY <1>2, <1>4, <2>1
<1>6. Strategy(s) # NoStrategy
  BY <1>2, SearchAssumption DEF Strategies, ManualInput
<1>7. r.left = Ahead(r)
  BY <1>2, <1>5 DEF Ahead
<1>8. Tracks(r)
  <2>1. IsFiniteSet(Behind(r)) /\ Behind(r) = {Permitted[k] : k \in 1..Far(r)}
    BY <1>2, <1>3, <1>4
  <2>2. r.stage \in {"turn", "done"} /\ (r.stage = "done" => r.answer # NoStrategy)
        /\ (r.stage # "done" => r.answer = NoStrategy)
    BY <1>6
  <2> QED BY <1>5, <1>7, <2>1, <2>2 DEF Tracks
<1>9. SearchInv' /\ Walks' = [Walks EXCEPT ![s] = Walked(r)] /\ UNCHANGED <<Permitted, limited>>
  BY <1>8, ReplaceOne
<1>10. /\ Walks[s] \in Cascade!Walk /\ Walks[s].past = Far(search[s])
       /\ Walks[s].tried = search[s].tried /\ Walks[s].refused = search[s].refused
       /\ Walks[s].answer = NoStrategy /\ Walks[s].end = "open"
  <2>1. Walks[s] = Walked(search[s]) /\ search[s].answer = NoStrategy
    BY <1>1, RecordOf DEF Tracks
  <2> QED BY <1>1, <2>1, WalkOf
<1>11. Cascade!CanTry(s) /\ Cascade!Upcoming(s) = Strategy(s)
  <2>1. PICK q \in Seq(Strategies) : q = Permitted
    BY PermittedList
  <2> QED BY <1>2, <1>10, <2>1 DEF Cascade!CanTry, Cascade!Upcoming
<1>12. /\ Walked(r) \in Cascade!Walk /\ Walked(r).past = Far(r) /\ Walked(r).tried = r.tried
       /\ Walked(r).refused = r.refused /\ Walked(r).answer = r.answer
       /\ Walked(r).end = IF r.stage = "done" THEN "answered" ELSE "open"
  BY <1>6, <1>8, WalkOf
<1> QED BY <1>2, <1>4, <1>9, <1>10, <1>11, <1>12

LEMMA SucceedsStep == ASSUME SearchInv, NEW s \in Searches, Succeeds(s) PROVE Follows
<1> DEFINE v == [search[s] EXCEPT !.stage = "done", !.tried = @ \cup {Strategy(s)},
                                 !.left = Tail(@), !.answer = Strategy(s)]
<1>1. /\ search[s] \in Search /\ Tracks(search[s]) /\ search[s].stage = "trying"
      /\ search[s].left # <<>> /\ search[s].left \in Seq(Strategies)
  BY RecordOf DEF Succeeds, At, Tracks, Search
<1>2. Tail(search[s].left) \in Seq(Strategies) /\ Strategy(s) \in Strategies
  BY <1>1, HeadTailProperties DEF Strategy
<1>3. v \in Search
  BY <1>1, <1>2 DEF Search
<1>4. PICK r \in Search : r = v
  BY <1>3
<1>5. /\ r.stage = "done" /\ r.left = Tail(search[s].left)
      /\ r.tried = search[s].tried \cup {Strategy(s)}
      /\ r.refused = search[s].refused /\ r.answer = Strategy(s)
  BY <1>1, <1>4 DEF Search
<1>6. search' = [search EXCEPT ![s] = r] /\ UNCHANGED <<policy, limited>>
  BY <1>4, RecordOf DEF Succeeds
<1>7. SearchInv' /\ Walks' = [Walks EXCEPT ![s] = Walked(r)] /\ UNCHANGED <<Permitted, limited>>
      /\ Cascade!CanTry(s) /\ Cascade!Upcoming(s) = Strategy(s)
  BY <1>1, <1>5, <1>6, Past
<1>8. Walked(r) = [Walks[s] EXCEPT !.past = @ + 1, !.tried = @ \cup {Strategy(s)},
                                   !.answer = Strategy(s), !.end = "answered"]
  <2> DEFINE w == [Walks[s] EXCEPT !.past = @ + 1, !.tried = @ \cup {Strategy(s)},
                                   !.answer = Strategy(s), !.end = "answered"]
  <2>1. /\ Walks[s] \in Cascade!Walk /\ Walked(r) \in Cascade!Walk /\ Strategy(s) \in Strategies
        /\ Walked(r).past = Walks[s].past + 1 /\ Walked(r).tried = Walks[s].tried \cup {Strategy(s)}
        /\ Walked(r).refused = Walks[s].refused /\ Walked(r).answer = Strategy(s) /\ Walked(r).end = "answered"
    BY <1>1, <1>5, <1>6, Past
  <2>2. w \in Cascade!Walk
    BY <2>1, StepTypes DEF Cascade!Walk
  <2>3. /\ w.past = Walks[s].past + 1 /\ w.tried = Walks[s].tried \cup {Strategy(s)}
        /\ w.refused = Walks[s].refused /\ w.answer = Strategy(s) /\ w.end = "answered"
    BY <2>1 DEF Cascade!Walk
  <2> HIDE DEF w
  <2>4. Walked(r) = w
    BY <2>1, <2>2, <2>3, SameWalk
  <2> QED BY <2>4 DEF w
<1>9. Cascade!Succeed(s)
  <2>1. Walks = [t \in Searches |-> Walks[t]]
    BY DEF Walks
  <2> QED BY <1>7, <1>8, <2>1 DEF Cascade!Succeed
<1> QED BY <1>7, <1>9 DEF Follows, Cascade!Next

LEMMA FallsThroughStep == ASSUME SearchInv, NEW s \in Searches, FallsThrough(s) PROVE Follows
<1> DEFINE v == [search[s] EXCEPT !.stage = "turn", !.tried = @ \cup {Strategy(s)},
                                 !.left = Tail(@), !.error = "failed"]
<1>1. /\ search[s] \in Search /\ Tracks(search[s]) /\ search[s].stage = "trying"
      /\ search[s].left # <<>> /\ search[s].left \in Seq(Strategies)
      /\ search[s].answer = NoStrategy
  BY RecordOf DEF FallsThrough, At, Tracks, Search
<1>2. Tail(search[s].left) \in Seq(Strategies) /\ Strategy(s) \in Strategies
  BY <1>1, HeadTailProperties DEF Strategy
<1>3. v \in Search
  BY <1>1, <1>2 DEF Search
<1>4. PICK r \in Search : r = v
  BY <1>3
<1>5. /\ r.stage = "turn" /\ r.left = Tail(search[s].left)
      /\ r.tried = search[s].tried \cup {Strategy(s)}
      /\ r.refused = search[s].refused /\ r.answer = NoStrategy
  BY <1>1, <1>4 DEF Search
<1>6. search' = [search EXCEPT ![s] = r] /\ UNCHANGED <<policy, limited>>
  BY <1>4, RecordOf DEF FallsThrough
<1>7. SearchInv' /\ Walks' = [Walks EXCEPT ![s] = Walked(r)] /\ UNCHANGED <<Permitted, limited>>
      /\ Cascade!CanTry(s) /\ Cascade!Upcoming(s) = Strategy(s)
  BY <1>1, <1>5, <1>6, Past
<1>8. Walked(r) = [Walks[s] EXCEPT !.past = @ + 1, !.tried = @ \cup {Strategy(s)}]
  <2> DEFINE w == [Walks[s] EXCEPT !.past = @ + 1, !.tried = @ \cup {Strategy(s)}]
  <2>1. /\ Walks[s] \in Cascade!Walk /\ Walked(r) \in Cascade!Walk /\ Strategy(s) \in Strategies
        /\ Walked(r).past = Walks[s].past + 1 /\ Walked(r).tried = Walks[s].tried \cup {Strategy(s)}
        /\ Walked(r).refused = Walks[s].refused /\ Walked(r).answer = Walks[s].answer /\ Walked(r).end = Walks[s].end
    BY <1>1, <1>5, <1>6, Past
  <2>2. w \in Cascade!Walk
    BY <2>1, StepTypes DEF Cascade!Walk
  <2>3. /\ w.past = Walks[s].past + 1 /\ w.tried = Walks[s].tried \cup {Strategy(s)}
        /\ w.refused = Walks[s].refused /\ w.answer = Walks[s].answer /\ w.end = Walks[s].end
    BY <2>1 DEF Cascade!Walk
  <2> HIDE DEF w
  <2>4. Walked(r) = w
    BY <2>1, <2>2, <2>3, SameWalk
  <2> QED BY <2>4 DEF w
<1>9. Cascade!Fail(s)
  <2>1. Walks = [t \in Searches |-> Walks[t]]
    BY DEF Walks
  <2> QED BY <1>7, <1>8, <2>1 DEF Cascade!Fail
<1> QED BY <1>7, <1>9 DEF Follows, Cascade!Next

(* acquire goes on waiting, lets the attempt begin, or costs the search its *)
(* strategy.                                                                *)
LEMMA AnsweredStep == ASSUME SearchInv, NEW s \in Searches, Answered(s) PROVE Follows
<1> DEFINE v == [search[s] EXCEPT !.stage = "turn", !.left = Tail(@),
                                 !.refused = @ \cup {Strategy(s)}, !.error = "limited"]
<1>1. /\ search[s] \in Search /\ Tracks(search[s]) /\ search[s].stage = "asking"
      /\ search[s].left # <<>> /\ search[s].left \in Seq(Strategies)
      /\ search[s].answer = NoStrategy /\ limited /\ Allowing
      /\ UNCHANGED <<policy, limited>>
  BY RecordOf DEF Answered, At, Tracks, Search
<1>2. CASE UNCHANGED search
  BY <1>1, <1>2, NothingMoves
<1>3. CASE search' = [search EXCEPT ![s].stage = "trying"]
  BY <1>1, <1>3, GoesOn
<1>4. CASE search' = [search EXCEPT ![s].stage = "turn", ![s].left = Tail(@),
                                   ![s].refused = @ \cup {Strategy(s)}, ![s].error = "limited"]
  <2>1. Tail(search[s].left) \in Seq(Strategies) /\ Strategy(s) \in Strategies
    BY <1>1, HeadTailProperties DEF Strategy
  <2>2. v \in Search
    BY <1>1, <2>1 DEF Search
  <2>3. PICK r \in Search : r = v
    BY <2>2
  <2>4. /\ r.stage = "turn" /\ r.left = Tail(search[s].left) /\ r.tried = search[s].tried
        /\ r.refused = search[s].refused \cup {Strategy(s)} /\ r.answer = NoStrategy
    BY <1>1, <2>3 DEF Search
  <2>5. search' = [search EXCEPT ![s] = r]
    BY <1>4, <2>3, RecordOf
  <2>6. SearchInv' /\ Walks' = [Walks EXCEPT ![s] = Walked(r)] /\ UNCHANGED <<Permitted, limited>>
        /\ Cascade!CanTry(s) /\ Cascade!Upcoming(s) = Strategy(s)
    BY <1>1, <2>4, <2>5, Past
  <2>7. Walked(r) = [Walks[s] EXCEPT !.past = @ + 1, !.refused = @ \cup {Strategy(s)}]
    <3> DEFINE w == [Walks[s] EXCEPT !.past = @ + 1, !.refused = @ \cup {Strategy(s)}]
    <3>1. /\ Walks[s] \in Cascade!Walk /\ Walked(r) \in Cascade!Walk /\ Strategy(s) \in Strategies
          /\ Walked(r).past = Walks[s].past + 1 /\ Walked(r).tried = Walks[s].tried
          /\ Walked(r).refused = Walks[s].refused \cup {Strategy(s)} /\ Walked(r).answer = Walks[s].answer /\ Walked(r).end = Walks[s].end
      BY <1>1, <2>4, <2>5, Past
    <3>2. w \in Cascade!Walk
      BY <3>1, StepTypes DEF Cascade!Walk
    <3>3. /\ w.past = Walks[s].past + 1 /\ w.tried = Walks[s].tried
          /\ w.refused = Walks[s].refused \cup {Strategy(s)} /\ w.answer = Walks[s].answer /\ w.end = Walks[s].end
      BY <3>1 DEF Cascade!Walk
    <3> HIDE DEF w
    <3>4. Walked(r) = w
      BY <3>1, <3>2, <3>3, SameWalk
    <3> QED BY <3>4 DEF w
  <2>8. Cascade!Refuse(s)
    <3>1. Walks = [t \in Searches |-> Walks[t]]
      BY DEF Walks
    <3> QED BY <1>1, <2>6, <2>7, <3>1 DEF Cascade!Refuse
  <2> QED BY <2>6, <2>8 DEF Follows, Cascade!Next
<1> QED BY <1>2, <1>3, <1>4 DEF Answered, Judged

LEMMA FailsOpenStep == ASSUME SearchInv, NEW s \in Searches, FailsOpen(s) PROVE Follows
<1>1. /\ search[s].stage = "asking" /\ search[s].left # <<>> /\ Allowing
      /\ search' = [search EXCEPT ![s].stage = "trying"] /\ UNCHANGED <<policy, limited>>
  BY RecordOf DEF FailsOpen, At, Tracks
<1> QED BY <1>1, GoesOn

LEMMA RestartStep == ASSUME SearchInv, NEW p \in Processes, Restart(p) PROVE Follows
<1> DEFINE S == {t \in Searches : ProcessOf[t] = p
                     /\ search[t].stage \notin {"ready", "done", "lost"}}
<1>1. UNCHANGED <<policy, limited>> /\ Permitted' = Permitted /\ Allowing' = Allowing
  BY DEF Restart, Permitted, Allowing
<1>2. ASSUME NEW t \in Searches
      PROVE  /\ search'[t] \in Search /\ Tracks(search'[t])
             /\ search'[t].tried = search[t].tried /\ search'[t].refused = search[t].refused
             /\ search'[t].answer = search[t].answer
             /\ search'[t].stage = IF t \in S THEN "lost" ELSE search[t].stage
             /\ search'[t].left = search[t].left
  <2>1. search[t] \in Search /\ Tracks(search[t])
    BY RecordOf
  <2>2. search'[t] = IF ProcessOf[t] = p /\ search[t].stage \notin {"ready", "done"}
                       THEN [search[t] EXCEPT !.stage = "lost"] ELSE search[t]
    BY DEF Restart
  <2>3. /\ search'[t] \in Search
        /\ search'[t].tried = search[t].tried /\ search'[t].refused = search[t].refused
        /\ search'[t].answer = search[t].answer /\ search'[t].left = search[t].left
        /\ search'[t].stage = IF t \in S THEN "lost" ELSE search[t].stage
    BY <2>1, <2>2 DEF Search
  <2>4. Tracks(search'[t])
    <3>1. PICK u \in Search : u = search'[t]
      BY <2>3
    <3>2. Behind(u) = Behind(search[t]) /\ Far(u) = Far(search[t])
      BY <2>3, <3>1 DEF Behind, Far
    <3>3. Tracks(u)
      BY <2>1, <2>3, <3>1, <3>2 DEF Tracks, Ahead
    <3> QED BY <3>1, <3>3
  <2> QED BY <2>3, <2>4
<1>3. SType'
  BY <1>1, <1>2 DEF Restart, SearchInv, SType
<1>4. ASSUME NEW t \in Searches PROVE Tracks(search[t])'
  <2>1. PICK u \in Search : u = search'[t] /\ Tracks(u)
    BY <1>2
  <2>2. Tracks(u)'
    BY <1>1, <2>1 DEF Tracks, Behind, Far, Ahead
  <2> QED BY <2>1, <2>2 DEF Tracks, Behind, Far, Ahead
<1>5. ASSUME NEW t \in Searches
      PROVE  Walks'[t] = IF t \in S THEN [Walks[t] EXCEPT !.end = "lost"] ELSE Walks[t]
  <2>1. /\ Walks'[t] = Walked(search'[t]) /\ Walks[t] = Walked(search[t])
        /\ search[t] \in Search /\ Tracks(search[t])
    BY RecordOf DEF Walks
  <2>2. CASE t \in S
    <3>1. Walked(search'[t]) = [past |-> Far(search[t]), tried |-> search[t].tried,
                                refused |-> search[t].refused, answer |-> search[t].answer,
                                end |-> "lost"]
      BY <1>2, <2>2 DEF Walked, Far, Behind
    <3>2. Walked(search[t]) = [past |-> Far(search[t]), tried |-> search[t].tried,
                               refused |-> search[t].refused, answer |-> search[t].answer,
                               end |-> "open"]
      BY <2>2 DEF Walked, Far, Behind
    <3> QED BY <2>1, <2>2, <3>1, <3>2
  <2>3. CASE t \notin S
    BY <1>2, <2>1, <2>3 DEF Walked
  <2> QED BY <2>2, <2>3
<1>6. Cascade!Lose(S)
  <2>1. \A t \in S : Walks[t].end = "open"
    BY RecordOf, WalkOf
  <2>2. Walks' = [t \in Searches |-> IF t \in S THEN [Walks[t] EXCEPT !.end = "lost"] ELSE Walks[t]]
    <3>1. Walks' = [t \in Searches |-> Walks'[t]]
      BY DEF Walks
    <3> HIDE DEF S
    <3> QED BY <1>5, <3>1
  <2> HIDE DEF S
  <2> QED BY <1>1, <2>1, <2>2 DEF Cascade!Lose
<1>7. S \in SUBSET Searches
  OBVIOUS
<1> HIDE DEF S
<1> QED BY <1>3, <1>4, <1>6, <1>7 DEF Follows, SearchInv, Cascade!Next

LEMMA SearchStep == SearchInv /\ [Next]_vars => Follows
<1> SUFFICES ASSUME SearchInv, [Next]_vars PROVE Follows
  OBVIOUS
<1>1. ASSUME NEW s \in Searches, Step(s) PROVE Follows
  BY <1>1, BeginStep, SkipStep, ExhaustedStep, AskStep, AnsweredStep, FailsOpenStep,
     SucceedsStep, FallsThroughStep DEF Step
<1>2. ASSUME NEW p \in Processes, Restart(p) PROVE Follows
  BY <1>2, RestartStep
<1>3. CASE Tick
  BY <1>3, NothingMoves DEF Tick
<1>4. CASE UNCHANGED vars
  BY <1>4, NothingMoves DEF vars
<1> QED BY <1>1, <1>2, <1>3, <1>4 DEF Next

LEMMA SearchBegins == Init => SearchInv /\ Cascade!Init
<1> SUFFICES ASSUME Init PROVE SearchInv /\ Cascade!Init
  OBVIOUS
<1>1. ASSUME NEW s \in Searches
      PROVE  /\ search[s] \in Search /\ search[s].stage = "ready" /\ Behind(search[s]) = {}
             /\ search[s].answer = NoStrategy /\ search[s].tried = {} /\ search[s].refused = {}
  <2>1. search[s] = [stage |-> "ready", left |-> <<>>, tried |-> {}, refused |-> {},
                     error |-> "none", answer |-> NoStrategy]
    BY DEF Init
  <2> QED BY <2>1 DEF Search, Behind
<1>2. ASSUME NEW s \in Searches
      PROVE  /\ IsFiniteSet(Behind(search[s])) /\ Far(search[s]) = 0
             /\ Behind(search[s]) = {Permitted[k] : k \in 1..Far(search[s])}
  BY <1>1, FS_EmptySet DEF Far
<1>3. Permitted \in Seq(Strategies) /\ IsInjective(Permitted) /\ Len(Permitted) \in Nat
  <2>1. PICK q \in Seq(Strategies) : q = Permitted
    BY PermittedList
  <2> QED BY <2>1, PermittedList
<1>4. \A s \in Searches : Tracks(search[s])
  BY <1>1, <1>2, <1>3 DEF Tracks
<1>5. SType
  BY DEF Init, SType, Search
<1>6. Cascade!Init
  <2>1. ASSUME NEW s \in Searches
        PROVE  Walks[s] = [past |-> 0, tried |-> {}, refused |-> {}, answer |-> NoStrategy,
                           end |-> "open"]
    BY <1>1, <1>2 DEF Walks, Walked, Far, Behind
  <2>2. Walks = [s \in Searches |-> [past |-> 0, tried |-> {}, refused |-> {},
                                     answer |-> NoStrategy, end |-> "open"]]
    <3>1. Walks = [s \in Searches |-> Walks[s]]
      BY DEF Walks
    <3> QED BY <2>1, <3>1
  <2>3. limited \in BOOLEAN
    BY DEF Init
  <2> QED BY <1>3, <2>2, <2>3 DEF Cascade!Init, IsInjective, Cascade!IsInjective
<1> QED BY <1>4, <1>5, <1>6 DEF SearchInv

(* The strategies behind a search are always the first of the permitted     *)
(* ones, though the adapter's own list, filtered once by another rule, is   *)
(* what it walks down.                                                      *)
THEOREM SearchKeepsTrack == Spec => []SearchInv
<1>1. SearchInv /\ [Next]_vars => SearchInv'
  BY SearchStep DEF Follows
<1> QED BY <1>1, SearchBegins, PTL DEF Spec

(* search implements the cascade: with the limiter, the registry's check    *)
(* before each attempt and restarts, every step of its coroutines is one    *)
(* strategy answered, failed or refused in the permitted order, an end, or  *)
(* nothing that the cascade knows of.                                       *)
THEOREM SearchIsACascade == Spec => ImplementsCascade
<1>1. SearchInv /\ [Next]_vars => [Cascade!Next]_(Cascade!vars)
  BY SearchStep DEF Follows
<1>2. Init => Cascade!Init
  BY SearchBegins
<1> QED BY <1>1, <1>2, SearchKeepsTrack, PTL DEF Spec, Cascade!Spec, ImplementsCascade

(* So no search of the adapter jumps over a permitted strategy, tries one   *)
(* twice or tries one that the policy does not permit.                      *)
COROLLARY SearchSkipsNothing == Spec => []Cascade!NothingSkipped
BY SearchIsACascade, CascadeSkipsNothing, PTL DEF ImplementsCascade

(* And a search of the adapter ends with the answer of the strategy tried   *)
(* last, with every permitted strategy behind it, or with its process.      *)
COROLLARY SearchEndsExplained == Spec => []Cascade!EndsExplained
BY SearchIsACascade, CascadeEndsExplained, PTL DEF ImplementsCascade

-----------------------------------------------------------------------------
(* The limiter among the searches. *)

LimiterProofs == INSTANCE RateLimiterProofs WITH Callers <- Searches

(* Whatever a search does, the limiter sees one of its own steps or none. *)
THEOREM SearchDrivesLimiter == Spec => LimiterProofs!Spec
<1>1. Init => LimiterProofs!Init
  BY DEF Init, Limiter!Init, LimiterProofs!Init, Limiter!Idle, LimiterProofs!Idle,
         Limiter!Windows, LimiterProofs!Windows, Limiter!Times, LimiterProofs!Times
<1>2. [Next]_vars => [LimiterProofs!Next]_(LimiterProofs!vars)
  <2> SUFFICES ASSUME [Next]_vars PROVE [LimiterProofs!Next]_(LimiterProofs!vars)
    OBVIOUS
  <2> USE DEF LimiterProofs!Next
  <2>1. ASSUME NEW s \in Searches, Limiter!Acquire(s) PROVE LimiterProofs!Next
    <3>1. LimiterProofs!Acquire(s)
      <4>1. \A d \in Searches : Limiter!Pending(d) <=> LimiterProofs!Pending(d)
        BY DEF Limiter!Pending, LimiterProofs!Pending
      <4>2. \A p : Limiter!Limit(p) = LimiterProofs!Limit(p)
        BY DEF Limiter!Limit, LimiterProofs!Limit, Limiter!Half, LimiterProofs!Half
      <4>3. {d \in Searches : Limiter!Pending(d)} = {d \in Searches : LimiterProofs!Pending(d)}
        BY <4>1
      <4>4. \A S : Limiter!Cardinality(S) = LimiterProofs!Cardinality(S)
        BY DEF Limiter!Cardinality, LimiterProofs!Cardinality
      <4> HIDE DEF LimiterProofs!Next
      <4> QED
        BY <2>1, <4>1, <4>2, <4>3, <4>4
           DEF Limiter!Acquire, LimiterProofs!Acquire, Limiter!redisVars, LimiterProofs!redisVars,
               Limiter!passVars, LimiterProofs!passVars
    <3> QED BY <3>1
  <2>2. ASSUME NEW s \in Searches, Limiter!Incr(s) PROVE LimiterProofs!Next
    <3>1. LimiterProofs!Incr(s)
      BY <2>2 DEF Limiter!Incr, LimiterProofs!Incr, Limiter!Verdict, LimiterProofs!Verdict,
                  Limiter!End, LimiterProofs!End, Limiter!Idle, LimiterProofs!Idle,
                  Limiter!passVars, LimiterProofs!passVars
    <3> QED BY <3>1
  <2>3. ASSUME NEW s \in Searches, Limiter!Expire(s) PROVE LimiterProofs!Next
    <3>1. LimiterProofs!Expire(s)
      BY <2>3 DEF Limiter!Expire, LimiterProofs!Expire, Limiter!Verdict, LimiterProofs!Verdict,
                  Limiter!End, LimiterProofs!End, Limiter!Idle, LimiterProofs!Idle,
                  Limiter!passVars, LimiterProofs!passVars
    <3> QED BY <3>1
  <2>4. ASSUME NEW s \in Searches, Limiter!RedisFails(s) PROVE LimiterProofs!Next
    <3>1. LimiterProofs!RedisFails(s)
      BY <2>4 DEF Limiter!RedisFails, LimiterProofs!RedisFails,
                  Limiter!Pending, LimiterProofs!Pending,
                  Limiter!End, LimiterProofs!End, Limiter!Idle, LimiterProofs!Idle,
                  Limiter!redisVars, LimiterProofs!redisVars,
                  Limiter!passVars, LimiterProofs!passVars
    <3> QED BY <3>1
  <2>5. ASSUME NEW p \in Processes, Limiter!Restart(p) PROVE LimiterProofs!Next
    <3>1. LimiterProofs!Restart(p)
      BY <2>5 DEF Limiter!Restart, LimiterProofs!Restart, Limiter!Idle, LimiterProofs!Idle,
                  Limiter!redisVars, LimiterProofs!redisVars,
                  Limiter!passVars, LimiterProofs!passVars
    <3> QED BY <3>1
  <2>6. CASE Limiter!Tick
    <3>1. LimiterProofs!Tick
      BY <2>6 DEF Limiter!Tick, LimiterProofs!Tick, Limiter!Pending, LimiterProofs!Pending,
                  Limiter!Windows, LimiterProofs!Windows, Limiter!Expired, LimiterProofs!Expired,
                  Limiter!passVars, LimiterProofs!passVars
    <3> QED BY <3>1
  <2>7. CASE UNCHANGED limiterVars
    BY <2>7 DEF limiterVars, LimiterProofs!vars, LimiterProofs!redisVars, LimiterProofs!passVars
  <2>8. ASSUME NEW s \in Searches, Step(s)
        PROVE  LimiterProofs!Next \/ UNCHANGED limiterVars
    <3> HIDE DEF LimiterProofs!Next
    <3> QED
      BY <2>1, <2>2, <2>3, <2>4, <2>8
         DEF Step, Begin, SkipBlocked, Exhausted, Ask, Answered, FailsOpen, Succeeds, FallsThrough
  <2>9. ASSUME NEW p \in Processes, Restart(p) PROVE LimiterProofs!Next
    BY <2>5, <2>9 DEF Restart
  <2>10. CASE Tick
    BY <2>6, <2>10 DEF Tick
  <2>11. CASE UNCHANGED vars
    BY <2>7, <2>11 DEF vars
  <2> HIDE DEF LimiterProofs!Next
  <2> QED BY <2>7, <2>8, <2>9, <2>10, <2>11 DEF Next
<1> QED BY <1>1, <1>2, PTL DEF Spec, LimiterProofs!Spec

(* The searches of a platform share one budget: in no window do more than   *)
(* max_rpm of their attempts pass the counter.                              *)
COROLLARY SearchesKeepBudget == Spec => []Limiter!WindowBudget
<1>1. LimiterProofs!WindowBudget => Limiter!WindowBudget
  BY DEF LimiterProofs!WindowBudget, Limiter!WindowBudget, LimiterProofs!Windows, Limiter!Windows
<1>2. LimiterProofs!LimiterAssumption
  BY SharedLimiterAssumption
     DEF Limiter!LimiterAssumption, LimiterProofs!LimiterAssumption,
         Limiter!IsFiniteSet, LimiterProofs!IsFiniteSet
<1> QED BY <1>1, <1>2, SearchDrivesLimiter, LimiterProofs!WindowBudgetHolds, PTL

-----------------------------------------------------------------------------
(* Every attempt is paid for. *)

(* What the passes rest on in the limiter. *)
LimiterTyped ==
    /\ granted \in [Limiter!Windows -> Nat]
    /\ DOMAIN call = Searches
    /\ \A s \in Searches : call[s].pc # "idle" => call[s].window \in Limiter!Windows

LEMMA LimiterIsTyped == Spec => []LimiterTyped
<1>1. LimiterProofs!TypeOK => LimiterTyped
  BY DEF LimiterProofs!TypeOK, LimiterTyped, LimiterProofs!Windows, Limiter!Windows,
         LimiterProofs!Call, LimiterProofs!Idle
<1>2. LimiterProofs!LimiterAssumption
  BY SharedLimiterAssumption
     DEF Limiter!LimiterAssumption, LimiterProofs!LimiterAssumption,
         Limiter!IsFiniteSet, LimiterProofs!IsFiniteSet
<1> QED BY <1>1, <1>2, SearchDrivesLimiter, LimiterProofs!TypesAreKept, PTL

(* The attempts and the passes are as many as those that failed open leave; *)
(* an attempt under way that is lost with its process leaves its pass.      *)
Paid ==
    /\ opened \in Nat
    /\ IsFiniteSet(Attempts) /\ IsFiniteSet(Passes)
    /\ AttemptsPaid

(* An attempt begins: a new one, for the strategy is not behind its search. *)
LEMMA AttemptBegins ==
    ASSUME SearchInv, NEW s \in Searches, search[s].stage \in {"turn", "asking"},
           search[s].left # <<>>, Allowing, search' = [search EXCEPT ![s].stage = "trying"]
    PROVE  /\ Attempts' = Attempts \cup {<<s, Strategy(s)>>}
           /\ <<s, Strategy(s)>> \notin Attempts
           /\ \A t \in Searches : At(t, "lost")' <=> At(t, "lost")
<1>1. search[s] \in Search /\ Tracks(search[s]) /\ search \in [Searches -> Search]
  BY RecordOf
<1>2. Strategy(s) \in Strategies /\ Strategy(s) \notin search[s].tried
  BY <1>1, Advances DEF Strategy, Behind
<1>3. /\ search'[s].stage = "trying" /\ search'[s].tried = search[s].tried
      /\ search'[s].left = search[s].left
      /\ \A t \in Searches : t # s => search'[t] = search[t]
  BY <1>1 DEF Search
<1>4. Strategy(s)' = Strategy(s) /\ \A t \in Searches : t # s => Strategy(t)' = Strategy(t)
  BY <1>3 DEF Strategy
<1>5. ASSUME NEW a \in Searches \X Strategies
      PROVE  a \in Attempts' <=> a \in Attempts \/ a = <<s, Strategy(s)>>
  BY <1>2, <1>3, <1>4 DEF Attempts, At
<1> QED BY <1>2, <1>3, <1>5 DEF Attempts, At

(* The attempts stay what they are. *)
LEMMA AttemptsStay ==
    ASSUME SearchInv, NEW s \in Searches, \A t \in Searches : t # s => search'[t] = search[t],
           \/ search'[s].tried = search[s].tried /\ ~At(s, "trying")
           \/ At(s, "trying") /\ search'[s].tried = search[s].tried \cup {Strategy(s)},
           search'[s].stage \notin {"trying", "lost"}, ~At(s, "lost")
    PROVE  /\ Attempts' = Attempts
           /\ \A t \in Searches : At(t, "lost")' <=> At(t, "lost")
<1>1. \A t \in Searches : t # s => Strategy(t)' = Strategy(t)
  BY DEF Strategy
<1>2. ASSUME NEW a \in Searches \X Strategies PROVE a \in Attempts' <=> a \in Attempts
  <2>1. CASE a[1] = s
    BY <2>1 DEF Attempts, At
  <2>2. CASE a[1] # s
    BY <1>1, <2>2 DEF Attempts, At
  <2> QED BY <2>1, <2>2
<1> QED BY <1>2 DEF Attempts, At

(* A pass more in a window is a pass more. *)
LEMMA PassMore ==
    ASSUME LimiterTyped, NEW w \in Limiter!Windows, granted' = [granted EXCEPT ![w] = @ + 1]
    PROVE  /\ Passes' = Passes \cup {<<w, granted[w] + 1>>}
           /\ <<w, granted[w] + 1>> \notin Passes
<1>1. /\ DOMAIN granted = Limiter!Windows /\ DOMAIN granted' = Limiter!Windows
      /\ \A v \in Limiter!Windows : granted[v] \in Nat
      /\ granted'[w] = granted[w] + 1
      /\ \A v \in Limiter!Windows : v # w => granted'[v] = granted[v]
  BY DEF LimiterTyped
<1>2. \A p : p \in Passes <=> \E v \in Limiter!Windows : \E k \in 1..granted[v] : p = <<v, k>>
  BY <1>1 DEF Passes
<1>3. \A p : p \in Passes' <=> \E v \in Limiter!Windows : \E k \in 1..granted'[v] : p = <<v, k>>
  BY <1>1 DEF Passes
<1>4. \A k : k \in 1..(granted[w] + 1) <=> k \in 1..granted[w] \/ k = granted[w] + 1
  BY <1>1
<1>5. ASSUME NEW p PROVE p \in Passes' <=> p \in Passes \/ p = <<w, granted[w] + 1>>
  <2>1. ASSUME p \in Passes' PROVE p \in Passes \/ p = <<w, granted[w] + 1>>
    <3>1. PICK v \in Limiter!Windows : \E k \in 1..granted'[v] : p = <<v, k>>
      BY <1>3, <2>1
    <3>2. CASE v = w
      BY <1>1, <1>2, <1>4, <3>1, <3>2
    <3>3. CASE v # w
      BY <1>1, <1>2, <3>1, <3>3
    <3> QED BY <3>2, <3>3
  <2>2. ASSUME p \in Passes PROVE p \in Passes'
    <3>1. PICK v \in Limiter!Windows : \E k \in 1..granted[v] : p = <<v, k>>
      BY <1>2, <2>2
    <3>2. 1..granted[v] \subseteq 1..granted'[v]
      BY <1>1
    <3> QED BY <1>3, <3>1, <3>2
  <2>3. ASSUME p = <<w, granted[w] + 1>> PROVE p \in Passes'
    BY <1>1, <1>3, <1>4, <2>3
  <2> QED BY <2>1, <2>2, <2>3
<1>6. <<w, granted[w] + 1>> \notin Passes
  BY <1>1, <1>2
<1> QED BY <1>5, <1>6

LEMMA PaidInit == Init => Paid
<1> SUFFICES ASSUME Init PROVE Paid
  OBVIOUS
<1>1. Attempts = {}
  BY DEF Init, Attempts, At
<1>2. Passes = {}
  <2>1. \A w \in DOMAIN granted : granted[w] = 0
    BY DEF Init, Limiter!Init
  <2> QED BY <2>1 DEF Passes
<1> QED BY <1>1, <1>2, FS_EmptySet DEF Init, Paid, AttemptsPaid

(* What an attempt that begins is paid with. *)
LEMMA PaidBegins ==
    ASSUME Paid, limited' = limited,
           \A t \in Searches : At(t, "lost")' <=> At(t, "lost"),
           NEW a, a \notin Attempts, Attempts' = Attempts \cup {a},
           NEW x, x \notin Passes,
           \/ ~limited /\ opened' = opened /\ Passes' = Passes
           \/ opened' = opened + 1 /\ Passes' = Passes
           \/ opened' = opened /\ Passes' = Passes \cup {x}
    PROVE  Paid'
<1>1. /\ IsFiniteSet(Attempts') /\ Cardinality(Attempts') = Cardinality(Attempts) + 1
      /\ IsFiniteSet(Passes \cup {x}) /\ Cardinality(Passes \cup {x}) = Cardinality(Passes) + 1
  BY FS_AddElement DEF Paid
<1>2. Cardinality(Attempts) \in Nat /\ Cardinality(Passes) \in Nat /\ opened \in Nat
  BY FS_CardinalityType DEF Paid
<1>3. CASE ~limited /\ opened' = opened /\ Passes' = Passes
  BY <1>1, <1>3 DEF Paid, AttemptsPaid
<1>4. CASE opened' = opened + 1 /\ Passes' = Passes
  BY <1>1, <1>2, <1>4 DEF Paid, AttemptsPaid
<1>5. CASE opened' = opened /\ Passes' = Passes \cup {x}
  BY <1>1, <1>2, <1>5 DEF Paid, AttemptsPaid
<1> QED BY <1>3, <1>4, <1>5

LEMMA PaidStays ==
    ASSUME Paid, UNCHANGED <<limited, opened, granted>>, Attempts' = Attempts,
           \A t \in Searches : At(t, "lost")' <=> At(t, "lost")
    PROVE  Paid'
<1>1. Passes' = Passes
  BY DEF Passes
<1> QED BY <1>1 DEF Paid, AttemptsPaid

LEMMA NotAPass == ASSUME LimiterTyped PROVE \E x : x \notin Passes
<1>1. \A p \in Passes : \E w \in DOMAIN granted : \E k \in 1..granted[w] : p = <<w, k>>
  BY DEF Passes
<1>2. ASSUME NEW w \in DOMAIN granted PROVE <<w, 0>> \notin Passes
  <2> SUFFICES ASSUME <<w, 0>> \in Passes PROVE FALSE
    OBVIOUS
  <2>1. PICK v \in DOMAIN granted : \E k \in 1..granted[v] : <<w, 0>> = <<v, k>>
    BY <1>1
  <2>2. granted[v] \in Nat
    BY DEF LimiterTyped
  <2> QED BY <2>1, <2>2
<1>3. DOMAIN granted = {} => Passes = {}
  BY DEF Passes
<1> QED BY <1>2, <1>3

(* A verdict lets the call pass and counts it, or neither; a call that goes *)
(* on waiting has no verdict yet.                                           *)
LEMMA VerdictOf ==
    ASSUME LimiterTyped, NEW s \in Searches, Answered(s)
    PROVE  /\ Limiter!Pending(s)' => granted' = granted
           /\ \/ granted' = granted
              \/ \E w \in Limiter!Windows : granted' = [granted EXCEPT ![w] = @ + 1]
<1>1. \/ Limiter!passVars' = Limiter!passVars
      \/ /\ Limiter!End(s)
         /\ granted' = [granted EXCEPT ![call[s].window] = @ + 1]
         /\ call[s].pc # "idle"
      \/ Limiter!End(s) /\ granted' = granted
  BY DEF Answered, Limiter!Incr, Limiter!Expire, Limiter!Verdict, Limiter!passVars
<1>2. CASE Limiter!passVars' = Limiter!passVars
  BY <1>2 DEF Limiter!passVars
<1>3. CASE /\ Limiter!End(s)
           /\ granted' = [granted EXCEPT ![call[s].window] = @ + 1]
           /\ call[s].pc # "idle"
  <2>1. call[s].window \in Limiter!Windows
    BY <1>3 DEF LimiterTyped
  <2>2. ~Limiter!Pending(s)'
    BY <1>3 DEF LimiterTyped, Limiter!End, Limiter!Pending, Limiter!Idle
  <2> QED BY <1>3, <2>1, <2>2
<1>4. CASE Limiter!End(s) /\ granted' = granted
  BY <1>4
<1> QED BY <1>1, <1>2, <1>3, <1>4

LEMMA PaidStep == SearchInv /\ LimiterTyped /\ Paid /\ [Next]_vars => Paid'
<1> SUFFICES ASSUME SearchInv, LimiterTyped, Paid, [Next]_vars PROVE Paid'
  OBVIOUS
<1>0. PICK none : none \notin Passes
  BY NotAPass
<1>1. ASSUME NEW s \in Searches, Begin(s) PROVE Paid'
  <2>1. /\ search'[s].stage = "turn" /\ search'[s].tried = search[s].tried
        /\ search[s].stage = "ready" /\ \A t \in Searches : t # s => search'[t] = search[t]
    BY <1>1, RecordOf DEF Begin, At, Search
  <2> QED BY <1>1, <2>1, AttemptsStay, PaidStays DEF Begin, At, limiterVars
<1>2. ASSUME NEW s \in Searches, SkipBlocked(s) PROVE Paid'
  <2>1. /\ search'[s].stage = "turn" /\ search'[s].tried = search[s].tried
        /\ search[s].stage = "turn" /\ \A t \in Searches : t # s => search'[t] = search[t]
    BY <1>2, RecordOf DEF SkipBlocked, At, Search
  <2> QED BY <1>2, <2>1, AttemptsStay, PaidStays DEF SkipBlocked, At, limiterVars
<1>3. ASSUME NEW s \in Searches, Exhausted(s) PROVE Paid'
  <2>1. /\ search'[s].stage = "done" /\ search'[s].tried = search[s].tried
        /\ search[s].stage = "turn" /\ \A t \in Searches : t # s => search'[t] = search[t]
    BY <1>3, RecordOf DEF Exhausted, At, Search
  <2> QED BY <1>3, <2>1, AttemptsStay, PaidStays DEF Exhausted, At, limiterVars
<1>4. ASSUME NEW s \in Searches, Ask(s) PROVE Paid'
  <2>1. /\ search[s].stage = "turn" /\ search[s].left # <<>> /\ Allowing /\ limited' = limited
        /\ granted' = granted
    BY <1>4, PermittedList DEF Ask, At, limiterVars, Limiter!Acquire, Limiter!passVars
  <2>2. Passes' = Passes
    BY <2>1 DEF Passes
  <2>3. CASE search' = [search EXCEPT ![s].stage = "asking"] /\ opened' = opened
    <3>1. /\ search'[s].stage = "asking" /\ search'[s].tried = search[s].tried
          /\ \A t \in Searches : t # s => search'[t] = search[t]
      BY <2>3, RecordOf DEF Search
    <3> QED BY <2>1, <2>3, <3>1, AttemptsStay, PaidStays DEF At
  <2>4. CASE /\ search' = [search EXCEPT ![s].stage = "trying"]
             /\ (~limited /\ opened' = opened) \/ opened' = opened + 1
    BY <1>0, <2>1, <2>2, <2>4, AttemptBegins, PaidBegins
  <2> QED BY <1>4, <2>3, <2>4 DEF Ask, limiterVars
<1>5. ASSUME NEW s \in Searches, Answered(s) PROVE Paid'
  <2>1. /\ search[s].stage = "asking" /\ search[s].left # <<>> /\ Allowing
        /\ UNCHANGED <<limited, opened>>
    BY <1>5, RecordOf DEF Answered, At, Tracks
  <2>2. CASE Limiter!Pending(s)' /\ UNCHANGED search
    <3>1. granted' = granted
      BY <1>5, <2>2, VerdictOf
    <3> QED BY <2>1, <2>2, <3>1, PaidStays DEF Attempts, At, Strategy
  <2>3. CASE granted' # granted /\ search' = [search EXCEPT ![s].stage = "trying"]
    <3>1. PICK w \in Limiter!Windows : granted' = [granted EXCEPT ![w] = @ + 1]
      BY <1>5, <2>3, VerdictOf
    <3>2. Passes' = Passes \cup {<<w, granted[w] + 1>>} /\ <<w, granted[w] + 1>> \notin Passes
      BY <3>1, PassMore
    <3>3. PICK x : x = <<w, granted[w] + 1>>
      OBVIOUS
    <3> QED BY <2>1, <2>3, <3>2, <3>3, AttemptBegins, PaidBegins
  <2>4. CASE /\ granted' = granted
             /\ search' = [search EXCEPT ![s].stage = "turn", ![s].left = Tail(@),
                              ![s].refused = @ \cup {Strategy(s)}, ![s].error = "limited"]
    <3>1. /\ search'[s].stage = "turn" /\ search'[s].tried = search[s].tried
          /\ \A t \in Searches : t # s => search'[t] = search[t]
      BY <2>4, RecordOf DEF Search
    <3> QED BY <2>1, <2>4, <3>1, AttemptsStay, PaidStays DEF At
  <2> QED BY <1>5, <2>2, <2>3, <2>4 DEF Answered, Judged
<1>6. ASSUME NEW s \in Searches, FailsOpen(s) PROVE Paid'
  <2>1. /\ search[s].stage = "asking" /\ search[s].left # <<>> /\ Allowing /\ limited' = limited
        /\ granted' = granted /\ opened' = opened + 1
        /\ search' = [search EXCEPT ![s].stage = "trying"]
    BY <1>6, RecordOf DEF FailsOpen, At, Tracks, Limiter!RedisFails, Limiter!passVars
  <2>2. Passes' = Passes
    BY <2>1 DEF Passes
  <2> QED BY <1>0, <2>1, <2>2, AttemptBegins, PaidBegins
<1>7. ASSUME NEW s \in Searches, Succeeds(s) PROVE Paid'
  <2>1. /\ search'[s].stage = "done" /\ search'[s].tried = search[s].tried \cup {Strategy(s)}
        /\ search[s].stage = "trying" /\ \A t \in Searches : t # s => search'[t] = search[t]
    BY <1>7, RecordOf DEF Succeeds, At, Search
  <2> QED BY <1>7, <2>1, AttemptsStay, PaidStays DEF Succeeds, At, limiterVars
<1>8. ASSUME NEW s \in Searches, FallsThrough(s) PROVE Paid'
  <2>1. /\ search'[s].stage = "turn" /\ search'[s].tried = search[s].tried \cup {Strategy(s)}
        /\ search[s].stage = "trying" /\ \A t \in Searches : t # s => search'[t] = search[t]
    BY <1>8, RecordOf DEF FallsThrough, At, Search
  <2> QED BY <1>8, <2>1, AttemptsStay, PaidStays DEF FallsThrough, At, limiterVars
<1>9. ASSUME NEW p \in Processes, Restart(p) PROVE Paid'
  <2>1. /\ UNCHANGED <<limited, opened>> /\ granted' = granted
        /\ search' = [t \in Searches |->
                        IF ProcessOf[t] = p /\ search[t].stage \notin {"ready", "done"}
                          THEN [search[t] EXCEPT !.stage = "lost"] ELSE search[t]]
    BY <1>9 DEF Restart, Limiter!Restart, Limiter!passVars
  <2>2. Passes' = Passes
    BY <2>1 DEF Passes
  <2>3. ASSUME NEW t \in Searches
        PROVE  /\ search'[t] = search[t] \/ search'[t].stage = "lost"
               /\ search'[t].tried = search[t].tried
               /\ At(t, "lost") => At(t, "lost")'
    <3>1. search[t] \in Search
      BY RecordOf
    <3> QED BY <2>1, <3>1 DEF Search, At
  <2>4. Attempts' \subseteq Attempts
    BY <2>3 DEF Attempts, At, Strategy
  <2>5. (\A t \in Searches : ~At(t, "lost")') =>
          Attempts' = Attempts /\ \A t \in Searches : ~At(t, "lost")
    BY <2>3 DEF Attempts, At, Strategy
  <2>6. IsFiniteSet(Attempts') /\ Cardinality(Attempts') <= Cardinality(Attempts)
    BY <2>4, FS_Subset DEF Paid
  <2>7. Cardinality(Attempts) \in Nat /\ Cardinality(Attempts') \in Nat
        /\ Cardinality(Passes) \in Nat /\ opened \in Nat
    BY <2>6, FS_CardinalityType DEF Paid
  <2>8. AttemptsPaid'
    BY <2>1, <2>2, <2>5, <2>6, <2>7 DEF Paid, AttemptsPaid
  <2> QED BY <2>1, <2>2, <2>6, <2>8 DEF Paid
<1>10. CASE Tick
  BY <1>10, PaidStays DEF Tick, Limiter!Tick, Limiter!passVars, Attempts, At, Strategy
<1>11. CASE UNCHANGED vars
  BY <1>11, PaidStays DEF vars, limiterVars, Attempts, At, Strategy
<1> QED
  BY <1>1, <1>2, <1>3, <1>4, <1>5, <1>6, <1>7, <1>8, <1>9, <1>10, <1>11 DEF Next, Step

(* Every attempt through a limiter is paid for, for any number of searches, *)
(* processes and windows: the attempts are the passes of the counter and    *)
(* those that failed open, less what was lost under way.                    *)
THEOREM AttemptsArePaid == Spec => []AttemptsPaid
<1>1. Paid => AttemptsPaid
  BY DEF Paid
<1> QED BY <1>1, PaidInit, PaidStep, SearchKeepsTrack, LimiterIsTyped, PTL DEF Spec
=============================================================================
