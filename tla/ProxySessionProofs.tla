------------------------- MODULE ProxySessionProofs -------------------------
(***************************************************************************)
(* For any number of domains, requests and proxies: close_all loses no open *)
(* client although it awaits every one of them while requests register     *)
(* others; a domain's proxies rotate; and a primary proxy that shares its  *)
(* host and port with another keeps the secondary pool out of use.         *)
(***************************************************************************)
EXTENDS ProxySession, SequenceTheorems, FiniteSetTheorems, NaturalsInduction,
        WellFoundedInduction, TLAPS

(* A client's record, over any proxy: the argument does not need to know    *)
(* which one the pool gave.                                                 *)
IsClient(c) == c \in [domain : Domains, proxy : {c.proxy}, open : BOOLEAN]

(* The dictionary of clients: a sequence of positions in clients, each of   *)
(* which is of a domain of its own.                                         *)
RegistrySound ==
    /\ \E S : clients \in Seq(S)
    /\ \A i \in DOMAIN clients : IsClient(clients[i])
    /\ registry \in Seq(DOMAIN clients)
    /\ \A k, l \in DOMAIN registry :
         clients[registry[k]].domain = clients[registry[l]].domain => k = l

(* An open client is in the dictionary. *)
OpenRegistered ==
    \A i \in DOMAIN clients : clients[i].open => \E k \in DOMAIN registry : registry[k] = i

(* While close_all runs the dictionary only grows, and behind its iterator  *)
(* every client is closed.                                                  *)
ClosedBehind ==
    closing.pc = "closing" =>
        /\ closing.pos \in Nat /\ closing.size \in Nat
        /\ closing.pos <= closing.size /\ closing.size <= Len(registry)
        /\ \A k \in 1..closing.pos : ~clients[registry[k]].open

IInv == RegistrySound /\ OpenRegistered /\ ClosedBehind /\ DeadClientsExplained

LEMMA InitEstablishes == Init => IInv
<1> SUFFICES ASSUME Init PROVE IInv
  OBVIOUS
<1>1. clients = <<>> /\ registry = <<>> /\ closing.pc = "idle"
  BY DEF Init, NotClosing
<1>2. clients \in Seq({}) /\ registry \in Seq(DOMAIN clients) /\ DOMAIN clients = {} /\ DOMAIN registry = {}
  BY <1>1
<1> QED
  BY <1>1, <1>2 DEF IInv, RegistrySound, OpenRegistered, ClosedBehind, DeadClientsExplained, ToSet

(* The steps that leave the clients and the dictionary alone. *)
LEMMA OthersPreserve ==
    IInv /\ UNCHANGED <<clients, registry, closing, broken>> => IInv'
BY DEF IInv, RegistrySound, IsClient, OpenRegistered, ClosedBehind, DeadClientsExplained, ToSet

(* A new client enters clients and the dictionary in one step. *)
LEMMA CreatePreserves ==
    ASSUME IInv, NEW r \in Requests, NEW d \in Domains, Create(r, d)
    PROVE  IInv'
<1> PICK new \in {[domain |-> d, proxy |-> ProxyFor(d), open |-> TRUE]} :
        clients' = Append(clients, new)
  BY DEF Create
<1>0. new.domain = d /\ new.open = TRUE /\ IsClient(new)
  <2> PICK p \in {ProxyFor(d)} : new = [domain |-> d, proxy |-> p, open |-> TRUE]
    OBVIOUS
  <2> QED
    BY DEF IsClient
<1> PICK S : clients \in Seq(S)
  BY DEF IInv, RegistrySound
<1> DEFINE n == Len(clients)
           m == Len(registry)
<1>1. /\ n \in Nat /\ DOMAIN clients = 1..n
      /\ registry \in Seq(1..n) /\ m \in Nat /\ DOMAIN registry = 1..m
  BY DEF IInv, RegistrySound
<1>2. /\ clients' \in Seq(S \cup {new}) /\ DOMAIN clients' = 1..(n + 1)
      /\ clients'[n + 1] = new /\ \A i \in 1..n : clients'[i] = clients[i]
  <2>1. clients \in Seq(S \cup {new})
    BY SeqMonotonic
  <2> QED
    BY <2>1, <1>1, AppendProperties
<1>3. /\ registry' = Append(registry, n + 1) /\ registry \in Seq(1..(n + 1))
      /\ closing' = closing /\ broken' = broken
  BY <1>1, SeqMonotonic DEF Create
<1>4. /\ registry' \in Seq(DOMAIN clients') /\ DOMAIN registry' = 1..(m + 1) /\ Len(registry') = m + 1
      /\ registry'[m + 1] = n + 1 /\ \A k \in 1..m : registry'[k] = registry[k] /\ registry[k] \in 1..n
  BY <1>1, <1>2, <1>3, AppendProperties
<1>5. \A k \in 1..m : clients[registry[k]].domain # d
  BY <1>1 DEF Create, Registered, ToSet
<1>6. RegistrySound'
  <2>1. \A i \in DOMAIN clients' : IsClient(clients'[i])
    BY <1>0, <1>1, <1>2 DEF IInv, RegistrySound
  <2>2. ASSUME NEW k \in DOMAIN registry', NEW l \in DOMAIN registry',
               clients'[registry'[k]].domain = clients'[registry'[l]].domain
        PROVE  k = l
    <3>1. CASE k \in 1..m /\ l \in 1..m
      BY <1>1, <1>2, <1>4, <2>2, <3>1 DEF IInv, RegistrySound
    <3>2. CASE k = m + 1 \/ l = m + 1
      <4>1. \A q \in 1..m : clients'[registry'[q]].domain # d
        BY <1>2, <1>4, <1>5
      <4>2. clients'[registry'[m + 1]].domain = d
        BY <1>0, <1>2, <1>4
      <4>3. k \in 1..m \/ k = m + 1
        BY <1>1, <1>4
      <4>4. l \in 1..m \/ l = m + 1
        BY <1>1, <1>4
      <4> QED
        BY <2>2, <3>2, <4>1, <4>2, <4>3, <4>4
    <3> QED
      BY <1>1, <1>4, <3>1, <3>2
  <2> QED
    BY <1>2, <1>4, <2>1, <2>2 DEF RegistrySound, IsClient
<1>7. OpenRegistered'
  BY <1>1, <1>2, <1>4 DEF IInv, OpenRegistered
<1>8. ClosedBehind'
  BY <1>1, <1>2, <1>3, <1>4 DEF IInv, ClosedBehind
<1>9. DeadClientsExplained'
  <2> SUFFICES ASSUME NEW k \in DOMAIN registry', ~clients'[registry'[k]].open
               PROVE  closing.pc = "closing" \/ broken
    BY <1>3 DEF DeadClientsExplained, ToSet
  <2>1. k \in 1..m
    BY <1>0, <1>1, <1>2, <1>4
  <2> QED
    BY <2>1, <1>1, <1>2, <1>4 DEF IInv, DeadClientsExplained, ToSet
<1> QED
  BY <1>6, <1>7, <1>8, <1>9 DEF IInv

(* A stretch of close_all, from its begin or from an await. *)
LEMMA AdvancePreserves ==
    ASSUME IInv, NEW pos \in Nat, NEW size \in Nat, pos <= size, size <= Len(registry),
           \A k \in 1..pos : ~clients[registry[k]].open,
           Advance(pos, size)
    PROVE  IInv'
<1> DEFINE n == Len(clients)
           m == Len(registry)
<1> PICK S : clients \in Seq(S)
  BY DEF IInv, RegistrySound
<1>1. /\ n \in Nat /\ DOMAIN clients = 1..n
      /\ registry \in Seq(1..n) /\ m \in Nat /\ DOMAIN registry = 1..m
      /\ \A k \in 1..m : registry[k] \in 1..n
  BY DEF IInv, RegistrySound
<1>2. CASE m # size /\ closing' = NotClosing /\ broken' = TRUE /\ UNCHANGED <<clients, registry>>
  BY <1>2 DEF IInv, RegistrySound, IsClient, OpenRegistered, ClosedBehind, DeadClientsExplained,
              ToSet, NotClosing
<1>3. CASE /\ m = size /\ pos < size
           /\ clients' = [clients EXCEPT ![registry[pos + 1]].open = FALSE]
           /\ closing' = [pc |-> "closing", pos |-> pos + 1, size |-> size]
           /\ UNCHANGED <<registry, broken>>
  <2> PICK j \in 1..n : j = registry[pos + 1]
    BY <1>1, <1>3
  <2>1. /\ DOMAIN clients' = 1..n /\ \A i \in 1..n \ {j} : clients'[i] = clients[i]
        /\ clients'[j] = [clients[j] EXCEPT !.open = FALSE]
    BY <1>1, <1>3
  <2>2. IsClient(clients[j])
    BY <1>1 DEF IInv, RegistrySound
  <2>3. /\ IsClient(clients'[j]) /\ clients'[j].open = FALSE
        /\ clients'[j].domain = clients[j].domain
    BY <2>1, <2>2 DEF IsClient
  <2>4. \E T : clients' \in Seq(T)
    <3> PICK v \in {clients'[j]} : v = clients'[j]
      OBVIOUS
    <3>1. \A i \in 1..n : clients'[i] \in S \cup {v}
      BY <1>1, <2>1
    <3>2. clients' \in [1..n -> S \cup {v}]
      BY <1>1, <1>3, <3>1
    <3>3. clients' \in Seq(S \cup {v})
      <4>1. [1..n -> S \cup {v}] \in {[1..i -> S \cup {v}] : i \in Nat}
        BY <1>1
      <4> QED
        BY <3>2, <4>1, SeqDef
    <3> QED
      BY <3>3
  <2>5. \A i \in 1..n : clients'[i].domain = clients[i].domain /\ (clients'[i].open => clients[i].open)
    BY <2>1, <2>3
  <2>6. RegistrySound'
    <3>1. \A i \in 1..n : IsClient(clients'[i])
      BY <1>1, <2>1, <2>3 DEF IInv, RegistrySound
    <3>2. \A k, l \in 1..m : clients'[registry[k]].domain = clients'[registry[l]].domain => k = l
      BY <1>1, <2>5 DEF IInv, RegistrySound
    <3>3. registry' \in Seq(DOMAIN clients') /\ DOMAIN registry' = 1..m /\ registry' = registry
      BY <1>1, <1>3, <2>1
    <3>4. \A i \in DOMAIN clients' : IsClient(clients'[i])
      BY <2>1, <3>1
    <3>5. \A k, l \in DOMAIN registry' :
            clients'[registry'[k]].domain = clients'[registry'[l]].domain => k = l
      BY <3>2, <3>3
    <3> PICK T : clients' \in Seq(T)
      BY <2>4
    <3> QED
      BY <3>3, <3>4, <3>5 DEF RegistrySound, IsClient
  <2>7. OpenRegistered'
    BY <1>1, <1>3, <2>1, <2>5 DEF IInv, OpenRegistered
  <2>8. ClosedBehind'
    <3>1. \A k \in 1..(pos + 1) : ~clients'[registry[k]].open
      BY <1>1, <1>3, <2>3, <2>5
    <3> QED
      BY <1>1, <1>3, <3>1 DEF ClosedBehind
  <2> QED
    BY <1>3, <2>6, <2>7, <2>8 DEF IInv, DeadClientsExplained
<1>4. CASE /\ m = size /\ pos = size
           /\ registry' = <<>> /\ closing' = NotClosing
           /\ UNCHANGED <<clients, broken>>
  <2>1. \A i \in 1..n : ~clients[i].open
    BY <1>1, <1>4 DEF IInv, OpenRegistered
  <2>2. registry' \in Seq(DOMAIN clients') /\ DOMAIN registry' = {}
    BY <1>4
  <2> QED
    BY <1>1, <1>4, <2>1, <2>2
       DEF IInv, RegistrySound, IsClient, OpenRegistered, ClosedBehind, DeadClientsExplained, ToSet,
           NotClosing
<1> QED
  BY <1>2, <1>3, <1>4 DEF Advance

LEMMA StepPreserves == IInv /\ [Next]_vars => IInv'
<1> SUFFICES ASSUME IInv, [Next]_vars PROVE IInv'
  OBVIOUS
<1>1. ASSUME NEW r \in Requests, Answered(r) PROVE IInv'
  BY <1>1, OthersPreserve DEF Answered
<1>2. ASSUME NEW r \in Requests, NEW d \in Domains, Reuse(r, d) PROVE IInv'
  BY <1>2, OthersPreserve DEF Reuse
<1>3. ASSUME NEW r \in Requests, NEW d \in Domains, Create(r, d) PROVE IInv'
  BY <1>3, CreatePreserves
<1>4. ASSUME NEW p \in Proxies, MarkFailed(p) PROVE IInv'
  BY <1>4, OthersPreserve DEF MarkFailed
<1>5. ASSUME CloseAll PROVE IInv'
  <2>1. Len(registry) \in Nat
    BY DEF IInv, RegistrySound
  <2> QED
    BY <1>5, <2>1, AdvancePreserves DEF CloseAll
<1>6. ASSUME CloseNext PROVE IInv'
  <2>1. /\ closing.pos \in Nat /\ closing.size \in Nat /\ closing.pos <= closing.size
        /\ closing.size <= Len(registry) /\ \A k \in 1..closing.pos : ~clients[registry[k]].open
    BY <1>6 DEF CloseNext, IInv, ClosedBehind
  <2> PICK pos \in Nat, size \in Nat : pos = closing.pos /\ size = closing.size
    BY <2>1
  <2> QED
    BY <1>6, <2>1, AdvancePreserves DEF CloseNext
<1>7. ASSUME Tick PROVE IInv'
  BY <1>7, OthersPreserve DEF Tick
<1>8. ASSUME UNCHANGED vars PROVE IInv'
  BY <1>8, OthersPreserve DEF vars
<1> QED
  BY <1>1, <1>2, <1>3, <1>4, <1>5, <1>6, <1>7, <1>8 DEF Next

THEOREM InvariantHolds == Spec => []IInv
BY InitEstablishes, StepPreserves, PTL DEF Spec

(* SessionManager never has an open client outside _clients, whichever      *)
(* requests register new ones while close_all awaits aclose, and never two  *)
(* open clients of one domain.                                              *)
THEOREM NoOpenClientIsLost == Spec => []OpenClientsKnown
<1>1. IInv => OpenClientsKnown
  <2> SUFFICES ASSUME IInv PROVE OpenClientsKnown
    OBVIOUS
  <2>1. \A i \in DOMAIN clients : clients[i].open => \E k \in DOMAIN registry : registry[k] = i
    BY DEF IInv, OpenRegistered
  <2>2. \A k, l \in DOMAIN registry :
          clients[registry[k]].domain = clients[registry[l]].domain => k = l
    BY DEF IInv, RegistrySound
  <2> QED
    BY <2>1, <2>2 DEF OpenClientsKnown, ToSet
<1> QED
  BY <1>1, InvariantHolds, PTL

(* get_client finds a closed client, on which every request raises, only    *)
(* while close_all runs or after one that a new client broke off.           *)
THEOREM DeadClientsAreExplained == Spec => []DeadClientsExplained
<1>1. IInv => DeadClientsExplained
  BY DEF IInv
<1> QED
  BY <1>1, InvariantHolds, PTL

-----------------------------------------------------------------------------
(* Which proxy a domain gets. *)

(* As many members of a finite set of positions precede one of them as you  *)
(* like, up to the last: Nth(H, q) is a member, and the one it names.       *)
LEMMA NthExists ==
    ASSUME NEW n \in Nat, NEW H \in SUBSET (1..n), NEW q \in 0..(Cardinality(H) - 1)
    PROVE  Nth(H, q) \in H /\ Cardinality({j \in H : j < Nth(H, q)}) = q
<1> DEFINE Before(i) == {j \in H : j < i}
           f == [i \in H |-> Cardinality(Before(i))]
           T == 0..(Cardinality(H) - 1)
<1>0. \A i \in H : i \in Int
  OBVIOUS
<1>1. IsFiniteSet(H) /\ Cardinality(H) \in Nat
  <2>1. IsFiniteSet(1..n)
    BY FS_Interval
  <2>2. IsFiniteSet(H)
    BY <2>1, FS_Subset
  <2> QED BY <2>2, FS_CardinalityType
<1>2. ASSUME NEW i \in H
      PROVE  IsFiniteSet(Before(i)) /\ Cardinality(Before(i)) \in Nat
  <2>1. Before(i) \in SUBSET H
    OBVIOUS
  <2> HIDE DEF Before
  <2>2. IsFiniteSet(Before(i))
    BY <1>1, <2>1, FS_Subset
  <2> QED BY <2>2, FS_CardinalityType
<1>3. ASSUME NEW i \in H, NEW k \in H, i < k
      PROVE  Cardinality(Before(i)) < Cardinality(Before(k))
  <2>1. Before(i) \in SUBSET Before(k) /\ i \in Before(k) /\ i \notin Before(i)
    <3>1. \A j \in H : j < i => j < k
      BY <1>0, <1>3
    <3>2. ~(i < i)
      BY <1>0
    <3> QED BY <1>3, <3>1, <3>2
  <2>2. /\ Cardinality(Before(i)) <= Cardinality(Before(k))
        /\ Cardinality(Before(i)) # Cardinality(Before(k))
    <3> HIDE DEF Before
    <3> QED BY <1>2, <2>1, FS_Subset
  <2> QED BY <1>2, <2>2
<1>4. ASSUME NEW i \in H PROVE Cardinality(Before(i)) \in T
  <2>1. Before(i) \in SUBSET H /\ Before(i) # H
    OBVIOUS
  <2>2. Cardinality(Before(i)) <= Cardinality(H) /\ Cardinality(Before(i)) # Cardinality(H)
    <3> HIDE DEF Before
    <3> QED BY <1>1, <2>1, FS_Subset
  <2> QED BY <1>1, <1>2, <2>2
<1>5. f \in Injection(H, T)
  <2>1. f \in [H -> T]
    BY <1>4
  <2>2. ASSUME NEW i \in H, NEW k \in H, f[i] = f[k] PROVE i = k
    <3>1. i \in Int /\ k \in Int
      OBVIOUS
    <3>2. f[i] = Cardinality(Before(i)) /\ f[k] = Cardinality(Before(k))
      OBVIOUS
    <3>3. ~(i < k) /\ ~(k < i)
      <4>1. Cardinality(Before(i)) = Cardinality(Before(k))
        BY <2>2, <3>2
      <4>2. Cardinality(Before(i)) \in Nat /\ Cardinality(Before(k)) \in Nat
        BY <1>2
      <4>3. i < k => Cardinality(Before(i)) < Cardinality(Before(k))
        BY <1>3
      <4>4. k < i => Cardinality(Before(k)) < Cardinality(Before(i))
        BY <1>3
      <4> HIDE DEF f, Before
      <4> QED BY <4>1, <4>2, <4>3, <4>4
    <3> QED BY <3>1, <3>3
  <2> HIDE DEF f
  <2> QED BY <2>1, <2>2 DEF Injection, IsInjective
<1>6. f \in Surjection(H, T)
  <2>1. IsFiniteSet(T) /\ Cardinality(T) = Cardinality(H)
    BY <1>1, FS_Interval
  <2> HIDE DEF f, T
  <2> QED BY <1>5, <2>1, FS_Injection
<1>7. \E i \in H : Cardinality({j \in H : j < i}) = q
  BY <1>6 DEF Surjection
<1> QED
  BY <1>7 DEF Nth

(* In a whole list the position itself tells how many come before. *)
LEMMA NthOfAll ==
    ASSUME NEW n \in Nat, NEW q \in 0..(n - 1)
    PROVE  Nth(1..n, q) = q + 1
<1>1. Cardinality(1..n) = n
  BY FS_Interval
<1>2. Nth(1..n, q) \in 1..n /\ Cardinality({j \in 1..n : j < Nth(1..n, q)}) = q
  BY <1>1, NthExists
<1>3. PICK i \in 1..n : i = Nth(1..n, q)
  BY <1>2
<1>4. {j \in 1..n : j < i} = 1..(i - 1)
  OBVIOUS
<1>5. Cardinality(1..(i - 1)) = i - 1
  BY FS_Interval
<1>6. i - 1 = q
  BY <1>2, <1>3, <1>4, <1>5
<1> QED
  BY <1>3, <1>6

(* mark_failed finds a proxy, and none before it has the host and port. *)
LEMMA MarkedIsFirst ==
    ASSUME NEW p \in Proxies
    PROVE  /\ Marked(p) \in DOMAIN InOrder
           /\ Host[InOrder[Marked(p)]] = Host[p]
           /\ \A j \in DOMAIN InOrder : Host[InOrder[j]] = Host[p] => Marked(p) <= j
<1> DEFINE S == {i \in DOMAIN InOrder : Host[InOrder[i]] = Host[p]}
           R == OpToRel(<, Nat)
<1>1. IsWellFoundedOn(R, Nat)
  BY NatLessThanWellFounded
<1>2. InOrder \in Seq(Proxies)
  BY ProxyAssumption DEF InOrder
<1>3. S \in SUBSET Nat
  BY <1>2
<1>4. S # {}
  BY DEF Proxies, InOrder, ToSet
<1>5. PICK d \in S : \A m \in S : ~ (<<m, d>> \in R)
  <2> HIDE DEF R, S
  <2> QED BY <1>1, <1>3, <1>4, WFMin
<1>6. \A m \in S : d =< m
  <2>1. TAKE m \in S
  <2>2. m \in Nat /\ d \in Nat
    BY <1>3
  <2>3. ~(m < d)
    BY <1>5, <2>2 DEF OpToRel
  <2> QED BY <2>2, <2>3
<1>7. Marked(p) = Min(S)
  BY DEF Marked
<1>8. Min(S) \in S /\ \A m \in S : Min(S) =< m
  <2> HIDE DEF S
  <2> QED BY <1>6 DEF Min
<1> QED
  BY <1>7, <1>8


LEMMA ModulusBounds ==
    ASSUME NEW a \in Nat, NEW n \in Nat, n > 0
    PROVE  a % n \in 0..(n - 1)
OBVIOUS

(* One further, around the end of a list of at least two, is elsewhere. *)
LEMMA NextIsAnother ==
    ASSUME NEW n \in Nat, n > 1, NEW a \in 1..n
    PROVE  (a % n) + 1 \in 1..n /\ (a % n) + 1 # a
<1>1. CASE a < n
  <2>1. a % n = a
    BY <1>1
  <2> QED BY <1>1, <2>1
<1>2. CASE a = n
  <2>1. n % n = 0
    OBVIOUS
  <2> QED BY <1>2, <2>1
<1> QED BY <1>1, <1>2

(* A primary proxy that shares its host and port with an earlier one.       *)
Shadowed(j) == \E i \in DOMAIN Primary : i < j /\ Host[Primary[i]] = Host[Primary[j]]

Unreported == \A p \in Proxies : reported[p] = 0

(* Proxies fail by reports only, and a shadowed one never does.             *)
FailuresReported ==
    /\ now \in Nat \ {0}
    /\ failure \in [Proxies -> Nat] /\ reported \in [Proxies -> Nat]
    /\ index \in [Pools \X Domains -> Nat]
    /\ Unreported => \A p \in Proxies : failure[p] = 0
    /\ \A j \in DOMAIN Primary : Shadowed(j) => failure[Primary[j]] = 0

(* The proxy of a domain's last client is where the domain's index stands.  *)
IndexAtLast ==
    Unreported /\ Len(Primary) > 1 =>
        \A i \in DOMAIN clients :
            (\A j \in DOMAIN clients : clients[j].domain = clients[i].domain => j <= i) =>
                /\ index[<<"primary", clients[i].domain>>] \in 1..Len(Primary)
                /\ clients[i].proxy = Primary[index[<<"primary", clients[i].domain>>]]

PInv == FailuresReported /\ IndexAtLast /\ RotationMovesOn /\ FailoverUnreachable

LEMMA PoolsListed ==
    /\ Primary \in Seq(Proxies) /\ Len(Primary) \in Nat /\ DOMAIN Primary = 1..Len(Primary)
    /\ \A i, j \in DOMAIN Primary : Primary[i] = Primary[j] => i = j
    /\ \A j \in DOMAIN Primary : j \in DOMAIN InOrder /\ InOrder[j] = Primary[j]
    /\ \A i, j \in DOMAIN InOrder : InOrder[i] = InOrder[j] => i = j
    /\ \A j \in DOMAIN InOrder : InOrder[j] \in Proxies
<1>1. Primary \in Seq(Proxies) /\ Secondary \in Seq(Proxies) /\ IsInjective(InOrder)
  BY ProxyAssumption DEF InOrder
<1>2. /\ InOrder \in Seq(Proxies)
      /\ \A j \in DOMAIN Primary : j \in DOMAIN InOrder /\ InOrder[j] = Primary[j]
  BY <1>1 DEF InOrder
<1>3. \A i, j \in DOMAIN InOrder : InOrder[i] = InOrder[j] => i = j
  BY <1>1 DEF IsInjective
<1> QED
  BY <1>1, <1>2, <1>3

(* The primary pool serves while one of its proxies is healthy. *)
LEMMA PrimaryServes ==
    ASSUME FailuresReported, NEW d \in Domains, Healthy("primary") # {}
    PROVE  /\ Serving = {"primary"}
           /\ Position("primary", d) \in 0..(Cardinality(Healthy("primary")) - 1)
           /\ ProxyFor(d) = Primary[Nth(Healthy("primary"), Position("primary", d))]
           /\ ProxyFor(d) \in ToSet(Primary)
<1>1. Serving = {"primary"}
  BY DEF Serving
<1> PICK H \in SUBSET (1..Len(Primary)) : H = Healthy("primary")
  BY PoolsListed DEF Healthy, Listed
<1>2. Cardinality(H) \in Nat /\ Cardinality(H) > 0
  <2>1. IsFiniteSet(1..Len(Primary))
    BY PoolsListed, FS_Interval
  <2>2. IsFiniteSet(H)
    BY <2>1, FS_Subset
  <2>3. Cardinality(H) \in Nat
    BY <2>2, FS_CardinalityType
  <2>4. Cardinality(H) # 0
    BY <2>2, FS_EmptySet
  <2> QED BY <2>3, <2>4
<1>3. index[<<"primary", d>>] \in Nat
  BY DEF FailuresReported, Pools
<1>4. Position("primary", d) \in 0..(Cardinality(H) - 1)
  <2>1. PICK a \in Nat : a = index[<<"primary", d>>]
    BY <1>3
  <2> QED BY <1>2, <2>1, ModulusBounds DEF Position
<1>5. ProxyFor(d) = Primary[Nth(Healthy("primary"), Position("primary", d))]
  BY <1>1 DEF ProxyFor, Listed
<1>6. Nth(H, Position("primary", d)) \in DOMAIN Primary
  <2>1. PICK q \in 0..(Cardinality(H) - 1) : q = Position("primary", d)
    BY <1>4
  <2>2. Nth(H, q) \in H
    BY PoolsListed, NthExists
  <2> QED BY <2>1, <2>2, PoolsListed
<1> QED
  BY <1>1, <1>4, <1>5, <1>6 DEF ToSet

(* While nothing is reported the primary proxies come round in turn. *)
LEMMA RoundRobin ==
    ASSUME FailuresReported, Unreported, Len(Primary) > 1, NEW d \in Domains, Turn(d)
    PROVE  /\ index'[<<"primary", d>>] = (index[<<"primary", d>>] % Len(Primary)) + 1
           /\ index'[<<"primary", d>>] \in 1..Len(Primary)
           /\ ProxyFor(d) = Primary[index'[<<"primary", d>>]]
           /\ \A e \in Domains \ {d} : index'[<<"primary", e>>] = index[<<"primary", e>>]
<1>1. Healthy("primary") = 1..Len(Primary)
  BY PoolsListed DEF FailuresReported, Healthy, Listed, Recovered
<1>2. Healthy("primary") # {} /\ Cardinality(Healthy("primary")) = Len(Primary)
  <2>1. PICK n \in Nat : n = Len(Primary)
    BY PoolsListed
  <2>2. Cardinality(1..n) = n
    BY FS_Interval
  <2>3. 1 \in 1..n
    BY <2>1
  <2> QED BY <1>1, <2>1, <2>2, <2>3
<1> DEFINE q == Position("primary", d)
<1>3. /\ Serving = {"primary"} /\ q \in 0..(Len(Primary) - 1)
      /\ ProxyFor(d) = Primary[Nth(1..Len(Primary), q)]
  BY <1>1, <1>2, PrimaryServes
<1>4. Nth(1..Len(Primary), q) = q + 1
  <2>1. PICK k \in 0..(Len(Primary) - 1) : k = q
    BY <1>3
  <2>2. Nth(1..Len(Primary), k) = k + 1
    BY PoolsListed, NthOfAll
  <2> QED BY <2>1, <2>2
<1>5. /\ DOMAIN index = Pools \X Domains
      /\ \A e \in Domains : <<"primary", e>> \in Pools \X Domains
  BY DEF FailuresReported, Pools
<1>6. /\ index'[<<"primary", d>>] = q + 1
      /\ \A e \in Domains \ {d} : index'[<<"primary", e>>] = index[<<"primary", e>>]
  BY <1>3, <1>5 DEF Turn
<1>7. q = index[<<"primary", d>>] % Len(Primary)
  BY <1>2 DEF Position
<1> QED
  BY <1>3, <1>4, <1>6, <1>7, PoolsListed


(* Every client keeps its domain and its proxy, and none is made.           *)
ClientsKept ==
    /\ DOMAIN clients' = DOMAIN clients
    /\ \A i \in DOMAIN clients :
         clients'[i].domain = clients[i].domain /\ clients'[i].proxy = clients[i].proxy

(* Nothing of what PInv says of the clients changes while they are kept.    *)
LEMMA KeptClients ==
    ASSUME IInv, PInv, ClientsKept, Unreported' => Unreported, UNCHANGED index
    PROVE  (IndexAtLast /\ RotationMovesOn /\ FailoverUnreachable)'
<1>1. IndexAtLast'
  BY DEF PInv, ClientsKept, IndexAtLast
<1>2. RotationMovesOn'
  <2> SUFFICES ASSUME NEW i \in DOMAIN clients, NEW j \in DOMAIN clients, i < j,
                      {k \in (i + 1)..(j - 1) : clients'[k].domain = clients'[i].domain} = {},
                      clients'[i].domain = clients'[j].domain, Unreported', Len(Primary) > 1
               PROVE  clients'[i].proxy # clients'[j].proxy
    BY DEF RotationMovesOn, ClientsKept, Unreported
  <2>1. \A k \in (i + 1)..(j - 1) : k \in DOMAIN clients
    <3> PICK S : clients \in Seq(S)
      BY DEF IInv, RegistrySound
    <3> QED OBVIOUS
  <2> QED
    BY <2>1 DEF PInv, RotationMovesOn, ClientsKept, Unreported
<1>3. FailoverUnreachable'
  BY DEF PInv, ClientsKept, FailoverUnreachable
<1> QED
  BY <1>1, <1>2, <1>3


LEMMA AdvanceKeeps ==
    ASSUME IInv, NEW pos \in Nat, NEW size \in Nat, Advance(pos, size)
    PROVE  ClientsKept
<1>1. CASE UNCHANGED clients
  BY <1>1 DEF ClientsKept
<1>2. CASE Len(registry) = size /\ pos < size
           /\ clients' = [clients EXCEPT ![registry[pos + 1]].open = FALSE]
  <2>1. registry[pos + 1] \in DOMAIN clients
    BY <1>2 DEF IInv, RegistrySound
  <2> PICK j \in DOMAIN clients : j = registry[pos + 1]
    BY <2>1
  <2>2. IsClient(clients[j])
    BY DEF IInv, RegistrySound
  <2>3. clients' = [clients EXCEPT ![j] = [clients[j] EXCEPT !.open = FALSE]]
    BY <1>2
  <2> QED
    BY <2>2, <2>3 DEF ClientsKept, IsClient
<1> QED
  BY <1>1, <1>2 DEF Advance

(* A report marks the first proxy with the host and port, which nothing     *)
(* shadows.                                                                 *)
LEMMA ReportStep ==
    ASSUME IInv, PInv, NEW p \in Proxies, MarkFailed(p)
    PROVE  PInv'
<1>1. FailuresReported'
  <2>1. InOrder[Marked(p)] \in Proxies
    BY MarkedIsFirst, PoolsListed
  <2>2. /\ failure' \in [Proxies -> Nat] /\ reported' \in [Proxies -> Nat]
        /\ UNCHANGED <<now, index>> /\ reported'[p] # 0
    BY <2>1 DEF MarkFailed, PInv, FailuresReported
  <2>3. ASSUME NEW j \in DOMAIN Primary, Shadowed(j) PROVE failure'[Primary[j]] = 0
    <3>1. PICK i \in DOMAIN Primary : i < j /\ Host[Primary[i]] = Host[Primary[j]]
      BY <2>3 DEF Shadowed
    <3>2. InOrder[Marked(p)] # Primary[j]
      <4> SUFFICES ASSUME InOrder[Marked(p)] = Primary[j] PROVE FALSE
        OBVIOUS
      <4>1. Marked(p) = j /\ Host[Primary[j]] = Host[p]
        BY PoolsListed, MarkedIsFirst
      <4>2. Marked(p) <= i
        BY <3>1, <4>1, PoolsListed, MarkedIsFirst
      <4> QED BY <3>1, <4>1, <4>2, PoolsListed
    <3> QED
      BY <2>1, <2>3, <3>2, PoolsListed DEF MarkFailed, PInv, FailuresReported
  <2> QED
    BY <2>2, <2>3 DEF PInv, FailuresReported, Unreported, Shadowed
<1>2. ClientsKept /\ UNCHANGED index /\ ~Unreported'
  BY DEF MarkFailed, PInv, FailuresReported, ClientsKept, Unreported
<1> QED
  BY <1>1, <1>2, KeptClients DEF PInv

(* Looking for a healthy proxy only ever heals. *)
LEMMA RecoverHeals ==
    ASSUME FailuresReported, NEW d \in Domains, Recover, Turn(d), UNCHANGED <<now, reported>>
    PROVE  FailuresReported'
<1>1. failure' \in [Proxies -> Nat] /\ \A p \in Proxies : failure[p] = 0 => failure'[p] = 0
  BY DEF FailuresReported, Recover
<1>2. index' \in [Pools \X Domains -> Nat]
  <2>1. ASSUME NEW pool \in Pools, pool \in Serving PROVE Position(pool, d) + 1 \in Nat
    <3> PICK H \in SUBSET (DOMAIN Listed(pool)) : H = Healthy(pool)
      BY DEF Healthy
    <3>1. PICK n \in Nat : DOMAIN Listed(pool) = 1..n
      BY ProxyAssumption DEF Listed
    <3>2. IsFiniteSet(H)
      <4>1. IsFiniteSet(1..n)
        BY FS_Interval
      <4> QED BY <3>1, <4>1, FS_Subset
    <3>3. H # {}
      BY <2>1 DEF Serving
    <3>4. Cardinality(H) \in Nat /\ Cardinality(H) # 0
      BY <3>2, <3>3, FS_CardinalityType, FS_EmptySet
    <3>5. PICK a \in Nat : a = index[<<pool, d>>]
      BY DEF FailuresReported
    <3>6. a % Cardinality(H) \in 0..(Cardinality(H) - 1)
      BY <3>4, ModulusBounds
    <3> QED BY <3>4, <3>5, <3>6 DEF Position
  <2>2. DOMAIN index = Pools \X Domains /\ \A k \in Pools \X Domains : index[k] \in Nat
    BY DEF FailuresReported
  <2>3. \A k \in Pools \X Domains :
          (IF k[1] \in Serving /\ k[2] = d THEN Position(k[1], d) + 1 ELSE index[k]) \in Nat
    BY <2>1, <2>2
  <2> QED BY <2>2, <2>3 DEF Turn
<1>3. now' \in Nat \ {0} /\ reported' \in [Proxies -> Nat] /\ (Unreported' => Unreported)
  BY DEF FailuresReported, Unreported
<1>4. Unreported' => \A p \in Proxies : failure'[p] = 0
  BY <1>1, <1>3 DEF FailuresReported
<1>5. \A j \in DOMAIN Primary : Shadowed(j) => failure'[Primary[j]] = 0
  BY <1>1, PoolsListed DEF FailuresReported
<1> QED
  BY <1>1, <1>2, <1>3, <1>4, <1>5 DEF FailuresReported, Shadowed


(* A new client goes to the proxy after the one its domain had last.        *)
LEMMA CreateStep ==
    ASSUME IInv, PInv, NEW r \in Requests, NEW d \in Domains, Create(r, d)
    PROVE  PInv'
<1> PICK new \in {[domain |-> d, proxy |-> ProxyFor(d), open |-> TRUE]} :
        clients' = Append(clients, new)
  BY DEF Create
<1>1. new.domain = d /\ new.proxy = ProxyFor(d)
  OBVIOUS
<1> PICK S : clients \in Seq(S)
  BY DEF IInv, RegistrySound
<1> PICK n \in Nat : n = Len(clients)
  OBVIOUS
<1>2. /\ DOMAIN clients = 1..n /\ DOMAIN clients' = 1..(n + 1)
      /\ clients'[n + 1] = new /\ \A i \in 1..n : clients'[i] = clients[i]
  <2>1. clients \in Seq(S \cup {new})
    BY SeqMonotonic
  <2> QED
    BY <2>1, AppendProperties
<1>3. Turn(d) /\ Recover /\ UNCHANGED <<now, reported>>
  BY DEF Create
<1>4. FailuresReported /\ FailuresReported'
  BY <1>3, RecoverHeals DEF PInv
<1>5. /\ \A i \in 1..n : clients[i].domain \in Domains
      /\ Unreported' => Unreported
  BY <1>2, <1>3 DEF IInv, RegistrySound, IsClient, Unreported
<1>6. ASSUME Unreported, Len(Primary) > 1
      PROVE  /\ index'[<<"primary", d>>] = (index[<<"primary", d>>] % Len(Primary)) + 1
             /\ index'[<<"primary", d>>] \in 1..Len(Primary)
             /\ new.proxy = Primary[index'[<<"primary", d>>]]
             /\ \A e \in Domains \ {d} : index'[<<"primary", e>>] = index[<<"primary", e>>]
  BY <1>1, <1>3, <1>4, <1>6, RoundRobin
<1>7. IndexAtLast'
  <2> SUFFICES ASSUME Unreported, Len(Primary) > 1, NEW i \in 1..(n + 1),
                      \A j \in 1..(n + 1) : clients'[j].domain = clients'[i].domain => j <= i
               PROVE  /\ index'[<<"primary", clients'[i].domain>>] \in 1..Len(Primary)
                      /\ clients'[i].proxy = Primary[index'[<<"primary", clients'[i].domain>>]]
    BY <1>2, <1>5 DEF IndexAtLast
  <2>1. CASE i = n + 1
    BY <1>1, <1>2, <1>6, <2>1
  <2>2. CASE i \in 1..n
    <3>1. clients[i].domain \in Domains \ {d}
      <4>1. n + 1 \in 1..(n + 1) /\ ~(n + 1 <= i)
        BY <2>2
      <4>2. clients'[i].domain # d
        BY <1>1, <1>2, <4>1
      <4> QED BY <1>2, <1>5, <2>2, <4>2
    <3>2. \A j \in 1..n : clients[j].domain = clients[i].domain => j <= i
      BY <1>2, <2>2
    <3>3. /\ index[<<"primary", clients[i].domain>>] \in 1..Len(Primary)
          /\ clients[i].proxy = Primary[index[<<"primary", clients[i].domain>>]]
      BY <1>2, <2>2, <3>2 DEF PInv, IndexAtLast
    <3> QED BY <1>2, <1>6, <2>2, <3>1, <3>3
  <2>3. i \in 1..n \/ i = n + 1
    OBVIOUS
  <2> QED BY <2>1, <2>2, <2>3
<1>8. RotationMovesOn'
  <2> SUFFICES ASSUME NEW i \in DOMAIN clients', NEW j \in DOMAIN clients', i < j,
                      {k \in (i + 1)..(j - 1) : clients'[k].domain = clients'[i].domain} = {},
                      clients'[i].domain = clients'[j].domain, Unreported', Len(Primary) > 1
               PROVE  clients'[i].proxy # clients'[j].proxy
    BY DEF RotationMovesOn, Unreported
  <2>0. i \in 1..(n + 1) /\ j \in 1..(n + 1)
    BY <1>2
  <2>1. CASE j \in 1..n
    <3>1. i \in 1..n /\ \A k \in (i + 1)..(j - 1) : k \in 1..n
      BY <2>0, <2>1
    <3>2. {k \in (i + 1)..(j - 1) : clients[k].domain = clients[i].domain} = {}
      BY <1>2, <3>1
    <3>3. i \in DOMAIN clients /\ j \in DOMAIN clients /\ Unreported
      BY <1>2, <1>5, <2>1, <3>1
    <3>4. clients'[i] = clients[i] /\ clients'[j] = clients[j]
      BY <1>2, <2>1, <3>1
    <3>5. clients[i].proxy # clients[j].proxy
      BY <3>2, <3>3, <3>4 DEF PInv, RotationMovesOn, Unreported
    <3> QED
      BY <3>4, <3>5
  <2>2. CASE j = n + 1
    <3>1. i \in 1..n /\ clients[i].domain = d
      BY <1>1, <1>2, <2>0, <2>2
    <3>2. ASSUME NEW k \in 1..n, clients[k].domain = d PROVE k <= i
      <4> SUFFICES ASSUME k > i PROVE FALSE
        OBVIOUS
      <4>1. k \in (i + 1)..(j - 1)
        BY <2>2, <3>1
      <4> QED BY <1>2, <3>1, <3>2, <4>1
    <3>3. /\ index[<<"primary", d>>] \in 1..Len(Primary)
          /\ clients[i].proxy = Primary[index[<<"primary", d>>]]
      BY <1>2, <1>5, <3>1, <3>2 DEF PInv, IndexAtLast
    <3> PICK a \in 1..Len(Primary) : a = index[<<"primary", d>>]
      BY <3>3
    <3> PICK m \in Nat : m = Len(Primary)
      BY PoolsListed
    <3>4. (a % m) + 1 \in 1..m /\ (a % m) + 1 # a
      BY NextIsAnother
    <3>5. new.proxy = Primary[(a % m) + 1]
      BY <1>5, <1>6
    <3>6. Primary[(a % m) + 1] # Primary[a]
      BY <3>4, PoolsListed
    <3> QED BY <1>2, <2>2, <3>1, <3>3, <3>5, <3>6
  <2>3. j \in 1..n \/ j = n + 1
    BY <2>0
  <2> QED BY <2>1, <2>2, <2>3
<1>9. FailoverUnreachable'
  <2> SUFFICES ASSUME NEW j \in DOMAIN Primary, Shadowed(j), NEW i \in 1..(n + 1)
               PROVE  clients'[i].proxy \in ToSet(Primary)
    BY <1>2 DEF FailoverUnreachable, Shadowed
  <2>1. CASE i \in 1..n
    BY <1>2, <2>1 DEF PInv, FailoverUnreachable, Shadowed
  <2>2. CASE i = n + 1
    <3>1. j \in Healthy("primary")
      BY <1>4 DEF Healthy, Listed, Recovered, FailuresReported
    <3> QED BY <1>1, <1>2, <1>4, <2>2, <3>1, PrimaryServes
  <2> QED BY <2>1, <2>2
<1> QED
  BY <1>4, <1>7, <1>8, <1>9 DEF PInv

LEMMA PoolInvariant == Spec => []PInv
<1>1. Init => PInv
  <2> SUFFICES ASSUME Init PROVE PInv
    OBVIOUS
  <2>1. FailuresReported
    BY PoolsListed DEF Init, FailuresReported
  <2>2. DOMAIN clients = {}
    BY DEF Init
  <2>3. IndexAtLast /\ RotationMovesOn /\ FailoverUnreachable
    BY <2>2 DEF IndexAtLast, RotationMovesOn, FailoverUnreachable
  <2> QED BY <2>1, <2>3 DEF PInv
<1>2. IInv /\ PInv /\ [Next]_vars => PInv'
  <2> SUFFICES ASSUME IInv, PInv, [Next]_vars PROVE PInv'
    OBVIOUS
  <2>1. ASSUME ClientsKept, UNCHANGED <<poolVars, reported>>, now' \in Nat \ {0} PROVE PInv'
    <3>1. FailuresReported'
      BY <2>1 DEF PInv, FailuresReported, Unreported, Shadowed, poolVars
    <3>2. (Unreported' => Unreported) /\ UNCHANGED index
      BY <2>1 DEF Unreported, poolVars
    <3> QED BY <2>1, <3>1, <3>2, KeptClients DEF PInv
  <2>2. now \in Nat \ {0} /\ now + 1 \in Nat \ {0}
    BY DEF PInv, FailuresReported
  <2>3. ASSUME NEW r \in Requests, Answered(r) PROVE PInv'
    BY <2>1, <2>2, <2>3 DEF Answered, ClientsKept
  <2>4. ASSUME NEW r \in Requests, NEW d \in Domains, Reuse(r, d) PROVE PInv'
    BY <2>1, <2>2, <2>4 DEF Reuse, ClientsKept
  <2>5. ASSUME NEW r \in Requests, NEW d \in Domains, Create(r, d) PROVE PInv'
    BY <2>5, CreateStep
  <2>6. ASSUME NEW p \in Proxies, MarkFailed(p) PROVE PInv'
    BY <2>6, ReportStep
  <2>7. ASSUME CloseAll PROVE PInv'
    <3> PICK size \in Nat : size = Len(registry)
      BY DEF IInv, RegistrySound
    <3>1. ClientsKept
      BY <2>7, AdvanceKeeps DEF CloseAll
    <3> QED BY <2>1, <2>2, <2>7, <3>1 DEF CloseAll
  <2>8. ASSUME CloseNext PROVE PInv'
    <3> PICK pos \in Nat, size \in Nat : pos = closing.pos /\ size = closing.size
      BY <2>8 DEF CloseNext, IInv, ClosedBehind
    <3>1. ClientsKept
      BY <2>8, AdvanceKeeps DEF CloseNext
    <3> QED BY <2>1, <2>2, <2>8, <3>1 DEF CloseNext
  <2>9. ASSUME Tick PROVE PInv'
    BY <2>1, <2>2, <2>9 DEF Tick, ClientsKept
  <2>10. ASSUME UNCHANGED vars PROVE PInv'
    BY <2>1, <2>2, <2>10 DEF vars, ClientsKept
  <2> QED
    BY <2>3, <2>4, <2>5, <2>6, <2>7, <2>8, <2>9, <2>10 DEF Next
<1> QED
  BY <1>1, <1>2, InvariantHolds, PTL DEF Spec

(* While no failure is reported, a domain that gets a client again gets     *)
(* another proxy than the time before, for every length of the primary list *)
(* and whatever other domains ask for in between.                           *)
THEOREM DomainsRotate == Spec => []RotationMovesOn
<1>1. PInv => RotationMovesOn
  BY DEF PInv
<1> QED
  BY <1>1, PoolInvariant, PTL

(* Primary proxies that share a host and port keep the secondary pool from  *)
(* ever being used, whatever is reported.                                   *)
THEOREM SharedHostBlocksFailover == Spec => []FailoverUnreachable
<1>1. PInv => FailoverUnreachable
  BY DEF PInv
<1> QED
  BY <1>1, PoolInvariant, PTL

=============================================================================
