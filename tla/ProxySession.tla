---------------------------- MODULE ProxySession ----------------------------
(***************************************************************************)
(* SessionManager over ProxyPoolManager (src/scraping/session_manager.py,  *)
(* src/scraping/proxy_pool.py): the coroutines of one process that send    *)
(* requests through a client per domain, each client bound to a proxy when *)
(* it is made, beside reports of failing proxies and a close_all that      *)
(* awaits every client.                                                    *)
(*                                                                         *)
(* Every proxy of the pools is placed in India, so get_proxy's choice by   *)
(* place never removes one and is left out.                                *)
(***************************************************************************)
EXTENDS Positions, SequencesExt

CONSTANTS
    Domains,
    Requests,    \* the coroutines that call request
    Primary,     \* the list of primary proxies
    Secondary,   \* the list of secondary proxies
    Host,        \* proxy -> its host and port
    NoProxy,
    Cooldown,    \* cooldown_seconds
    MaxTime,     \* bound: the last instant
    MaxClients   \* bound: the clients made

Proxies == ToSet(Primary \o Secondary)

ASSUME ProxyAssumption ==
    /\ Primary \in Seq(Proxies) /\ Secondary \in Seq(Proxies)
    /\ IsInjective(Primary \o Secondary)
    /\ NoProxy \notin Proxies
    /\ {Cooldown, MaxTime, MaxClients} \subseteq Nat

VARIABLES
    now,
    failure,   \* proxy -> last_failure while it is not healthy, 0 otherwise
    index,     \* _domain_index: pool and domain -> the next position
    clients,   \* the clients ever made, with their state
    registry,  \* _clients: the registered ones, in the order of the dictionary
    request,   \* coroutine -> its request
    closing,   \* close_all: the position and the size its iterator noted
    reported,  \* history: proxy -> when its failure was reported last
    broken     \* history: a close_all was broken off

poolVars == <<failure, index>>
vars == <<now, poolVars, clients, registry, request, closing, reported, broken>>

Pools == {"primary", "secondary"}
Client == [domain : Domains, proxy : Proxies \cup {NoProxy}, open : BOOLEAN]
Request == [pc : {"idle", "sending"}, client : 0..MaxClients]
NotClosing == [pc |-> "idle", pos |-> 0, size |-> 0]

TypeOK ==
    /\ now \in 1..MaxTime
    /\ failure \in [Proxies -> 0..MaxTime]
    /\ index \in [Pools \X Domains -> Nat]
    /\ clients \in Seq(Client)
    /\ registry \in Seq(1..Len(clients)) /\ IsInjective(registry)
    /\ request \in [Requests -> Request]
    /\ closing \in [pc : {"idle", "closing"}, pos : 0..MaxClients, size : 0..MaxClients]
    /\ reported \in [Proxies -> 0..MaxTime]
    /\ broken \in BOOLEAN

Init ==
    /\ now = 1
    /\ failure = [p \in Proxies |-> 0]
    /\ index = [k \in Pools \X Domains |-> 0]
    /\ clients = <<>>
    /\ registry = <<>>
    /\ request = [r \in Requests |-> [pc |-> "idle", client |-> 0]]
    /\ closing = NotClosing
    /\ reported = [p \in Proxies |-> 0]
    /\ broken = FALSE

-----------------------------------------------------------------------------
(* check_recovery *)
Recovered(p) == failure[p] = 0 \/ now - failure[p] > Cooldown

(* The positions of a pool's list that pass it, which keep the list's order. *)
Listed(pool) == IF pool = "primary" THEN Primary ELSE Secondary
Healthy(pool) == {i \in DOMAIN Listed(pool) : Recovered(Listed(pool)[i])}

(* get_proxy: the first pool with a healthy proxy. *)
Serving ==
    CASE Healthy("primary") # {} -> {"primary"}
      [] Healthy("primary") = {} /\ Healthy("secondary") # {} -> {"secondary"}
      [] Healthy("primary") = {} /\ Healthy("secondary") = {} -> {}

Position(pool, d) == index[<<pool, d>>] % Cardinality(Healthy(pool))

(* Faulty variant: the position is not moved on.                           *)
TurnToSame(d) == index' = [k \in DOMAIN index |->
    IF k[1] \in Serving /\ k[2] = d THEN Position(k[1], d) ELSE index[k]]

(* get_proxy: the domain's position in the pool moves on. *)
Turn(d) == index' = [k \in DOMAIN index |->
    IF k[1] \in Serving /\ k[2] = d THEN Position(k[1], d) + 1 ELSE index[k]]

(* check_recovery is called on the primary pool, and on the secondary when  *)
(* no primary proxy is healthy.                                             *)
Recover ==
    failure' = [p \in Proxies |->
        IF Recovered(p) /\ (Serving = {"primary"} => p \in ToSet(Primary)) THEN 0 ELSE failure[p]]

(* get_proxy's answer. *)
ProxyFor(d) ==
    IF Serving = {} THEN NoProxy
    ELSE LET pool == CHOOSE q \in Serving : TRUE
         IN  Listed(pool)[Nth(Healthy(pool), Position(pool, d))]

(* The client registered for d, if there is one. *)
Registered(d) == {i \in ToSet(registry) : clients[i].domain = d}

Send(r, i) == request' = [request EXCEPT ![r] = [pc |-> "sending", client |-> i]]

(* request finds the domain's client.  A closed one raises at once. *)
Reuse(r, d) ==
    /\ request[r].pc = "idle"
    /\ \E i \in Registered(d) : clients[i].open /\ Send(r, i)
    /\ UNCHANGED <<now, poolVars, clients, registry, closing, reported, broken>>

(* request makes the domain's client, over the proxy the pool gives, and    *)
(* registers it before the first await.                                     *)
Create(r, d) ==
    /\ request[r].pc = "idle"
    /\ Registered(d) = {}
    /\ Len(clients) < MaxClients
    /\ Turn(d) /\ Recover
    /\ clients' = Append(clients, [domain |-> d, proxy |-> ProxyFor(d), open |-> TRUE])
    /\ registry' = Append(registry, Len(clients) + 1)
    /\ Send(r, Len(clients) + 1)
    /\ UNCHANGED <<now, closing, reported, broken>>

(* The response arrives or the request fails: the caller has no proxy to    *)
(* report, request does not tell it.                                        *)
Answered(r) ==
    /\ request[r].pc = "sending"
    /\ request' = [request EXCEPT ![r] = [pc |-> "idle", client |-> 0]]
    /\ UNCHANGED <<now, poolVars, clients, registry, closing, reported, broken>>

(* The proxies in the order mark_failed passes through them. *)
InOrder == Primary \o Secondary

(* Faulty variant: the proxy that failed is the one found.                 *)
MarkedItself(p) == CHOOSE i \in DOMAIN InOrder : InOrder[i] = p

(* The proxy mark_failed finds: the first one with p's host and port.      *)
Marked(p) == Min({i \in DOMAIN InOrder : Host[InOrder[i]] = Host[p]})

(* mark_failed is called for p. *)
MarkFailed(p) ==
    /\ failure' = [failure EXCEPT ![InOrder[Marked(p)]] = now]
    /\ reported' = [reported EXCEPT ![p] = now]
    /\ UNCHANGED <<now, index, clients, registry, request, closing, broken>>

(* Faulty variant: the iterator does not notice a new client.              *)
AdvanceOver(pos, size) ==
    \/ /\ pos < size
       /\ clients' = [clients EXCEPT ![registry[pos + 1]].open = FALSE]
       /\ closing' = [pc |-> "closing", pos |-> pos + 1, size |-> size]
       /\ UNCHANGED <<registry, broken>>
    \/ /\ pos = size
       /\ registry' = <<>> /\ closing' = NotClosing
       /\ UNCHANGED <<clients, broken>>

(* The next stretch of close_all's loop: a dictionary that grew under its   *)
(* iterator raises; the next client is closed and awaited; after the last   *)
(* one the dictionary is cleared.                                           *)
Advance(pos, size) ==
    \/ /\ Len(registry) # size
       /\ closing' = NotClosing /\ broken' = TRUE
       /\ UNCHANGED <<clients, registry>>
    \/ /\ Len(registry) = size /\ pos < size
       /\ clients' = [clients EXCEPT ![registry[pos + 1]].open = FALSE]
       /\ closing' = [pc |-> "closing", pos |-> pos + 1, size |-> size]
       /\ UNCHANGED <<registry, broken>>
    \/ /\ Len(registry) = size /\ pos = size
       /\ registry' = <<>> /\ closing' = NotClosing
       /\ UNCHANGED <<clients, broken>>

(* close_all, which the application calls once at a time. *)
CloseAll ==
    /\ closing.pc = "idle"
    /\ Advance(0, Len(registry))
    /\ UNCHANGED <<now, poolVars, request, reported>>

CloseNext ==
    /\ closing.pc = "closing"
    /\ Advance(closing.pos, closing.size)
    /\ UNCHANGED <<now, poolVars, request, reported>>

Tick ==
    /\ now < MaxTime
    /\ now' = now + 1
    /\ UNCHANGED <<poolVars, clients, registry, request, closing, reported, broken>>

Next ==
    \/ \E r \in Requests : Answered(r) \/ \E d \in Domains : Reuse(r, d) \/ Create(r, d)
    \/ \E p \in Proxies : MarkFailed(p)
    \/ CloseAll \/ CloseNext
    \/ Tick

Spec == Init /\ [][Next]_vars

-----------------------------------------------------------------------------
(* Properties. *)

(* No open client is lost from the dictionary, though close_all clears it   *)
(* after awaits during which requests register new ones; and no two of them *)
(* are of one domain, so a domain never has more than its connection limit. *)
OpenClientsKnown ==
    /\ \A i \in DOMAIN clients : clients[i].open => i \in ToSet(registry)
    /\ \A i, j \in DOMAIN clients :
         clients[i].open /\ clients[j].open /\ clients[i].domain = clients[j].domain => i = j

(* A domain's registered client is closed, and every request to the domain  *)
(* raises, only while close_all runs or after one was broken off.           *)
DeadClientsExplained ==
    \A i \in ToSet(registry) : ~clients[i].open => closing.pc = "closing" \/ broken

(* Rotation: a domain that gets a client again, while no failure has been   *)
(* reported and there is a choice, gets another proxy than the time before. *)
RotationMovesOn ==
    \A i, j \in DOMAIN clients :
        LET between == {k \in (i + 1)..(j - 1) : clients[k].domain = clients[i].domain}
        IN i < j /\ between = {} /\ clients[i].domain = clients[j].domain
           /\ (\A p \in Proxies : reported[p] = 0) /\ Len(Primary) > 1
           => clients[i].proxy # clients[j].proxy

(* Primary proxies that share a host and port with an earlier one cannot be *)
(* marked.  While there is such a one the primary pool always serves: the   *)
(* failover to the secondary pool never comes and no client goes without a  *)
(* proxy, whatever is reported, recovers or is closed meanwhile.            *)
FailoverUnreachable ==
    (\E i, j \in DOMAIN Primary : i < j /\ Host[Primary[i]] = Host[Primary[j]]) =>
        \A i \in DOMAIN clients : clients[i].proxy \in ToSet(Primary)

Made == Len(clients') > Len(clients)
Failing(p) == p # NoProxy /\ reported[p] # 0 /\ now - reported[p] <= Cooldown

(* "health tracking", the pool's docstring: a proxy whose failure was       *)
(* reported is not given to a new client until its cooldown is over.        *)
HealthTracked == [][Made => ~Failing(clients'[Len(clients')].proxy)]_vars

(* Rotation also while proxies fail and recover: a domain that gets a client *)
(* again, from two or more healthy primary proxies, gets another proxy than  *)
(* the time before.                                                          *)
RotationSurvivesFailures ==
    [][LET new == clients'[Len(clients')]
           before == {i \in DOMAIN clients : clients[i].domain = new.domain}
       IN Made /\ before # {} /\ Cardinality(Healthy("primary")) > 1
              => new.proxy # clients[Max(before)].proxy]_vars

(* The same for what goes out: no request starts on a proxy that was        *)
(* reported and marked and is in its cooldown.                              *)
SendsAvoidFailing ==
    [][\A r \in Requests :
        request[r].pc = "idle" /\ request'[r].pc = "sending" =>
            LET p == clients'[request'[r].client].proxy
            IN p # NoProxy => Recovered(p)]_vars
=============================================================================
