------------------------------ MODULE StreamHub ------------------------------
(***************************************************************************)
(* The WebSocket hub of one API process (src/api/websocket.py): the        *)
(* ConnectionManager with its list of connections, the handlers of the     *)
(* endpoint that register and deregister them, and broadcasts, which       *)
(* suspend at every send while the list they iterate over changes.         *)
(* Nothing in the repository calls broadcast yet; the model calls it       *)
(* whenever it likes.                                                      *)
(*                                                                         *)
(* The handlers' own three messages go to one connection each and are left *)
(* out.                                                                    *)
(***************************************************************************)
EXTENDS Integers, FiniteSets, Sequences, SequencesExt

CONSTANTS Connections, Broadcasts

VARIABLES
    client,     \* the state of each connection's handler
    active,     \* active_connections
    cursor,     \* broadcast -> its stage and the position of its iterator
    sent,       \* broadcast -> connection -> how many sends to it succeeded
    present,    \* history: broadcast -> those registered throughout it so far
    departures  \* history: broadcast -> the removals from the list during it

hubVars == <<client, active, cursor, sent, present, departures>>

TypeOK ==
    /\ client \in [Connections -> {"new", "open", "left", "dropped"}]
    /\ active \in Seq(Connections)
    /\ cursor \in [Broadcasts -> [stage : {"ready", "sending", "done", "raised"}, at : Nat]]
    /\ sent \in [Broadcasts -> [Connections -> Nat]]
    /\ present \in [Broadcasts -> SUBSET Connections]
    /\ departures \in [Broadcasts -> Nat]

Init ==
    /\ client = [c \in Connections |-> "new"]
    /\ active = <<>>
    /\ cursor = [b \in Broadcasts |-> [stage |-> "ready", at |-> 0]]
    /\ sent = [b \in Broadcasts |-> [c \in Connections |-> 0]]
    /\ present = [b \in Broadcasts |-> {}]
    /\ departures = [b \in Broadcasts |-> 0]

Running(b) == cursor[b].stage = "sending"

-----------------------------------------------------------------------------
(* Faulty variant: the newest connection comes first.                      *)
RegisterFirst(c) == active' = <<c>> \o active

(* connect, after the await of accept. *)
Register(c) == active' = Append(active, c)

Connect(c) ==
    /\ client[c] = "new"
    /\ client' = [client EXCEPT ![c] = "open"]
    /\ Register(c)
    /\ UNCHANGED <<cursor, sent, present, departures>>

(* The handler meets WebSocketDisconnect and calls disconnect: the entries  *)
(* behind c move up by one.                                                 *)
Disconnect(c) ==
    /\ client[c] = "open"
    /\ client' = [client EXCEPT ![c] = "left"]
    /\ \E k \in DOMAIN active : active[k] = c /\ active' = RemoveAt(active, k)
    /\ present' = [b \in Broadcasts |-> IF Running(b) THEN present[b] \ {c} ELSE present[b]]
    /\ departures' = [b \in Broadcasts |-> IF Running(b) THEN departures[b] + 1 ELSE departures[b]]
    /\ UNCHANGED <<cursor, sent>>

(* The handler ends by any other exception: the connection stays listed.    *)
Drop(c) ==
    /\ client[c] = "open"
    /\ client' = [client EXCEPT ![c] = "dropped"]
    /\ UNCHANGED <<active, cursor, sent, present, departures>>

(* Faulty variant: the last entry is not reached.                          *)
ExhaustedEarly(at) == at >= Len(active) - 1

(* The list's iterator is past its last entry. *)
Exhausted(at) == at >= Len(active)

(* broadcast, from one await to the next.  The send raises when the socket  *)
(* is closed, whether or not the handler has noticed, and ends broadcast.   *)
Iterate(b, at) ==
    \/ /\ Exhausted(at)
       /\ cursor' = [cursor EXCEPT ![b] = [stage |-> "done", at |-> at]]
       /\ UNCHANGED sent
    \/ /\ ~Exhausted(at) /\ client[active[at + 1]] = "open"
       /\ cursor' = [cursor EXCEPT ![b] = [stage |-> "sending", at |-> at + 1]]
       /\ sent' = [sent EXCEPT ![b][active[at + 1]] = @ + 1]
    \/ /\ ~Exhausted(at)
       /\ cursor' = [cursor EXCEPT ![b] = [stage |-> "raised", at |-> at]]
       /\ UNCHANGED sent

Begin(b) ==
    /\ cursor[b].stage = "ready"
    /\ Iterate(b, 0)
    /\ present' = [present EXCEPT ![b] = {active[k] : k \in DOMAIN active}]
    /\ UNCHANGED <<client, active, departures>>

Resume(b) ==
    /\ Running(b)
    /\ Iterate(b, cursor[b].at)
    /\ UNCHANGED <<client, active, present, departures>>

(* The process stops, with its handlers and broadcasts. *)
Shutdown ==
    /\ client' = [c \in Connections |-> IF client[c] = "new" THEN "new" ELSE "left"]
    /\ active' = <<>>
    /\ cursor' = [b \in Broadcasts |->
                    IF Running(b) THEN [cursor[b] EXCEPT !.stage = "raised"] ELSE cursor[b]]
    /\ UNCHANGED <<sent, present, departures>>

Step ==
    \/ \E c \in Connections : Connect(c) \/ Disconnect(c) \/ Drop(c)
    \/ \E b \in Broadcasts : Begin(b) \/ Resume(b)

Next == Step \/ Shutdown

Spec == Init /\ [][Next]_hubVars

-----------------------------------------------------------------------------
(* Properties. *)

(* A broadcast reaches no client twice, though clients come and go in the   *)
(* list it iterates over.                                                   *)
AtMostOnce == \A b \in Broadcasts, c \in Connections : sent[b][c] <= 1

(* What a broadcast loses: of the connections registered from its begin to  *)
(* its end, one that ends normally passed over at most as many as left      *)
(* meanwhile.                                                               *)
LossBounded ==
    \A b \in Broadcasts :
        cursor[b].stage = "done" =>
            Cardinality({c \in present[b] : sent[b][c] = 0}) <= departures[b]

(* The list holds every connection once whose handler runs, and otherwise   *)
(* only connections whose handler ended without deregistering them.         *)
ListMatchesHandlers ==
    /\ IsInjective(active)
    /\ \A c \in Connections :
         (\E k \in DOMAIN active : active[k] = c) <=> client[c] \in {"open", "dropped"}

(* broadcast's name: a connection that is registered throughout a broadcast *)
(* that ends normally gets its message.                                     *)
ReachesAll ==
    \A b \in Broadcasts :
        cursor[b].stage = "done" => \A c \in present[b] : sent[b][c] = 1
=============================================================================
