----------------------------- MODULE ApiServer -----------------------------
(***************************************************************************)
(* The replicas of the API (src/api/): each holds the approval tasks of    *)
(* module ApprovalGate in its memory, and one of them, HubReplica, is      *)
(* shown with the WebSocket hub of module StreamHub.  The hubs of the      *)
(* others are alike and share nothing with it.  A replica that restarts    *)
(* loses its tasks and its connections together.                           *)
(***************************************************************************)
EXTENDS ApprovalGate

CONSTANTS Connections, Broadcasts, HubReplica

ASSUME ServerAssumption == HubReplica \in Replicas /\ IsFiniteSet(Connections)

VARIABLES client, active, cursor, sent, present, departures

Hub == INSTANCE StreamHub

hubVars == <<client, active, cursor, sent, present, departures>>
serverVars == <<vars, hubVars>>

ServerInit == Init /\ Hub!Init

RestartReplica(r) ==
    /\ Restart(r)
    /\ IF r = HubReplica THEN Hub!Shutdown ELSE UNCHANGED hubVars

ServerNext ==
    \/ Step /\ UNCHANGED hubVars
    \/ Hub!Step /\ UNCHANGED vars
    \/ \E r \in Replicas : RestartReplica(r)

ServerSpec == ServerInit /\ [][ServerNext]_serverVars

(* The properties of the hub, while its replica serves approvals too. *)
AtMostOnce == Hub!AtMostOnce
LossBounded == Hub!LossBounded
=============================================================================
