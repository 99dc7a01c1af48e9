--------------------------- MODULE MCProxySession ---------------------------
(* ProxySession with two primary proxies, which share the host and port as  *)
(* all of BrightData's do, and a secondary one with its own.                *)
EXTENDS ProxySession, TLC

CONSTANTS brd1, brd2, smart

MCPrimary == <<brd1, brd2>>
MCSecondary == <<smart>>
MCHost == [p \in Proxies |-> IF p = smart THEN "gate.smartproxy.com" ELSE "brd.superproxy.io"]

ProxySymmetry == Permutations(Domains) \cup Permutations(Requests)
=============================================================================
