--------------------------- MODULE MCRateLimiter ---------------------------
(* RateLimiter with two worker processes; the first runs all callers but    *)
(* one.                                                                     *)
EXTENDS RateLimiter

CONSTANTS c1, p1, p2

MCProcessOf == [c \in Callers |-> IF c = c1 THEN p2 ELSE p1]
=============================================================================
