----------------------------- MODULE MCApiServer -----------------------------
(* ApiServer on two replicas.                                               *)
EXTENDS ApiServer, TLC

ServerSymmetry == Permutations(Items) \cup Permutations(Connections)
=============================================================================
