------------------------------ MODULE Positions ------------------------------
(***************************************************************************)
(* A list filtered without reordering it, as a comprehension does, given   *)
(* by the set of positions that stay.                                      *)
(***************************************************************************)
EXTENDS Integers, FiniteSets, Sequences

(* The position of I that q others of it precede. *)
Nth(I, q) == CHOOSE i \in I : Cardinality({j \in I : j < i}) = q

(* The elements of seq at the positions I, in the order of seq. *)
Kept(seq, I) == [k \in 1..Cardinality(I) |-> seq[Nth(I, k - 1)]]
=============================================================================
