---------------------------- MODULE MCUnderwriter ----------------------------
(* A small instance of Underwriter for TLC. *)
EXTENDS Underwriter

CONSTANTS s1, s2

\* The listener stores the first swap again.
SavedSwaps == <<s1, s2, s1>>

CostOf == [s \in Swaps |-> IF s = s1 THEN 2 ELSE 1]
AmountWithBuffer == [s \in Swaps |-> CostOf[s] + 1]
=============================================================================
