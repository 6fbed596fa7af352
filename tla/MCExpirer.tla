------------------------------ MODULE MCExpirer ------------------------------
(* Small instances of Expirer for TLC. *)
EXTENDS Expirer

CONSTANT u1

\* All swaps are underwritten with the same id.
UnderwriteOfSwap(s) == u1

\* A chain whose contracts observe its own blocks, and an L2 with an L1 block every two blocks.
SameBlock(b) == b
BlockOfL1(b) == (b + 1) \div 2
=============================================================================
