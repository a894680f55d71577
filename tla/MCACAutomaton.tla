--------------------------- MODULE MCACAutomaton ---------------------------
(* Small instance of ACAutomaton for TLC: the bounds are in the .cfg.      *)
EXTENDS ACAutomaton

(* The characters are interchangeable.                                     *)
Symmetry == Permutations(Alphabet)
=============================================================================
