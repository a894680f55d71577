---------------------------- MODULE MCGroupStore ----------------------------
(* Small instances of GroupStore for TLC: the bounds are in the .cfg.      *)
EXTENDS GroupStore, TLC

(* Servers, workers, users and groups are interchangeable.                 *)
Symmetry ==
  Permutations(Servers) \cup Permutations(Workers) \cup Permutations(Users)
    \cup Permutations(Groups)
=============================================================================
