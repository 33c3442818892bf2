---------------------------- MODULE MCStateStore ----------------------------
(* Model-checking instance of StateStore: processes, phases and inodes are   *)
(* interchangeable, and no run with this symmetry checks liveness.           *)
EXTENDS StateStore, TLC

Symmetry == Permutations(Proc) \cup Permutations(Inode) \cup Permutations(Phase)
=============================================================================
