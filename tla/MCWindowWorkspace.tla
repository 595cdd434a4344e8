------------------------- MODULE MCWindowWorkspace -------------------------
(* Small instances of WindowWorkspace for TLC.                              *)
EXTENDS WindowWorkspace, TLC

(* Command slots and local root ids are interchangeable: nothing in the     *)
(* module orders them.                                                      *)
Symmetric == Permutations(Calls) \cup Permutations(LocalRoots)
=============================================================================
