------------------------- MODULE MCCloseHandshake --------------------------
(* Small instances of CloseHandshake for TLC.                               *)
EXTENDS CloseHandshake, TLC

(* Request ids are compared for equality only.                              *)
IdSymmetry == Permutations(Ids)
=============================================================================
