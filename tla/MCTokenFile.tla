----------------------------- MODULE MCTokenFile -----------------------------
(***************************************************************************)
(* Instances of TokenFile for TLC.                                         *)
(***************************************************************************)
EXTENDS TokenFile, TLC

Symmetry == Permutations(Readers)
=============================================================================
