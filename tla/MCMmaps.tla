------------------------------ MODULE MCMmaps ------------------------------
(***************************************************************************)
(* A small machine for TLC: pages of 16 bytes.                             *)
(***************************************************************************)
EXTENDS MmapsProps, TLC

Symmetry == Permutations(THREADS)
=============================================================================
