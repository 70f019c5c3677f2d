-------------------------- MODULE MCChangeTracking --------------------------
(* Small instances of ChangeTracking for TLC.                              *)
EXTENDS ChangeTracking, TLC

CONSTANTS w1, w2

Symmetry == Permutations(Writers)
=============================================================================
