------------------------------ MODULE MCErasure ------------------------------
(* Instances of Erasure for TLC.                                           *)
EXTENDS Erasure, TLC

CONSTANTS coordinator, admin, admin2

AdminSymmetry == Permutations(Admins)
=============================================================================
