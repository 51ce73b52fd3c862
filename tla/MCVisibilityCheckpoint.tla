----------------------- MODULE MCVisibilityCheckpoint -----------------------
(* Instances of VisibilityCheckpoint for TLC.                              *)
EXTENDS VisibilityCheckpoint

CONSTANTS p1, p2, t1, t2, w1
=============================================================================
