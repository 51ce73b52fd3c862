-------------------------- MODULE MCConfigDelivery --------------------------
(* Instances of ConfigDelivery for TLC.                                    *)
EXTENDS ConfigDelivery, TLC

CONSTANTS put1, put2, reconciler, mine, group

RequestSymmetry == Permutations(Requests)
=============================================================================
