--------------------------- MODULE MCRestoreSwap ---------------------------
(* The data at hand and two backups: one with its keys, from this host or   *)
(* from another, whose PDF has the name of one at hand, so that a move can   *)
(* meet a file of the same name; and an old one of this host with neither    *)
(* keys nor PDFs.                                                            *)
EXTENDS RestoreSwap
MCInventory == [s \in DataSets |-> CASE s = 0 -> {"a", "b"} [] s = 1 -> {"a"} [] s = 2 -> {}]
MCSources == [b \in Backups |-> IF b \in Keyed THEN {"local", "inbox"} ELSE {"local"}]
=============================================================================
