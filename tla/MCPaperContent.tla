--------------------------- MODULE MCPaperContent ---------------------------
(* Instances of PaperContent for TLC.                                      *)
EXTENDS PaperContent

CONSTANTS first, second, job1, job2, download1, download2
=============================================================================
