---------------------------- MODULE MCPaperShelf ----------------------------
(* Instances of PaperShelf for TLC.                                        *)
EXTENDS PaperShelf

CONSTANTS scheduler, handler, request1, request2, paper
=============================================================================
