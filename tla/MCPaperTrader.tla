--------------------------- MODULE MCPaperTrader --------------------------
(* Root module for checking PaperTrader.                                   *)
EXTENDS PaperTrader
===========================================================================
