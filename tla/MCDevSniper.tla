---------------------------- MODULE MCDevSniper ---------------------------
(* Root module for checking DevSniper.                                     *)
EXTENDS DevSniper
===========================================================================
