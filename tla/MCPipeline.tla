---------------------------- MODULE MCPipeline ----------------------------
(* Root module for checking Pipeline.                                      *)
EXTENDS Pipeline
===========================================================================
