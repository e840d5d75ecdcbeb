----------------------------- MODULE MCLimits -----------------------------
(* Root module for checking Limits.                                        *)
EXTENDS Limits
===========================================================================
