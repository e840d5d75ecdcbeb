--------------------------- MODULE MCFourMemePrice ---------------------------
(* Root of the TLC runs of FourMemePrice; the bounds are in the cfg files.  *)
EXTENDS FourMemePrice
=============================================================================
