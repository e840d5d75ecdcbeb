------------------------------ MODULE MCCapture -------------------------------
(* Root of the TLC run of Capture; the bounds are in the cfg file.            *)
EXTENDS Capture
=============================================================================
