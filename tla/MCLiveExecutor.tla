-------------------------- MODULE MCLiveExecutor --------------------------
(* Instances of LiveExecutor for TLC. *)
EXTENDS LiveExecutor, TLC

\* The phases and exit strategies the repository's configuration offers; in the
\* shadow phase there is something to sell only if the wallet holds it already.
MCSettings == {[broadcast |-> TRUE, trail |-> FALSE, stock |-> 0],
               [broadcast |-> TRUE, trail |-> TRUE, stock |-> 0],
               [broadcast |-> FALSE, trail |-> FALSE, stock |-> BuyUnits]}

MCTrailOnly == {[broadcast |-> TRUE, trail |-> TRUE, stock |-> 0]}

Symmetry == Permutations(Tokens) \cup Permutations(Exiters)
===========================================================================
