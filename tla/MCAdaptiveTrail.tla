------------------------- MODULE MCAdaptiveTrail --------------------------
(* Model values for checking AdaptiveTrail.  The prices straddle every     *)
(* threshold of an entry at 100: the hard stop (70), the locked gain (105),*)
(* the ratchet (115), arming (130) and trails from several peaks.          *)
EXTENDS AdaptiveTrail

MCPrices == {65, 100, 104, 112, 120, 140, 200}
===========================================================================
