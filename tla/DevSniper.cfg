CONSTANTS
    Tokens = {k1, k2}
    MaxHold = 3
    MaxLag = 2
    MaxGap = 2
    MaxSnipes = 2
SPECIFICATION SniperFairSpec
INVARIANT EvaluatedIsMapped
INVARIANT HoldBounded
PROPERTY EverySnipeEnds
