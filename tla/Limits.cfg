CONSTANTS
    DailyLoss = 2
    MaxTrades = 1
    Funds = 2
    LastDay = 1
    MaxRestarts = 1
SPECIFICATION FairSpec
INVARIANT TradesWithinCap
PROPERTY HaltSticks
PROPERTY DrainEventuallyHalts
