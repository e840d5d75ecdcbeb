SPECIFICATION FairSpec
CONSTANTS
    SideOf <- MCSideOf
    TTL = 1
    BusCap = 1
    SinkCap = 1
    TrailActive = FALSE
    Txs <- MCBuyAndSell
    Blocks = {b1, b2}
    MaxPublish = 1
INVARIANT RegistrationsAccounted
INVARIANT DoubleReportNeedsRaceExpiryOrReorg
CHECK_DEADLOCK FALSE
PROPERTY ConfirmedSellIsFollowed
