CONSTANTS
    DailyLoss = 3
    MaxTrades = 1
    Funds = 4
    LastDay = 1
    MaxRestarts = 0
SPECIFICATION Spec
PROPERTY HaltLastsTheDay
