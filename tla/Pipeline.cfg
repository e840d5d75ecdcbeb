CONSTANTS
    Hashes = {h1, h2, h3}
    BadTxs = {h3}
    Workers = {w1, w2}
    RawCap = 1
    DecodedCap = 1
    TTL = 1
    MaxObs = 3
    MaxClock = 2
    MaxHead = 1
SPECIFICATION FairSpec
PROPERTY RepublishNeedsTTL
PROPERTY AcceptedIsPublished
