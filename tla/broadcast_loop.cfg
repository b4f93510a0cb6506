\* Requests, changes of the rate and calls of stats() without any bound.
CONSTANTS
    Rates = {1, 2, 3}
    InitialRate = 1
SPECIFICATION FairSpec
PROPERTY NeitherChannelStarves
