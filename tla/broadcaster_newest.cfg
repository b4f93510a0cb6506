CONSTANTS
    udp = udp
    Callers = {udp}
    Rates = {1, 2}
    InitialRate = 1
    Scale = 2
    MaxTime = 2
    MaxRequests = 2
SPECIFICATION FairSpec
PROPERTY NewestIsPublished
