\* Rates of 1/2 and 1 1/2 tokens a tick: fractions stay in the bucket.  (No
\* symmetry: a temporal property is checked.)
CONSTANTS
    udp = udp
    heartbeat = heartbeat
    Callers = {udp, heartbeat}
    Rates = {1, 3}
    InitialRate = 1
    Scale = 2
    MaxTime = 2
    MaxRequests = 3
SPECIFICATION Spec
INVARIANTS
    TypeOK
    RateCap
    EveryFrameWasRequested
    WaitingLoopIsUpToDate
PROPERTIES
    ImplementsThrottle
    ImplementsLoop
