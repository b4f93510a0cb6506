CONSTANTS
    udp = udp
    heartbeat = heartbeat
    tablet = tablet
    phone = phone
    Clients = {tablet}
    Writers = {udp}
    Repeaters = {heartbeat}
    Capacity = 2
    MaxUpdates = 3
    MaxRequests = 3
SPECIFICATION FairSpec
INVARIANTS
    TypeOK
    WaitingClientIsServed
PROPERTIES
    FramesMoveForward
    ReconnectResumesForward
    FrameReachesClient
