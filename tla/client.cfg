CONSTANTS
    s1 = s1
    s2 = s2
    s3 = s3
    NoSocket = NoSocket
    Sockets = {s1, s2, s3}
SPECIFICATION FairSpec
INVARIANTS
    TypeOK
    OneConnection
    NeverAbandoned
    StatusTellsTruth
PROPERTY Reconnects
