\* Gaps on both sides of the warning threshold and of bucket limits, a ring
\* that fills, a clock that is set back or not, and the torn reads of the
\* status endpoint.
CONSTANTS
    udp = udp
    mock = mock
    phone = phone
    Writers = {udp, mock}
    InfoWriters = {udp}
    Readers = {phone}
    Gears <- SomeGears
    Timeouts = {50, 100}
    RecentCapacity = 1
    Instants = {1, 51, 102}
    MaxUpdates = 2
SPECIFICATION Spec
INVARIANTS
    TypeOK
    GapStatisticsAgree
    SilenceDisconnects
    StatusKeepsItsWord
PROPERTIES
    ShownGearIsKept
    PacketInfoMovesForward
