CONSTANTS
    NonFinite = NonFinite
    None = None
    Packets <- AllPackets
    SampleInterval = 2
    MaxTime = 4
SPECIFICATION Spec
INVARIANTS
    TypeOK
    PathsAgree
    RacePanelHasContext
    InfoKeepsUp
