\* Two pages start, stop and restart the telemetry while one of them saves.
\* Calls and saves are bounded, so the system stops.
CONSTANTS
    None = None
    NoAddress = NoAddress
    page = page
    tablet = tablet
    Callers = {page, tablet}
    Browsers = {page}
    Configs <- SomeConfigs
    BusyPorts = {5301}
    MaxCalls = 3
    MaxSaves = 2
    MayCancel = FALSE
    MaySocketError = FALSE
SPECIFICATION ControlSpec
SYMMETRY CallerSymmetry
CHECK_DEADLOCK FALSE
INVARIANTS
    ControlTypeOK
    OutdatedRuntimeIsReported
    RunningMeansServing
    StopIsAnnounced
PROPERTIES
    ImplementsService
    RestartServesSaved
