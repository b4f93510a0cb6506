CONSTANTS
    None = None
    NoAddress = NoAddress
    page = page
    tablet = tablet
    Callers = {page, tablet}
    Configs <- OneSavedConfig
    BusyPorts = {5300}
    MaxCalls = 3
    MayCancel = TRUE
    MaySocketError = TRUE
SPECIFICATION FairSpec
INVARIANT NoTaskLeaks
PROPERTIES
    EveryCallReturns
    SignalledTasksEnd
