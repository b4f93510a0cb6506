\* One start and one save at the same time.
CONSTANTS
    None = None
    NoAddress = NoAddress
    page = page
    Callers = {page}
    Browsers = {page}
    Configs <- SomeConfigs
    BusyPorts = {}
    MaxCalls = 1
    MaxSaves = 1
    MayCancel = FALSE
    MaySocketError = FALSE
SPECIFICATION ControlSpec
CHECK_DEADLOCK FALSE
INVARIANT SettingsApplyAtOnce
