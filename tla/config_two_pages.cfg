CONSTANTS
    exe = exe
    home = home
    page = page
    tablet = tablet
    lan = lan
    nonsense = nonsense
    AnyAddress = AnyAddress
    ForzaHorizon6 = ForzaHorizon6
    Blank = Blank
    Yes = Yes
    NoFile = NoFile
    Unreadable = Unreadable
    None = None
    Texts <- TheTexts
    Addresses = {AnyAddress, lan}
    Adapters = {ForzaHorizon6}
    Browsers = {page, tablet}
    Requests <- SomeRequests
    TextLength <- Lengths
    HandEdits <- SomeEdits
    Environments <- SomeEnvironments
    Places = {exe, home}
    ExeDir = exe
    DiskMayFill = FALSE
SPECIFICATION Spec
INVARIANT AnsweredSaveIsReadable
