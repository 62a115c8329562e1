SPECIFICATION DesktopSpec
CONSTANTS
    p1 = p1
    p2 = p2
    load = load
    home = home
    flow = flow
    step = step
    other = other
    dirA = dirA
    dirB = dirB
    FlowDirectory = NoDirectory
    Jobs = {load, home, flow, step, other}
    Managers = {p1, p2}
    NoJob = NoJob
    Directories = {dirA, dirB}
    NoDirectory = NoDirectory
    GlobalScope = GlobalScope
    SoundScopes = {dirA, GlobalScope}
    FaultyListeners = {step}
    FaultyDisk = {}
    ReportingJobs = {}
    Reports = {"ecc completed"}
    MaxReports = 1
    Scopes <- MCScopes
    ManagerOf <- MCManagerOf
    ScopeOf <- MCScopeOf
    LongRunning <- MCLongRunning
    DirectoryOf <- MCDirectoryOf
    CommandOf <- MCCommandOf
INVARIANT WorkspaceExclusion
CHECK_DEADLOCK FALSE
