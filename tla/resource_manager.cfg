SPECIFICATION MCSpec
CONSTANTS
    o1 = o1
    o2 = o2
    o3 = o3
    proc1 = proc1
    proc2 = proc2
    Ops = {o1, o2, o3}
    Processes = {proc1, proc2}
    ProcessOf <- MCProcessOf
    Tools = {tool}
    Pdks = {pdkA, pdkB}
    tool = tool
    pdkA = pdkA
    pdkB = pdkB
    v0 = v0
    v1 = v1
    Inherited <- MCInherited
    Versions = {v0, v1}
    Latest = v1
    Local = Local
    Absent = Absent
    NoRequest = NoRequest
    OfferedOnly = TRUE
    Checksummed <- MCChecksummed
    WithAssets <- MCWithAssets
INVARIANTS OneActivePdk JobsMatchInstalls NothingCorruptPlaced ListedIsReady LastSuccessStands CancelledInTime
SYMMETRY MCSymmetry
CHECK_DEADLOCK FALSE
