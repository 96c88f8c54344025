CONSTANTS
    Audience = {a1}
    Stage = {}
    Paired = {p1, p2}
    LastIndex = 1
    LosesWrites = FALSE
    None = None
    MaxRevision = 2
    MaxOpens = 2
    MaxQueue = 1
SPECIFICATION Spec
SYMMETRY Devices
INVARIANTS ScreensFollow NothingIsIgnored OperatorSeesAcks OneGrant
PROPERTIES NoEncore
CHECK_DEADLOCK FALSE
