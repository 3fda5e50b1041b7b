SPECIFICATION Spec
CONSTANTS
    r1 = r1
    r2 = r2
    Requests <- TwoRequests
    WireId <- ReusedId
    IdWidth = 2
    MaxSessions = 1
    MaxFrames = 2
    NoRequest = NoRequest
INVARIANTS OriginalIdCancels
