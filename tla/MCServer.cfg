SPECIFICATION Spec
CONSTANTS
    r1 = r1
    r2 = r2
    Requests <- TwoRequests
    WireId <- DistinctIds
    IdWidth = 2
    MaxSessions = 1
    MaxFrames = 3
    NoRequest = NoRequest
INVARIANTS TypeOK AnsweredOnce RegistryExact OriginalIdCancels ShutdownCancels
    AtMostOneLateFrame
