SPECIFICATION FairSpec
CONSTANTS
    r1 = r1
    r2 = r2
    Requests <- OneRequest
    WireId <- OneId
    IdWidth = 2
    MaxSessions = 2
    MaxFrames = 4
    NoRequest = NoRequest
INVARIANT HandshakeFirst
PROPERTIES SessionIdsNeverReused CancelWins CancelAnswered AnswerDelivered ShutdownCompletes
