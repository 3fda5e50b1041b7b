SPECIFICATION Spec
CONSTANTS
    PageNumbers = {0, 7}
    NoLimit = NoLimit
    MaxTail = 5
    Texts = {0, 1, 2, 3}
    NullText = 0
    Decoded <- MCDecoded
    MaxDepth = 3
    MaxRows = 2
    MaxCell = 3
    PreviewElements = 2
    PreviewBytes = 10
    MaxMember = 3
    MaxString = 5
    PortMax = 3
    RedisPort = 2
    DatabaseMax = 2
    Strings = {"", "string", "text", "long"}
    LongStrings = {"long"}
    Columns = {"key", "type", "value", "other"}
    None = None
    MemoryKeys = {"", "text"}
    MemoryAbsent = MemoryAbsent
    MaxValues = 3
INVARIANTS
    GrammarExact StatementReplays StatementsClassified ScalarsShown ResultFaithful
    PreviewsFaithful TargetsReach ViewExact ValidationExact MemoryAgrees
