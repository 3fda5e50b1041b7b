SPECIFICATION Spec
CONSTANTS
    h1 = h1
    h2 = h2
    h3 = h3
    k1 = k1
    k2 = k2
    s1 = s1
    s2 = s2
    blob = blob
    hash = hash
    Handlers <- TwoHandlers
    Keys <- TwoKeys
    Strings <- TwoStrings
    Blobs <- OneBlob
    Collections <- None
    Absent = Absent
    NoValue = NoValue
    NoRequest = NoRequest
    Offered <- EveryKindOfWrite
    Free = Free
INVARIANT TypeOK
PROPERTIES ImplementsKeysTable EditReplacesValidated
SYMMETRY HandlerSymmetry
