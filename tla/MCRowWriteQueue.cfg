SPECIFICATION FairSpec
CONSTANTS
    h1 = h1
    h2 = h2
    h3 = h3
    k1 = k1
    k2 = k2
    s1 = s1
    s2 = s2
    blob = blob
    hash = hash
    Handlers <- ThreeHandlers
    Keys <- OneKey
    Strings <- OneString
    Blobs <- None
    Collections <- OneCollection
    Absent = Absent
    NoValue = NoValue
    NoRequest = NoRequest
    Offered <- EditOnly
    Free = Free
INVARIANTS LockExact LateCommandBound
PROPERTIES HandlerReturns ConnectionReleased
