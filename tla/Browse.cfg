SPECIFICATION Spec
CONSTANTS
    NumKeys = 3
    Name <- MCName
    Kinds = {"string", "stream"}
    Absent = Absent
    MaxRows = 1
    NoLimit = NoLimit
    MaxLimit = 2
    UsizeMax = 9
    MaxScans = 2
    MaxWrites = 1
INVARIANTS StableKeysListed PagesPartition
PROPERTY PageReturned
