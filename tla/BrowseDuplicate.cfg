SPECIFICATION Spec
CONSTANTS
    NumKeys = 1
    Name <- MCName
    Kinds = {"string"}
    Absent = Absent
    MaxRows = 2
    NoLimit = NoLimit
    MaxLimit = 1
    UsizeMax = 9
    MaxScans = 2
    MaxWrites = 0
INVARIANT OneRowPerKey
