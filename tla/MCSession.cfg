SPECIFICATION Spec
CONSTANTS
    Handlers = {h1, h2}
    Databases = {0, 1}
    Database = 0
    Keys = {k}
    NoKey = NoKey
    NativeVerbs <- MCNativeVerbs
    MaxQueue = 1
SYMMETRY MCSymmetry
INVARIANTS
    GuidanceFits
    RowWriteReported
    AnswersDescribeDatabase
PROPERTIES
    ReadOnlyHarmless
