SPECIFICATION MapSpec
CONSTANTS
    id1 = id1
    id2 = id2
    Pass = Pass
    Attachment = Attachment
    Scalar = Scalar
    f = f
    g = g
    h = h
    Ids = {id1, id2}
    StructTypes = {Pass, Attachment}
    OpaqueTypes = {Scalar}
    NullWrapper = NullWrapper
    Fields = {f, g}
    UnknownField = UnknownField
    MaxCharSize = 3
    NoLink = NoLink
    StructElements <- FailingStructs
    ReferenceElements <- FailingReferences
    LiteralElements <- FailingLiterals
    NoValue = NoValue
    MaxElements = 5
    MaxDepth = 3
    MaxCalls = 2
    NoId = NoId
    Unset = Unset
    Literal = Literal
    NoStruct = NoStruct
    NoTag = NoTag
    NullPointer = NullPointer
INVARIANTS
    PendingFlag
    StoredIsCurrent
    UndefinedHasCause
    MapTellsAll
PROPERTIES
    StoreRefined
    WaitingFieldsReported
CHECK_DEADLOCK FALSE
