SPECIFICATION Spec
CONSTANTS
    id1 = id1
    id2 = id2
    Pass = Pass
    Attachment = Attachment
    Scalar = Scalar
    f = f
    g = g
    h = h
    Ids = {id1, id2}
    StructTypes = {Pass, Attachment}
    OpaqueTypes = {Scalar}
    NullWrapper = NullWrapper
    Fields = {f, h}
    UnknownField = UnknownField
    MaxCharSize = 4
    NoLink = NoLink
    StructElements <- LinkedStructs
    ReferenceElements <- LinkedReferences
    LiteralElements <- NoLiterals
    NoValue = NoValue
    MaxElements = 6
    MaxDepth = 3
    MaxCalls = 1
    NoId = NoId
    Unset = Unset
    Literal = Literal
    NoStruct = NoStruct
    NoTag = NoTag
INVARIANTS
    TypeOK
    PendingFlag
    PointersRegistered
    StoredIsCurrent
    OnlyNamedChildren
    ArraysOfOneType
    RenamedKeyExists
    UndefinedHasCause
    TerminatedHasCause
PROPERTIES
    ErasedOnlyWhenSettled
    OnlyLinksReplace
    InnermostIsStored
    StoreRefined
CHECK_DEADLOCK FALSE
