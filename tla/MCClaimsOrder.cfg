SPECIFICATION WellFormedSpec
CONSTANTS
    id1 = id1
    id2 = id2
    Pass = Pass
    Attachment = Attachment
    f = f
    g = g
    h = h
    n = n
    Ids = {id1, id2}
    StructTypes = {Pass, Attachment}
    OpaqueTypes = {}
    NullWrapper = NullWrapper
    Fields = {f, g, h, n}
    UnknownField = UnknownField
    MaxCharSize = 6
    NoLink = NoLink
    StructElements <- ClaimStructs
    ReferenceElements <- ClaimReferences
    LiteralElements <- NoLiterals
    MaxElements = 7
    MaxDepth = 2
    MaxCalls = 1
    NoValue = NoValue
    NoId = NoId
    Unset = Unset
    Literal = Literal
    NoStruct = NoStruct
    NoTag = NoTag
INVARIANT
    ChildrenInReferenceOrder
CHECK_DEADLOCK FALSE
