SPECIFICATION Spec
CONSTANTS
    v1 = v1
    v2 = v2
    Size = 4
    ChainSize = 2
    Chars = {"a", "b", "c", " "}
    Names <- TableNames
    Blanks = {" "}
    Values = {v1, v2}
    Default = Default
    Missing = Missing
    Hash <- TableHash
    MaxHash = 8
    MaxOffers = 6
INVARIANTS
    TypeOK
    ValidKeepsAll
    FoundWasOffered
    OutsideHasCause
PROPERTIES
    AnswersStay
    MapRefined
CHECK_DEADLOCK FALSE
