SPECIFICATION Spec
CONSTANTS
    Texts <- MCTexts
    Blank = ""
    typeName = "type"
    nameName = "name"
    valueName = "value"
    TableSize = 4
    AttrIndex <- MCAttrIndex
    FieldIndex <- MCFieldIndex
    MembersOf <- MCMembersOf
    NumberTypes = {"uint"}
    BoolTypes = {"bool"}
    Readable = {"7", "1"}
    References = {"&id:1"}
    Zero = Zero
    BlankValue = BlankValue
    Unset = Unset
    NoExtractor = NoExtractor
    NullWrapper = NullWrapper
    Elements <- MCElements
    MaxElements = 5
INVARIANTS
    TypeOK
    NothingLeaks
    LastGivenHolds
CHECK_DEADLOCK FALSE
