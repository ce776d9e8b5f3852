SPECIFICATION Spec
CONSTANTS
    UInt = UInt
    Flags = Flags
    Handle = Handle
    Struct = Struct
    Size = 5
    ChainSize = 2
    Chars = {"u", "f", "s", "b", "x", "*", " "}
    Names <- AllNames
    Blanks = {" "}
    Missing = Missing
    Hash <- NameHash
    MaxHash = 5
    MaxOffers = 6
    TypeOf <- Listed
    AliasOf <- Aliased
    NullWrapper = NullWrapper
    NoTarget = NoTarget
INVARIANTS
    NamesLeadToTheirTypes
    UnknownIsNullWrapper
CHECK_DEADLOCK FALSE
