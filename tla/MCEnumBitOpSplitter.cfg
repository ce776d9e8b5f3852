SPECIFICATION Spec
CONSTANTS
    Bits = {0, 1}
    MagicValue <- Magic
    MapValue <- Table
    MapEntry <- Entries
    Unlisted = Unlisted
    NumberValue <- Numbers
    NoOperand = NoOperand
    Operands <- FewOperands
    MaxOperands = 4
INVARIANTS
    TypeOK
    SilentMeansRight
    LossIsReported
CHECK_DEADLOCK FALSE
