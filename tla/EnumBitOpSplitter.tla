-------------------------- MODULE EnumBitOpSplitter --------------------------
(***************************************************************************)
(* The value of a text such as "A | B & C": EnumBitOpSplitter with its     *)
(* base (src/EnumBitOpSplitterBase.cpp, src/EnumBitOpSplitter.inl) and the *)
(* readers FieldExtractor gives it (src/FieldExtractor.inl).               *)
(*                                                                         *)
(* A text is the sequence of its parts, an operand and the operator that   *)
(* follows it; the last part has operator "end".  A value is the set of    *)
(* bits that are one, so that | is \cup and & is \cap.                     *)
(***************************************************************************)
EXTENDS Integers, FiniteSets, Sequences

CONSTANTS
    Bits,           \* the bits of a value
    MagicValue,     \* enumerators magic_enum knows: [subset of names -> values]
    MapValue,       \* enumerators listed in enumMap: [names -> values]
    MapEntry,       \* what enumMap.get finds for a name: [names -> names listed]
    Unlisted,       \* ... or the first place of an empty chain
    NumberValue,    \* names that are numbers: [subset of names -> values]
    NoOperand,      \* the empty name: nothing, or only blanks, is the operand
    Operands,       \* what texts consist of: [name, blanks around it]
    MaxOperands     \* bound: operands of a text

Values    == SUBSET Bits
Operators == {"|", "&"}

\* An operand and the operator that follows.
Part(operand, op) == [name |-> operand.name, blanks |-> operand.blanks, op |-> op]
Parts == {Part(operand, op) : operand \in Operands, op \in Operators \cup {"end"}}

ASSUME OperandsTyped   == \A operand \in Operands : operand.blanks \in BOOLEAN
ASSUME OperandsBounded == MaxOperands \in Nat
ASSUME EnumeratorsTyped ==
    \A enum \in {MagicValue, MapValue, NumberValue} :
        \A name \in DOMAIN enum : enum[name] \in Values
ASSUME EnumeratorsAgree ==
    \A name \in DOMAIN MagicValue \cap DOMAIN MapValue : MagicValue[name] = MapValue[name]
ASSUME EnumeratorsNamed ==
    NoOperand \notin DOMAIN MagicValue \cup DOMAIN MapValue
\* The comparison in get() ends with the name it looks for (StrHashTable): it
\* finds a listed name, or a longer one of the same chain, or, for the empty
\* name, whatever is in the first place of its chain.
ASSUME EntriesTyped ==
    /\ NoOperand \in DOMAIN MapEntry
    /\ Unlisted \notin DOMAIN MapValue \cup {NoOperand}
    /\ \A name \in DOMAIN MapEntry :
          MapEntry[name] \in DOMAIN MapValue \/ (name = NoOperand /\ MapEntry[name] = Unlisted)

VARIABLES
    text,       \* const char* value
    wrapped,    \* the field's type is an enumeration<>: getEnumFlag reads it
    phase,      \* "start", "reading", "done", "undefined"
    pieces,     \* delimEnums not read yet
    stack,      \* int64_t stack[]: operands and the operators after them
    errors,     \* what was reported to the ErrorState
    result      \* what calculate() returns

vars == <<text, wrapped, phase, pieces, stack, errors, result>>

Entry == [value : Values, op : Operators \cup {"end"}]

TypeOK ==
    /\ text \in Seq(Parts) /\ text # <<>> /\ wrapped \in BOOLEAN
    /\ phase \in {"start", "reading", "done", "undefined"}
    /\ pieces \in Seq(Parts) /\ stack \in Seq(Entry)
    /\ errors \subseteq {"ENUM_OPER_INVAL", "NOT_ENUM_IN_MAP"}
    /\ result \in Values

Init ==
    /\ \E n \in 1..MaxOperands :
          \E operands \in [1..n -> Operands], ops \in [1..(n - 1) -> Operators] :
             text = [i \in 1..n |->
                        Part(operands[i], IF i = n THEN "end" ELSE ops[i])]
    /\ wrapped \in BOOLEAN
    /\ phase = "start"
    /\ pieces = <<>> /\ stack = <<>> /\ errors = {} /\ result = {}

-----------------------------------------------------------------------------
(***************************************************************************)
(* Splitting.                                                              *)
(***************************************************************************)
\* findDelimCountEnums: how many of the operators occur, not how often.
findDelimCountEnums(parts) == Cardinality({parts[i].op : i \in DOMAIN parts} \ {"end"})

delimCount(parts) == findDelimCountEnums(parts) + 1

\* XMLUtil::ToInt64 (external) takes a number at the beginning, whatever
\* follows; only fields that are no enumeration are read that way.
IsNumber == ~wrapped /\ text[1].name \in DOMAIN NumberValue

ReadNumber ==
    /\ phase = "start" /\ IsNumber
    /\ result' = NumberValue[text[1].name]
    /\ phase' = "done"
    /\ UNCHANGED <<text, wrapped, pieces, stack, errors>>

\* The constructor and setDelimEnums: the first delimCount pieces.
Split ==
    /\ phase = "start" /\ ~IsNumber
    /\ pieces' = SubSeq(text, 1, delimCount(text))
    /\ phase' = "reading"
    /\ UNCHANGED <<text, wrapped, stack, errors, result>>

-----------------------------------------------------------------------------
(***************************************************************************)
(* Reading the pieces onto the stack.                                      *)
(***************************************************************************)
\* magic_enum compares the name with its blanks, which were not removed.
InMagic(part) == wrapped /\ ~part.blanks /\ part.name \in DOMAIN MagicValue

\* getEnumFlag and getFromMap find something: the table strips the blanks.
Known(part) == InMagic(part) \/ part.name \in DOMAIN MapEntry

\* The value in the place found; T{} if nothing was ever put there.
EntryValue(name) == IF MapEntry[name] \in DOMAIN MapValue
                    THEN MapValue[MapEntry[name]] ELSE {}

FlagOf(part) ==
    IF InMagic(part) THEN MagicValue[part.name]
    ELSE IF Known(part) THEN EntryValue(part.name) ELSE {}

\* Mutant of Complaint: the flag of a type that is not listed.
ComplaintOfType(part) == IF Known(part) THEN {} ELSE {"TYPE_MISSING_LIST"}
Complaint(part) == IF Known(part) THEN {} ELSE {"NOT_ENUM_IN_MAP"}

\* A piece without any character but its operator.
IsEmptyPiece(part) == part.name = NoOperand /\ ~part.blanks

\* One turn of the loop of calcResultEnum.  A piece of blanks is read like any
\* other; so is an empty last piece, if the byte before it, which is compared
\* with the operators, is none.
ReadPiece ==
    /\ phase = "reading" /\ pieces # <<>>
    /\ IsEmptyPiece(Head(pieces)) => Head(pieces).op = "end"
    /\ stack' = Append(stack, [value |-> FlagOf(Head(pieces)), op |-> Head(pieces).op])
    /\ errors' = errors \cup Complaint(Head(pieces))
    /\ pieces' = Tail(pieces)
    /\ UNCHANGED <<text, wrapped, phase, result>>

\* Of an operator alone, or of nothing behind a byte that happens to be one,
\* strtok makes a null pointer, which is then read.
ReadEmptyPiece ==
    /\ phase = "reading" /\ pieces # <<>> /\ IsEmptyPiece(Head(pieces))
    /\ phase' = "undefined"
    /\ UNCHANGED <<text, wrapped, pieces, stack, errors, result>>

-----------------------------------------------------------------------------
(***************************************************************************)
(* getApplyEnum: from right to left, whatever the operators are.           *)
(***************************************************************************)
\* Mutant of Apply: | and & are taken for each other.
ApplySwapped(left, op, right) == IF op = "&" THEN left \cup right ELSE left \cap right
Apply(left, op, right) == IF op = "|" THEN left \cup right ELSE left \cap right

\* Behind a trailing operator the recursion finds an empty stack, reports it
\* and returns a variable it never assigned.
TrailingOperator == stack[Len(stack)].op # "end"

\* Mutant of StackError: nothing is reported.
StackErrorNever == {}
StackError == IF TrailingOperator THEN {"ENUM_OPER_INVAL"} ELSE {}

\* The recursion, at the entry i: a value with nothing behind it, or what the
\* operator makes of it and the rest.
getApplyEnum(unassigned) ==
    LET applied[i \in 1..(Len(stack) + 1)] ==
            IF i > Len(stack) THEN unassigned
            ELSE IF stack[i].op = "end" THEN stack[i].value
            ELSE Apply(stack[i].value, stack[i].op, applied[i + 1])
    IN  applied[1]

ApplyStack ==
    /\ phase = "reading" /\ pieces = <<>>
    /\ \E unassigned \in Values : result' = getApplyEnum(unassigned)
    /\ errors' = errors \cup StackError
    /\ phase' = "done"
    /\ UNCHANGED <<text, wrapped, pieces, stack>>

Next == ReadNumber \/ Split \/ ReadPiece \/ ReadEmptyPiece \/ ApplyStack

Spec == Init /\ [][Next]_vars

-----------------------------------------------------------------------------
\* What the name of a part stands for, blanks or not.
Named(part) == part.name \in DOMAIN MagicValue \cup DOMAIN MapValue

Meaning(part) == IF part.name \in DOMAIN MagicValue
                 THEN MagicValue[part.name] ELSE MapValue[part.name]

\* What C++ makes of the text: & binds tighter than |.  The operands of each
\* maximal run of & are intersected, and the runs united.
Runs(parts) ==
    {run \in (DOMAIN parts) \X (DOMAIN parts) :
        /\ run[1] = 1 \/ parts[run[1] - 1].op = "|"
        /\ parts[run[2]].op # "&"
        /\ run[1] <= run[2]
        /\ \A k \in run[1]..(run[2] - 1) : parts[k].op = "&"}

CxxValue(parts) ==
    {bit \in Bits : \E run \in Runs(parts) :
        \A k \in run[1]..run[2] : bit \in Meaning(parts[k])}

\* Where the code agrees with C++: no & before a |.
OrsFirst(parts) ==
    \A i, j \in DOMAIN parts : i < j => ~ (parts[i].op = "&" /\ parts[j].op = "|")

\* The table answers for another name than the one asked for: the operand is
\* blank, or the beginning of a longer name found before it.
Mistaken(part) ==
    /\ ~InMagic(part) /\ part.name \in DOMAIN MapEntry
    /\ MapEntry[part.name] # part.name

\* What a text that leaves no complaint stands for.  Each of its operands, the
\* last included, is an enumerator or was mistaken for one by the table (in
\* "A | " the blank is, silently); and if none was mistaken and no | is behind
\* an &, the value is the one C++ gives the text: no operand is lost, although
\* the pieces are counted by the different operators, and none depends on the
\* blanks around it, although they are still there when it is looked up.
\* Texts that begin with a number are read as that number.
SilentMeansRight ==
    phase = "done" /\ errors = {} /\ ~IsNumber =>
        /\ \A i \in DOMAIN text : Named(text[i]) \/ Mistaken(text[i])
        /\ OrsFirst(text) /\ (\A i \in DOMAIN text : ~Mistaken(text[i])) =>
              result = CxxValue(text)

\* An operand is only lost with a complaint about the operators, and the
\* complaint is not made without a loss.
LossIsReported ==
    phase = "done" /\ ~IsNumber =>
        ("ENUM_OPER_INVAL" \in errors <=> Len(text) > delimCount(text))
=============================================================================
