----------------------- MODULE EnumBitOpSplitterProofs -----------------------
(***************************************************************************)
(* For every set of enumerators, every width of a value and texts of any   *)
(* length: what reading an enumerator text loses, it reports, and what it  *)
(* reads without complaint, and without taking one name for another, has   *)
(* the value C++ gives the text.                                           *)
(***************************************************************************)
EXTENDS EnumBitOpSplitter, FiniteSetTheorems, TLAPS

-----------------------------------------------------------------------------
(***************************************************************************)
(* Texts and the number of their pieces.                                   *)
(***************************************************************************)
\* The last part, and no other, has no operator behind it.
IsText(parts) ==
    /\ parts \in Seq(Parts) /\ parts # <<>>
    /\ \A i \in DOMAIN parts :
          parts[i].op \in (IF i = Len(parts) THEN {"end"} ELSE Operators)

LEMMA InitialText ==
    ASSUME Init
    PROVE  IsText(text)
<1>1. PICK n \in 1..MaxOperands :
        \E operands \in [1..n -> Operands], ops \in [1..(n - 1) -> Operators] :
           text = [i \in 1..n |-> Part(operands[i], IF i = n THEN "end" ELSE ops[i])]
    BY DEF Init
<1>2. PICK operands \in [1..n -> Operands], ops \in [1..(n - 1) -> Operators] :
        text = [i \in 1..n |-> Part(operands[i], IF i = n THEN "end" ELSE ops[i])]
    BY <1>1
<1>3. n \in Nat \ {0}
    BY <1>1, OperandsBounded
<1>4. ASSUME NEW i \in 1..n
      PROVE  /\ text[i] \in Parts
             /\ text[i].op \in (IF i = n THEN {"end"} ELSE Operators)
    <2> DEFINE op == IF i = n THEN "end" ELSE ops[i]
    <2>1. op \in (IF i = n THEN {"end"} ELSE Operators)
        BY <1>3
    <2>2. text[i] = Part(operands[i], op) /\ operands[i] \in Operands
        BY <1>2
    <2> HIDE DEF op
    <2>3. text[i] \in Parts
        BY <2>1, <2>2 DEF Parts
    <2>4. text[i].op = op
        BY <2>2 DEF Part
    <2> QED
        BY <2>1, <2>3, <2>4
<1>5. text \in Seq(Parts) /\ Len(text) = n /\ DOMAIN text = 1..n
    BY <1>2, <1>3, <1>4
<1> QED
    BY <1>3, <1>4, <1>5 DEF IsText

\* No more pieces are counted than there are operands, and never more than three.
LEMMA PieceCount ==
    ASSUME NEW parts, IsText(parts)
    PROVE  delimCount(parts) \in 1..3 /\ delimCount(parts) <= Len(parts)
<1> DEFINE n   == Len(parts)
           ops == {parts[i].op : i \in DOMAIN parts} \ {"end"}
           op  == [i \in 1..(n - 1) |-> parts[i].op]
<1>1. n \in Nat \ {0} /\ DOMAIN parts = 1..n
    BY DEF IsText
<1>2. ops \subseteq {"|", "&"} /\ op \in Surjection(1..(n - 1), ops)
    <2>1. \A i \in 1..(n - 1) : op[i] \in ops
        BY <1>1 DEF IsText, Operators
    <2>2. \A o \in ops : \E i \in 1..(n - 1) : op[i] = o
        BY <1>1 DEF IsText
    <2>3. ops \subseteq {"|", "&"}
        BY <1>1 DEF IsText, Operators
    <2> QED
        BY <2>1, <2>2, <2>3 DEF Surjection
<1>3. IsFiniteSet(1..(n - 1)) /\ Cardinality(1..(n - 1)) = n - 1
    <2>1. n \in Nat \ {0}
        BY <1>1
    <2> HIDE DEF n, ops, op
    <2>2. 1 \in Int /\ n - 1 \in Int
        BY <2>1
    <2> QED
        BY <2>1, <2>2, FS_Interval
<1>4. IsFiniteSet(ops) /\ Cardinality(ops) <= n - 1
    BY <1>2, <1>3, FS_Surjection
<1>5. Cardinality({"|", "&"}) = 2 /\ IsFiniteSet({"|", "&"})
    <2>1. IsFiniteSet({"|"}) /\ Cardinality({"|"}) = 1
        BY FS_Singleton
    <2>2. IsFiniteSet({"|"} \cup {"&"}) /\ Cardinality({"|"} \cup {"&"}) = 2
        BY <2>1, FS_AddElement
    <2>3. {"|"} \cup {"&"} = {"|", "&"}
        OBVIOUS
    <2> QED
        BY <2>2, <2>3
<1>6. Cardinality(ops) <= 2 /\ Cardinality(ops) \in Nat
    BY <1>2, <1>4, <1>5, FS_Subset, FS_CardinalityType
<1>7. delimCount(parts) = Cardinality(ops) + 1
    BY DEF delimCount, findDelimCountEnums
<1> HIDE DEF ops, n
<1>8. Cardinality(ops) + 1 \in 1..3 /\ Cardinality(ops) + 1 <= n
    BY <1>1, <1>4, <1>6
<1> QED
    BY <1>7, <1>8 DEF n

-----------------------------------------------------------------------------
(***************************************************************************)
(* The recursion over the stack.                                           *)
(***************************************************************************)
\* One level of getApplyEnum, with the result of the level behind it.
Level(i, rest) ==
    IF stack[i].op = "end" THEN stack[i].value
    ELSE Apply(stack[i].value, stack[i].op, rest)

\* With at most three entries, the recursion is three levels deep.
LEMMA ApplyUnfolds ==
    ASSUME NEW unassigned, Len(stack) \in 1..3
    PROVE  getApplyEnum(unassigned) =
              IF Len(stack) = 1 THEN Level(1, unassigned)
              ELSE IF Len(stack) = 2 THEN Level(1, Level(2, unassigned))
              ELSE Level(1, Level(2, Level(3, unassigned)))
<1> DEFINE n == Len(stack)
           IsResult(f) ==
               f = [i \in 1..(n + 1) |->
                       IF i > n THEN unassigned
                       ELSE IF stack[i].op = "end" THEN stack[i].value
                       ELSE Apply(stack[i].value, stack[i].op, f[i + 1])]
           third  == IF n < 3 THEN unassigned ELSE Level(3, unassigned)
           second == IF n < 2 THEN unassigned ELSE Level(2, third)
           levels == [i \in 1..(n + 1) |->
                         IF i = 1 THEN Level(1, second)
                         ELSE IF i = 2 THEN second
                         ELSE IF i = 3 THEN third ELSE unassigned]
<1>1. \A i \in 1..(n + 1) :
         levels[i] = IF i > n THEN unassigned
                     ELSE IF stack[i].op = "end" THEN stack[i].value
                     ELSE Apply(stack[i].value, stack[i].op, levels[i + 1])
    <2>1. CASE n = 1
        BY <2>1 DEF Level
    <2>2. CASE n = 2
        BY <2>2 DEF Level
    <2>3. CASE n = 3
        BY <2>3 DEF Level
    <2> HIDE DEF levels
    <2> QED
        BY <2>1, <2>2, <2>3
<1>2. IsResult(levels)
    <2>1. levels = [i \in 1..(n + 1) |-> levels[i]]
        OBVIOUS
    <2> HIDE DEF levels
    <2> QED
        BY <1>1, <2>1
<1> DEFINE applied == CHOOSE f : IsResult(f)
<1>3. IsResult(applied)
    <2> HIDE DEF IsResult, levels
    <2>1. \E f : IsResult(f)
        BY <1>2
    <2> QED
        BY <2>1, Zenon
<1>4. getApplyEnum(unassigned) = applied[1]
    BY Zenon DEF getApplyEnum
<1> HIDE DEF applied
<1>5. ASSUME NEW i \in 1..n
      PROVE  applied[i] = Level(i, applied[i + 1])
    BY <1>3, <1>5 DEF Level
<1>6. applied[n + 1] = unassigned
    BY <1>3
<1> HIDE DEF IsResult
<1>7. CASE n = 1
    BY <1>4, <1>5, <1>6, <1>7
<1>8. CASE n = 2
    <2>1. applied[1] = Level(1, applied[2]) /\ applied[2] = Level(2, unassigned)
        BY <1>5, <1>6, <1>8
    <2> QED
        BY <1>4, <1>8, <2>1
<1>9. CASE n = 3
    <2>1. /\ applied[1] = Level(1, applied[2]) /\ applied[2] = Level(2, applied[3])
          /\ applied[3] = Level(3, unassigned)
        BY <1>5, <1>6, <1>9
    <2> QED
        BY <1>4, <1>9, <2>1
<1> QED
    BY <1>7, <1>8, <1>9

-----------------------------------------------------------------------------
(***************************************************************************)
(* What has been read.                                                     *)
(***************************************************************************)
\* The stack holds what the first parts of the text stand for, and a name
\* that stands for nothing left its complaint.
StackIsRead ==
    /\ stack \in Seq(Entry) /\ Len(stack) <= delimCount(text)
    /\ \A i \in 1..Len(stack) :
          stack[i] = [value |-> FlagOf(text[i]), op |-> text[i].op]
    /\ "NOT_ENUM_IN_MAP" \notin errors => \A i \in 1..Len(stack) : Known(text[i])

\* The pieces are the parts that follow, up to the number counted.
PiecesFollow ==
    /\ Len(stack) + Len(pieces) = delimCount(text)
    /\ \A i \in 1..Len(pieces) : pieces[i] = text[Len(stack) + i]

Reading == phase \in {"reading", "undefined"} =>
    ~IsNumber /\ StackIsRead /\ PiecesFollow /\ "ENUM_OPER_INVAL" \notin errors

Applied == phase = "done" /\ ~IsNumber =>
    /\ StackIsRead /\ Len(stack) = delimCount(text)
    /\ "ENUM_OPER_INVAL" \in errors <=> TrailingOperator
    /\ \E unassigned \in Values : result = getApplyEnum(unassigned)

IInv ==
    /\ TypeOK /\ IsText(text)
    /\ phase = "start" => stack = <<>> /\ errors = {}
    /\ Reading /\ Applied

\* An enumerator is a value, known or not.
LEMMA FlagTyped ==
    ASSUME NEW part
    PROVE  FlagOf(part) \in Values
BY EnumeratorsTyped, EntriesTyped DEF FlagOf, Known, InMagic, EntryValue, Values

\* What the recursion returns is a value, if the last entry counts for one.
LEMMA ResultTyped ==
    ASSUME StackIsRead, Len(stack) \in 1..3, NEW unassigned \in Values
    PROVE  getApplyEnum(unassigned) \in Values
<1>1. ASSUME NEW i \in 1..Len(stack), NEW rest \in Values
      PROVE  Level(i, rest) \in Values
    <2>1. stack[i] \in Entry
        BY DEF StackIsRead
    <2>2. stack[i].value \in Values
        BY <2>1 DEF Entry
    <2> QED
        BY <1>1, <2>2 DEF Level, Apply, Values
<1>2. CASE Len(stack) = 1
    BY <1>1, <1>2, ApplyUnfolds
<1>3. CASE Len(stack) = 2
    BY <1>1, <1>3, ApplyUnfolds
<1>4. CASE Len(stack) = 3
    BY <1>1, <1>4, ApplyUnfolds
<1> QED
    BY <1>2, <1>3, <1>4

LEMMA InitIsInv == Init => IInv
<1> SUFFICES ASSUME Init PROVE IInv
    OBVIOUS
<1>1. IsText(text)
    BY InitialText
<1>2. TypeOK
    BY <1>1 DEF Init, TypeOK, IsText, Values
<1> QED
    BY <1>1, <1>2 DEF Init, IInv, Reading, Applied

-----------------------------------------------------------------------------
(***************************************************************************)
(* Every step preserves the invariant.                                     *)
(***************************************************************************)
LEMMA SplitStep == IInv /\ Split => IInv'
<1> SUFFICES ASSUME IInv, Split PROVE IInv'
    OBVIOUS
<1> USE DEF IInv
<1> DEFINE count == delimCount(text)
<1>1. IsText(text) /\ TypeOK /\ stack = <<>> /\ errors = {}
    BY DEF Split
<1>2. count \in 1..3 /\ count <= Len(text) /\ text \in Seq(Parts)
    BY <1>1, PieceCount DEF IsText
<1> HIDE DEF count
<1>3. /\ pieces' = SubSeq(text, 1, count) /\ phase' = "reading" /\ text' = text
      /\ wrapped' = wrapped /\ stack' = <<>> /\ errors' = {} /\ result' = result
      /\ ~IsNumber
    BY <1>1 DEF Split, count
<1>4. /\ pieces' \in Seq(Parts) /\ Len(pieces') = count
      /\ \A i \in 1..Len(pieces') : pieces'[i] = text[i]
    BY <1>2, <1>3
<1>5. TypeOK'
    BY <1>1, <1>3, <1>4 DEF TypeOK
<1>6. IsText(text)'
    BY <1>1, <1>3
<1>7. StackIsRead'
    BY <1>2, <1>3 DEF StackIsRead, count
<1>8. PiecesFollow'
    BY <1>2, <1>3, <1>4 DEF PiecesFollow, count
<1>9. Reading' /\ Applied'
    BY <1>3, <1>7, <1>8 DEF Reading, Applied, IsNumber
<1> QED
    BY <1>3, <1>5, <1>6, <1>9

\* The next part is read: its value goes onto the stack.
LEMMA ReadPieceStep == IInv /\ ReadPiece => IInv'
<1> SUFFICES ASSUME IInv, ReadPiece PROVE IInv'
    OBVIOUS
<1> USE DEF IInv
<1> DEFINE n == Len(stack)
           entry == [value |-> FlagOf(text[n + 1]), op |-> text[n + 1].op]
<1>1. /\ IsText(text) /\ TypeOK /\ StackIsRead /\ PiecesFollow
      /\ ~IsNumber /\ "ENUM_OPER_INVAL" \notin errors
    BY DEF ReadPiece, Reading
<1>2. delimCount(text) \in 1..3 /\ delimCount(text) <= Len(text)
    BY <1>1, PieceCount
<1>3. /\ stack \in Seq(Entry) /\ pieces \in Seq(Parts) /\ pieces # <<>>
      /\ text \in Seq(Parts) /\ n \in Nat
    BY <1>1 DEF TypeOK, ReadPiece
<1>4. /\ Len(pieces) \in Nat \ {0} /\ n + Len(pieces) = delimCount(text)
      /\ n + 1 \in 1..delimCount(text) /\ n + 1 \in DOMAIN text
    BY <1>1, <1>2, <1>3 DEF PiecesFollow
<1>5. Head(pieces) = text[n + 1]
    BY <1>1, <1>3, <1>4 DEF PiecesFollow
<1>6. /\ stack' = Append(stack, entry) /\ pieces' = Tail(pieces)
      /\ errors' = errors \cup Complaint(text[n + 1])
      /\ UNCHANGED <<text, wrapped, phase, result>> /\ phase = "reading"
    BY <1>5 DEF ReadPiece
<1>7. entry \in Entry
    <2>1. text[n + 1].op \in Operators \cup {"end"}
        BY <1>1, <1>4 DEF IsText
    <2> QED
        BY <2>1, FlagTyped DEF Entry
<1> HIDE DEF entry
<1>8. /\ stack' \in Seq(Entry) /\ Len(stack') = n + 1
      /\ \A i \in 1..n : stack'[i] = stack[i]
      /\ stack'[n + 1] = entry
    BY <1>3, <1>6, <1>7
<1>9. /\ pieces' \in Seq(Parts) /\ Len(pieces') = Len(pieces) - 1
      /\ \A i \in 1..Len(pieces') : pieces'[i] = pieces[i + 1]
    BY <1>3, <1>6
<1>10. TypeOK'
    <2>1. errors' \subseteq {"ENUM_OPER_INVAL", "NOT_ENUM_IN_MAP"}
        BY <1>1, <1>6 DEF TypeOK, Complaint
    <2> QED
        BY <1>1, <1>6, <1>8, <1>9, <2>1 DEF TypeOK
<1>11. \A part : FlagOf(part)' = FlagOf(part) /\ Known(part)' = Known(part)
    BY <1>6 DEF FlagOf, Known, InMagic
<1>12. StackIsRead'
    <2>1. ASSUME NEW i \in 1..(n + 1)
          PROVE  stack'[i] = [value |-> FlagOf(text[i]), op |-> text[i].op]
        <3>1. CASE i = n + 1
            BY <1>8, <3>1 DEF entry
        <3>2. CASE i \in 1..n
            BY <1>1, <1>8, <3>2 DEF StackIsRead
        <3> QED
            BY <1>3, <2>1, <3>1, <3>2
    <2>2. ASSUME "NOT_ENUM_IN_MAP" \notin errors', NEW i \in 1..(n + 1)
          PROVE  Known(text[i])
        <3>1. CASE i = n + 1
            BY <1>6, <2>2, <3>1 DEF Complaint
        <3>2. CASE i \in 1..n
            BY <1>1, <1>6, <2>2, <3>2 DEF StackIsRead
        <3> QED
            BY <1>3, <2>2, <3>1, <3>2
    <2>3. text' = text /\ delimCount(text') = delimCount(text)
        BY <1>6
    <2>4. Len(stack') <= delimCount(text)
        BY <1>2, <1>4, <1>8
    <2> QED
        BY <1>8, <1>11, <2>1, <2>2, <2>3, <2>4 DEF StackIsRead
<1>13. PiecesFollow'
    <2>1. Len(stack') + Len(pieces') = delimCount(text)
        BY <1>2, <1>3, <1>4, <1>8, <1>9
    <2>2. ASSUME NEW i \in 1..Len(pieces')
          PROVE  pieces'[i] = text[Len(stack') + i]
        <3>1. i + 1 \in 1..Len(pieces) /\ n + (i + 1) = (n + 1) + i
            BY <1>3, <1>9, <2>2
        <3>2. pieces[i + 1] = text[n + (i + 1)]
            BY <1>1, <3>1 DEF PiecesFollow
        <3> QED
            BY <1>8, <1>9, <2>2, <3>1, <3>2
    <2> QED
        BY <1>6, <2>1, <2>2 DEF PiecesFollow
<1>14. ~IsNumber' /\ "ENUM_OPER_INVAL" \notin errors'
    BY <1>1, <1>6 DEF IsNumber, Complaint
<1>15. Reading' /\ Applied'
    BY <1>6, <1>12, <1>13, <1>14 DEF Reading, Applied
<1> QED
    BY <1>1, <1>6, <1>10, <1>15

\* The recursion reports what it did not find behind the last entry.
LEMMA ApplyStackStep == IInv /\ ApplyStack => IInv'
<1> SUFFICES ASSUME IInv, ApplyStack PROVE IInv'
    OBVIOUS
<1> USE DEF IInv
<1>1. /\ IsText(text) /\ TypeOK /\ StackIsRead /\ PiecesFollow
      /\ ~IsNumber /\ "ENUM_OPER_INVAL" \notin errors
    BY DEF ApplyStack, Reading
<1>2. delimCount(text) \in 1..3
    BY <1>1, PieceCount
<1>3. Len(stack) = delimCount(text)
    <2>1. Len(pieces) = 0 /\ Len(stack) \in Nat
        BY <1>1 DEF ApplyStack, TypeOK
    <2> QED
        BY <1>1, <2>1 DEF PiecesFollow
<1>4. /\ errors' = errors \cup StackError /\ phase' = "done"
      /\ UNCHANGED <<text, wrapped, pieces, stack>>
    BY DEF ApplyStack
<1>5. PICK unassigned \in Values : result' = getApplyEnum(unassigned)
    BY DEF ApplyStack
<1>6. result' \in Values
    BY <1>1, <1>2, <1>3, <1>5, ResultTyped
<1>7. TypeOK'
    BY <1>1, <1>4, <1>6 DEF TypeOK, StackError
<1>8. StackIsRead'
    <2>1. \A part : FlagOf(part)' = FlagOf(part) /\ Known(part)' = Known(part)
        BY <1>4 DEF FlagOf, Known, InMagic
    <2>2. "NOT_ENUM_IN_MAP" \notin errors' => "NOT_ENUM_IN_MAP" \notin errors
        BY <1>4
    <2> QED
        BY <1>1, <1>4, <2>1, <2>2 DEF StackIsRead
<1>9. "ENUM_OPER_INVAL" \in errors' <=> TrailingOperator'
    BY <1>1, <1>4 DEF StackError, TrailingOperator
<1>10. getApplyEnum(unassigned)' = getApplyEnum(unassigned)
    BY <1>4 DEF getApplyEnum
<1>11. Applied'
    BY <1>3, <1>4, <1>5, <1>8, <1>9, <1>10 DEF Applied
<1> QED
    BY <1>1, <1>4, <1>7, <1>11 DEF Reading

LEMMA StepKeepsInv == IInv /\ [Next]_vars => IInv'
<1> SUFFICES ASSUME IInv, [Next]_vars PROVE IInv'
    OBVIOUS
<1>1. CASE ReadNumber
    <2>1. NumberValue[text[1].name] \in Values
        BY <1>1, EnumeratorsTyped DEF ReadNumber, IsNumber
    <2>2. TypeOK' /\ IsText(text)'
        BY <1>1, <2>1 DEF ReadNumber, IInv, TypeOK
    <2> QED
        BY <1>1, <2>2 DEF ReadNumber, IsNumber, IInv, Reading, Applied
<1>2. CASE Split
    BY <1>2, SplitStep
<1>3. CASE ReadPiece
    BY <1>3, ReadPieceStep
<1>4. CASE ReadEmptyPiece
    <2>1. TypeOK' /\ IsText(text)'
        BY <1>4 DEF ReadEmptyPiece, IInv, TypeOK
    <2>2. Reading'
        BY <1>4 DEF ReadEmptyPiece, IInv, Reading, IsNumber, StackIsRead, FlagOf, Known,
                    InMagic, PiecesFollow
    <2> QED
        BY <1>4, <2>1, <2>2 DEF ReadEmptyPiece, IInv, Applied
<1>5. CASE ApplyStack
    BY <1>5, ApplyStackStep
<1>6. CASE UNCHANGED vars
    <2>1. \A unassigned : getApplyEnum(unassigned)' = getApplyEnum(unassigned)
        BY <1>6 DEF vars, getApplyEnum
    <2>2. /\ IsNumber' = IsNumber /\ TrailingOperator' = TrailingOperator
          /\ StackIsRead' = StackIsRead /\ PiecesFollow' = PiecesFollow
        BY <1>6 DEF vars, IsNumber, TrailingOperator, StackIsRead, PiecesFollow, FlagOf, Known,
                    InMagic
    <2>3. TypeOK' /\ IsText(text)'
        BY <1>6 DEF vars, IInv, TypeOK
    <2> QED
        BY <1>6, <2>1, <2>2, <2>3 DEF vars, IInv, Reading, Applied
<1> QED
    BY <1>1, <1>2, <1>3, <1>4, <1>5, <1>6 DEF Next

LEMMA Inductive == Spec => []IInv
<1> QED
    BY InitIsInv, StepKeepsInv, PTL DEF Spec

\* Every variable of the splitter keeps its type, the value included, whatever
\* the recursion returns behind a trailing operator.
THEOREM EnumTypeCorrect == Spec => []TypeOK
<1>1. IInv => TypeOK
    BY DEF IInv
<1> QED
    BY <1>1, Inductive, PTL

\* An operand is lost exactly when the recursion found an operator behind the
\* last piece it had counted, and said so.
THEOREM LossIsReportedHolds == Spec => []LossIsReported
<1>1. ASSUME IInv PROVE LossIsReported
    <2> SUFFICES ASSUME phase = "done", ~IsNumber
                 PROVE  "ENUM_OPER_INVAL" \in errors <=> Len(text) > delimCount(text)
        BY DEF LossIsReported
    <2> DEFINE count == delimCount(text)
    <2>1. /\ StackIsRead /\ Len(stack) = count /\ IsText(text)
          /\ "ENUM_OPER_INVAL" \in errors <=> TrailingOperator
        BY <1>1 DEF IInv, Applied
    <2>2. count \in 1..3 /\ count <= Len(text) /\ Len(text) \in Nat
        BY <2>1, PieceCount DEF IsText
    <2>3. stack[count].op = text[count].op
        BY <2>1, <2>2 DEF StackIsRead
    <2>4. text[count].op = "end" <=> count = Len(text)
        BY <2>1, <2>2 DEF IsText, Operators
    <2> HIDE DEF count
    <2>5. TrailingOperator <=> count # Len(text)
        BY <2>1, <2>3, <2>4 DEF TrailingOperator
    <2>6. count # Len(text) <=> Len(text) > count
        BY <2>2
    <2> QED
        BY <2>1, <2>5, <2>6 DEF count
<1> QED
    BY <1>1, Inductive, PTL

-----------------------------------------------------------------------------
(***************************************************************************)
(* What C++ makes of a text of at most three operands.                     *)
(***************************************************************************)
IsRun(parts, first, last) ==
    /\ first \in DOMAIN parts /\ last \in DOMAIN parts /\ first <= last
    /\ first = 1 \/ parts[first - 1].op = "|"
    /\ parts[last].op # "&"
    /\ \A k \in first..(last - 1) : parts[k].op = "&"

LEMMA CxxMember ==
    ASSUME NEW parts, NEW bit \in Bits
    PROVE  bit \in CxxValue(parts) <=>
              \E first, last \in DOMAIN parts :
                 /\ IsRun(parts, first, last)
                 /\ \A k \in first..last : bit \in Meaning(parts[k])
<1>1. \A first, last : <<first, last>> \in Runs(parts) <=> IsRun(parts, first, last)
    BY DEF Runs, IsRun
<1>2. \A run \in Runs(parts) : run = <<run[1], run[2]>> /\ IsRun(parts, run[1], run[2])
    BY DEF Runs, IsRun
<1>3. ASSUME bit \in CxxValue(parts)
      PROVE  \E first, last \in DOMAIN parts :
                 /\ IsRun(parts, first, last)
                 /\ \A k \in first..last : bit \in Meaning(parts[k])
    <2>1. PICK run \in Runs(parts) : \A k \in run[1]..run[2] : bit \in Meaning(parts[k])
        BY <1>3 DEF CxxValue
    <2>2. run[1] \in DOMAIN parts /\ run[2] \in DOMAIN parts
        BY <1>2 DEF IsRun
    <2> QED
        BY <1>2, <2>1, <2>2
<1>4. ASSUME NEW first \in DOMAIN parts, NEW last \in DOMAIN parts,
             IsRun(parts, first, last),
             \A k \in first..last : bit \in Meaning(parts[k])
      PROVE  bit \in CxxValue(parts)
    <2> DEFINE run == <<first, last>>
    <2>1. run \in Runs(parts) /\ run[1] = first /\ run[2] = last
        BY <1>1, <1>4
    <2>2. \A k \in run[1]..run[2] : bit \in Meaning(parts[k])
        BY <1>4, <2>1
    <2> HIDE DEF run
    <2> QED
        BY <2>1, <2>2 DEF CxxValue
<1> QED
    BY <1>3, <1>4

\* The value of a text, operator by operator.
ShortValue(parts) ==
    IF Len(parts) = 1 THEN Meaning(parts[1])
    ELSE IF Len(parts) = 2 THEN Apply(Meaning(parts[1]), parts[1].op, Meaning(parts[2]))
    ELSE Apply(Meaning(parts[1]), parts[1].op,
               Apply(Meaning(parts[2]), parts[2].op, Meaning(parts[3])))

LEMMA ShortTexts ==
    ASSUME NEW parts, IsText(parts), Len(parts) \in 1..3, OrsFirst(parts),
           \A i \in DOMAIN parts : Meaning(parts[i]) \in Values
    PROVE  CxxValue(parts) = ShortValue(parts)
<1> DEFINE IsIn(bit, i) == bit \in Meaning(parts[i])
<1>1. DOMAIN parts = 1..Len(parts) /\ CxxValue(parts) \subseteq Bits
    BY DEF IsText, CxxValue
<1>2. ShortValue(parts) \subseteq Bits
    BY <1>1 DEF ShortValue, Apply, Values
<1> SUFFICES ASSUME NEW bit \in Bits
             PROVE  bit \in CxxValue(parts) <=> bit \in ShortValue(parts)
    BY <1>1, <1>2
<1>3. \A i \in 1..Len(parts) :
         IF i = Len(parts) THEN parts[i].op = "end" ELSE parts[i].op \in {"|", "&"}
    BY <1>1 DEF IsText, Operators
<1>4. CASE Len(parts) = 1
    <2>1. \A first, last \in DOMAIN parts :
             IsRun(parts, first, last) <=> first = 1 /\ last = 1
        BY <1>1, <1>3, <1>4 DEF IsRun
    <2>2. bit \in CxxValue(parts) <=> IsIn(bit, 1)
        BY <1>1, <1>4, <2>1, CxxMember
    <2> QED
        BY <1>4, <2>2 DEF ShortValue
<1>5. CASE Len(parts) = 2 /\ parts[1].op = "|"
    <2>1. \A first, last \in DOMAIN parts :
             IsRun(parts, first, last) <=> first = last
        BY <1>1, <1>3, <1>5 DEF IsRun
    <2>2. bit \in CxxValue(parts) <=> IsIn(bit, 1) \/ IsIn(bit, 2)
        BY <1>1, <1>5, <2>1, CxxMember
    <2> QED
        BY <1>5, <2>2 DEF ShortValue, Apply
<1>6. CASE Len(parts) = 2 /\ parts[1].op = "&"
    <2>1. \A first, last \in DOMAIN parts :
             IsRun(parts, first, last) <=> first = 1 /\ last = 2
        BY <1>1, <1>3, <1>6 DEF IsRun
    <2>2. bit \in CxxValue(parts) <=> IsIn(bit, 1) /\ IsIn(bit, 2)
        BY <1>1, <1>6, <2>1, CxxMember
    <2> QED
        BY <1>6, <2>2 DEF ShortValue, Apply
<1>7. CASE Len(parts) = 3 /\ parts[1].op = "|" /\ parts[2].op = "|"
    <2>1. \A first, last \in DOMAIN parts :
             IsRun(parts, first, last) <=> first = last
        BY <1>1, <1>3, <1>7 DEF IsRun
    <2>2. bit \in CxxValue(parts) <=> IsIn(bit, 1) \/ IsIn(bit, 2) \/ IsIn(bit, 3)
        BY <1>1, <1>7, <2>1, CxxMember
    <2> QED
        BY <1>7, <2>2 DEF ShortValue, Apply
<1>8. CASE Len(parts) = 3 /\ parts[1].op = "|" /\ parts[2].op = "&"
    <2>1. \A first, last \in DOMAIN parts :
             IsRun(parts, first, last) <=>
                (first = 1 /\ last = 1) \/ (first = 2 /\ last = 3)
        BY <1>1, <1>3, <1>8 DEF IsRun
    <2>2. bit \in CxxValue(parts) <=> IsIn(bit, 1) \/ (IsIn(bit, 2) /\ IsIn(bit, 3))
        <3>1. bit \in CxxValue(parts) <=>
                 (\A k \in 1..1 : IsIn(bit, k)) \/ (\A k \in 2..3 : IsIn(bit, k))
            <4> HIDE DEF IsIn
            <4>1. bit \in CxxValue(parts) <=>
                     \E first, last \in DOMAIN parts :
                        IsRun(parts, first, last) /\ \A k \in first..last : IsIn(bit, k)
                BY CxxMember DEF IsIn
            <4>2. {1, 2, 3} \subseteq DOMAIN parts
                BY <1>1, <1>8
            <4> QED
                BY <2>1, <4>1, <4>2
        <3>2. \A k \in 1..1 : k = 1
            OBVIOUS
        <3>3. \A k \in 2..3 : k = 2 \/ k = 3
            OBVIOUS
        <3> HIDE DEF IsIn
        <3> QED
            BY <3>1, <3>2, <3>3
    <2> QED
        BY <1>8, <2>2 DEF ShortValue, Apply
<1>9. CASE Len(parts) = 3 /\ parts[1].op = "&" /\ parts[2].op = "&"
    <2>1. \A first, last \in DOMAIN parts :
             IsRun(parts, first, last) <=> first = 1 /\ last = 3
        BY <1>1, <1>3, <1>9 DEF IsRun
    <2>2. bit \in CxxValue(parts) <=> IsIn(bit, 1) /\ IsIn(bit, 2) /\ IsIn(bit, 3)
        BY <1>1, <1>9, <2>1, CxxMember
    <2> QED
        BY <1>9, <2>2 DEF ShortValue, Apply
<1>10. ~ (Len(parts) = 3 /\ parts[1].op = "&" /\ parts[2].op = "|")
    BY <1>1 DEF OrsFirst
<1> QED
    BY <1>3, <1>4, <1>5, <1>6, <1>7, <1>8, <1>9, <1>10

-----------------------------------------------------------------------------
\* A name that is found, and not for another, has the flag it stands for,
\* whichever table it was found in.
LEMMA KnownMeans ==
    ASSUME NEW part, Known(part), ~Mistaken(part)
    PROVE  Named(part) /\ FlagOf(part) = Meaning(part) /\ Meaning(part) \in Values
<1>1. CASE InMagic(part)
    <2>1. part.name \in DOMAIN MagicValue
        BY <1>1 DEF InMagic
    <2>2. FlagOf(part) = MagicValue[part.name]
        BY <1>1 DEF FlagOf
    <2>3. Meaning(part) = MagicValue[part.name]
        BY <2>1 DEF Meaning
    <2>4. MagicValue[part.name] \in Values
        BY <2>1, EnumeratorsTyped
    <2>5. Named(part)
        BY <2>1 DEF Named
    <2> QED
        BY <2>2, <2>3, <2>4, <2>5
<1>2. CASE ~InMagic(part)
    <2>1. part.name \in DOMAIN MapEntry /\ MapEntry[part.name] = part.name
        BY <1>2 DEF Known, Mistaken
    <2>2. part.name \in DOMAIN MapValue
        BY <2>1, EntriesTyped
    <2>3. FlagOf(part) = MapValue[part.name]
        BY <1>2, <2>1, <2>2 DEF FlagOf, Known, EntryValue
    <2>4. Meaning(part) = MapValue[part.name]
        BY <2>2, EnumeratorsAgree DEF Meaning
    <2> QED
        BY <2>2, <2>3, <2>4, EnumeratorsTyped DEF Named
<1> QED
    BY <1>1, <1>2

\* Without a complaint every operand was found, none was lost, and if each was
\* found under its own name, the value is the one C++ gives the text, unless a
\* | follows an &: neither the pieces counted by different operators nor the
\* blanks left on a name change anything silently.
THEOREM SilentMeansRightHolds == Spec => []SilentMeansRight
<1>1. ASSUME IInv PROVE SilentMeansRight
    <2> SUFFICES ASSUME phase = "done", errors = {}, ~IsNumber
                 PROVE  /\ \A i \in DOMAIN text : Named(text[i]) \/ Mistaken(text[i])
                        /\ OrsFirst(text) /\ (\A i \in DOMAIN text : ~Mistaken(text[i])) =>
                              result = CxxValue(text)
        BY DEF SilentMeansRight
    <2> DEFINE n == Len(text)
    <2>1. /\ StackIsRead /\ Len(stack) = delimCount(text) /\ IsText(text)
          /\ ~TrailingOperator
        BY <1>1 DEF IInv, Applied
    <2>2. delimCount(text) \in 1..3 /\ delimCount(text) <= n /\ DOMAIN text = 1..n
        BY <2>1, PieceCount DEF IsText
    <2>3. Len(stack) = n /\ n \in 1..3
        <3>1. text[delimCount(text)].op = "end"
            BY <2>1, <2>2 DEF StackIsRead, TrailingOperator
        <3>2. delimCount(text) = n
            BY <2>1, <2>2, <3>1 DEF IsText, Operators
        <3> QED
            BY <2>1, <2>2, <3>2
    <2>4. \A i \in 1..n : Known(text[i])
        BY <2>1, <2>3 DEF StackIsRead
    <2>5. \A i \in 1..n : Named(text[i]) \/ Mistaken(text[i])
        BY <2>4, KnownMeans
    <2>6. ASSUME OrsFirst(text), \A i \in DOMAIN text : ~Mistaken(text[i])
          PROVE  result = CxxValue(text)
        <3>1. \A i \in 1..n : /\ Named(text[i]) /\ Meaning(text[i]) \in Values
                              /\ FlagOf(text[i]) = Meaning(text[i])
            BY <2>2, <2>4, <2>6, KnownMeans
        <3>2. \A i \in 1..n : stack[i].value = Meaning(text[i]) /\ stack[i].op = text[i].op
            <4>1. \A i \in 1..n : stack[i] = [value |-> FlagOf(text[i]), op |-> text[i].op]
                BY <2>1, <2>3 DEF StackIsRead
            <4>2. ASSUME NEW i \in 1..n
                  PROVE  stack[i].value = FlagOf(text[i]) /\ stack[i].op = text[i].op
                <5> DEFINE flag == FlagOf(text[i])
                           op   == text[i].op
                <5>1. stack[i] = [value |-> flag, op |-> op]
                    BY <4>1
                <5> HIDE DEF flag, op
                <5>2. stack[i].value = flag /\ stack[i].op = op
                    BY <5>1
                <5> QED
                    BY <5>2 DEF flag, op
            <4> QED
                BY <3>1, <4>2
        <3>3. PICK unassigned \in Values : result = getApplyEnum(unassigned)
            BY <1>1 DEF IInv, Applied
        <3>4. text[n].op = "end" /\ \A i \in 1..(n - 1) : text[i].op # "end"
            BY <2>1, <2>2, <2>3 DEF IsText, Operators
        <3>5. result = ShortValue(text)
            <4>1. CASE n = 1
                BY <2>3, <3>2, <3>3, <3>4, <4>1, ApplyUnfolds DEF Level, ShortValue
            <4>2. CASE n = 2
                BY <2>3, <3>2, <3>3, <3>4, <4>2, ApplyUnfolds DEF Level, ShortValue
            <4>3. CASE n = 3
                BY <2>3, <3>2, <3>3, <3>4, <4>3, ApplyUnfolds DEF Level, ShortValue
            <4> QED
                BY <2>3, <4>1, <4>2, <4>3
        <3>6. CxxValue(text) = ShortValue(text)
            BY <2>1, <2>2, <2>3, <2>6, <3>1, ShortTexts
        <3> QED
            BY <3>5, <3>6
    <2> QED
        BY <2>2, <2>5, <2>6
<1> QED
    BY <1>1, Inductive, PTL
=============================================================================
