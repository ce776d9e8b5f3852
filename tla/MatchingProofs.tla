---------------------------- MODULE MatchingProofs ----------------------------
(***************************************************************************)
(* What children are given to which fields, how the program can come to a  *)
(* stop, that documents without references are stored whole, and that the  *)
(* one reference of a document works, for all documents.                   *)
(***************************************************************************)
EXTENDS XmlProcessorProofs, WellFormedDocuments

-----------------------------------------------------------------------------
(***************************************************************************)
(* Arrays.                                                                 *)
(***************************************************************************)
\* The children a field holds are registered extractors, whose type stays.
ArraysRegistered ==
    \A e \in Slots, f \in Fields : IsArray(container[e][f]) =>
        \A i \in DOMAIN container[e][f] : container[e][f][i] \in 1..extCount

\* A field of any extractor is left alone, read from text, new, or assigned.
LEMMA AnyFieldStep ==
    ASSUME TypeOK, LoopInv, [Next]_vars, NEW e \in Slots, NEW f \in Fields
    PROVE  \/ container'[e][f] = container[e][f]
           \/ container'[e][f] \in {Literal, Unset}
           \/ \E type \in Types :
                LinkAssign(type) /\ container'[e][f] = FieldValue(childInfo[type].pointer)
<1>1. container[e] \in Content
    BY DEF TypeOK, XmlTypeOK
<1>2. ASSUME NEW type \in Types, NEW id \in Ids \cup {NoId}, PushExtractor(type, id)
      PROVE  container'[e][f] \in {container[e][f], Unset}
    <2>1. CASE e = extCount + 1
        BY <1>2, <2>1 DEF PushExtractor, TypeOK, XmlTypeOK
    <2>2. CASE e # extCount + 1
        BY <1>2, <2>2 DEF PushExtractor, TypeOK, XmlTypeOK
    <2> QED
        BY <2>1, <2>2
<1>3. ASSUME NEW written \in Slots, NEW field, NEW value,
             container' = SetField(written, field, value)
      PROVE  container'[e][f] \in {container[e][f], value}
    BY <1>1, <1>3 DEF SetField, TypeOK, XmlTypeOK, Content
<1>4. ASSUME NEW element \in LiteralElements, EnterLiteral(element[1], element[2])
      PROVE  container'[e][f] \in {container[e][f], Literal}
    <2>1. extractor \in Slots
        BY <1>4, MaxCharSizePos DEF EnterLiteral, TypeOK, XmlTypeOK, Slots
    <2> QED
        BY <1>3, <1>4, <2>1 DEF EnterLiteral
<1>5. ASSUME NEW type \in Types, LinkAssign(type)
      PROVE  container'[e][f] \in {container[e][f], FieldValue(childInfo[type].pointer)}
    <2>1. childInfo[type].parent \in Slots
        BY <1>5 DEF LinkAssign, Linking, LoopInv, PendingTypes, TypeOK, LinkTypeOK, Link
    <2> QED
        BY <1>3, <1>5, <2>1 DEF LinkAssign
<1> QED
    BY <1>2, <1>4, <1>5, Frame DEF EnterStruct, EnterBadStruct

LEMMA ArraysStep ==
    ASSUME TypeOK, LoopInv, PointersRegistered, ArraysOfOneType, ArraysRegistered,
           [Next]_vars
    PROVE  ArraysOfOneType' /\ ArraysRegistered'
<1> SUFFICES ASSUME NEW e \in Slots, NEW f \in Fields, IsArray(container'[e][f])
             PROVE  /\ container'[e][f] # <<>>
                    /\ \E t \in StructTypes : \A i \in DOMAIN container'[e][f] :
                          extractorType'[container'[e][f][i]] = t
                    /\ \A i \in DOMAIN container'[e][f] :
                          container'[e][f][i] \in 1..extCount'
    BY DEF ArraysOfOneType, ArraysRegistered, IsArray
<1>1. CASE container'[e][f] = container[e][f]
    <2> DEFINE value == container[e][f]
    <2>1. IsArray(value)
        BY <1>1
    <2>2. value # <<>> /\ \A i \in DOMAIN value : value[i] \in 1..extCount
        BY <2>1 DEF ArraysOfOneType, ArraysRegistered
    <2>3. PICK t \in StructTypes : \A i \in DOMAIN value : extractorType[value[i]] = t
        BY <2>1 DEF ArraysOfOneType
    <2>4. \A i \in DOMAIN value :
              value[i] \in 1..extCount' /\ extractorType'[value[i]] = t
        BY <2>2, <2>3, RegisteredStays
    <2> QED
        BY <1>1, <2>2, <2>4
<1>2. CASE container'[e][f] \in {Literal, Unset}
    BY <1>2 DEF IsArray
<1>3. ASSUME NEW type \in Types, LinkAssign(type),
             container'[e][f] = FieldValue(childInfo[type].pointer)
      PROVE  /\ container'[e][f] # <<>>
             /\ \E t \in StructTypes : \A i \in DOMAIN container'[e][f] :
                   extractorType'[container'[e][f][i]] = t
             /\ \A i \in DOMAIN container'[e][f] :
                   container'[e][f][i] \in 1..extCount'
    <2> DEFINE value == FieldValue(childInfo[type].pointer)
    <2>1. /\ value # <<>>
          /\ \A i \in DOMAIN value :
                value[i] \in 1..extCount /\ extractorType[value[i]] = type
        BY <1>3, AssignedValue
    <2>2. type \in StructTypes
        BY <1>3, ChildTyped DEF LinkAssign, CanConvert, PositionsOf, TypeOK
    <2> HIDE DEF value
    <2>3. \A i \in DOMAIN value :
              value[i] \in 1..extCount' /\ extractorType'[value[i]] = type
        BY <2>1, RegisteredStays
    <2>4. container'[e][f] = value
        BY <1>3 DEF value
    <2> QED
        BY <2>1, <2>2, <2>3, <2>4
<1> QED
    BY <1>1, <1>2, <1>3, AnyFieldStep

\* Every value a field gets from references is made of one or more structs of
\* one type, although all children collected for an element go through one cast.
THEOREM ArraysOfOneTypeHolds == Spec => []ArraysOfOneType
<1> DEFINE Inv == /\ TypeOK /\ LoopInv /\ PointersRegistered
                  /\ ArraysOfOneType /\ ArraysRegistered
<1>1. Init => Inv
    <2> SUFFICES ASSUME Init PROVE ArraysOfOneType /\ ArraysRegistered
        BY TypeInit, PointersInit
    <2>1. \A e \in Slots, f \in Fields : ~IsArray(container[e][f])
        BY DEF Init, IsArray
    <2> QED
        BY <2>1 DEF ArraysOfOneType, ArraysRegistered
<1>2. Inv /\ [Next]_vars => Inv'
    BY TypingStep, PointersStep, ArraysStep
<1> QED
    BY <1>1, <1>2, PTL DEF Spec

-----------------------------------------------------------------------------
(***************************************************************************)
(* The strings of the references.                                          *)
(***************************************************************************)
\* Every piece of a string, in use or left behind, is a key some reference named.
StringsNamed ==
    \A k \in 0..MaxCharSize - 1 : \A i \in DOMAIN parentIds[k] :
        parentIds[k][i] \in NamedKeys

\* Strings change with references only, and references are only added.
LEMMA StringFrame ==
    ASSUME [Next]_vars
    PROVE  \/ UNCHANGED <<parentIds, childCount, references, idTagFound>>
           \/ ExitStore /\ UNCHANGED <<parentIds, references, idTagFound>>
           \/ ExitMatch /\ UNCHANGED <<parentIds, childCount, references>>
           \/ \E ref \in ReferenceElements : EnterReference(ref)
<1> USE DEF linkVars, matchVars, loopVars, walkVars, extVars, childVars, flagVars,
            processVars, historyVars
<1>1. CASE StartProcess \/ LoadFails \/ FinishProcess
    BY <1>1, Zenon DEF StartProcess, LoadFails, FinishProcess
<1>2. ASSUME NEW how, Crash(how)
      PROVE  UNCHANGED <<parentIds, childCount, references, idTagFound>>
    BY <1>2, Zenon DEF Crash
<1>3. CASE \/ EnterOther \/ EnterStructOverflow \/ EnterFieldTooEarly
           \/ \E ref \in ReferenceElements : EnterReferenceOverflow(ref)
           \/ \E element \in StructElements : \/ EnterStruct(element[1], element[2])
                                             \/ EnterBadStruct(element[1], element[2])
           \/ \E element \in LiteralElements : \/ EnterLiteral(element[1], element[2])
                                              \/ EnterUnreadableField(element[2])
                                              \/ EnterLiteralNoHandler(element[2])
    BY <1>2, <1>3, Zenon DEF EnterOther, EnterStructOverflow, EnterFieldTooEarly,
       EnterReferenceOverflow, EnterStruct, EnterBadStruct, EnterLiteral,
       EnterUnreadableField, EnterLiteralNoHandler
<1>4. CASE ExitField \/ ExitOther \/ ExitBadStruct \/ ExitNoMatch
    BY <1>4, Zenon DEF ExitField, ExitOther, ExitBadStruct, ExitNoMatch
<1>5. CASE ExitStore
    BY <1>5, Zenon DEF ExitStore, ClearParTags
<1>6. CASE ExitMatch
    BY <1>6, Zenon DEF ExitMatch
<1>7. CASE \E type \in Types : \/ LinkNoMatch(type) \/ LinkAssign(type)
                               \/ LinkRefused(type) \/ LinkTerminates(type)
                               \/ LinkUndefined(type)
    BY <1>2, <1>7, Zenon DEF LinkNoMatch, LinkAssign, LinkRefused, LinkTerminates,
       LinkUndefined
<1>8. CASE LinkDone
    BY <1>8, Zenon DEF LinkDone, Erase
<1>9. CASE UNCHANGED vars
    BY <1>9, Zenon DEF vars
<1> QED
    BY <1>1, <1>3, <1>4, <1>5, <1>6, <1>7, <1>8, <1>9, Zenon DEF Next, Enter, Exit

LEMMA NamedGrow ==
    ASSUME [Next]_vars
    PROVE  NamedKeys \subseteq NamedKeys'
<1>1. references \subseteq references'
    BY StringFrame DEF EnterReference
<1> QED
    BY <1>1 DEF NamedKeys

LEMMA StringsNamedStep ==
    ASSUME TypeOK, StringsNamed, [Next]_vars
    PROVE  StringsNamed'
<1> SUFFICES ASSUME NEW k \in 0..MaxCharSize - 1, NEW i \in DOMAIN parentIds'[k]
             PROVE  parentIds'[k][i] \in NamedKeys'
    BY DEF StringsNamed
<1>1. CASE UNCHANGED parentIds
    BY <1>1, NamedGrow DEF StringsNamed
<1>2. ASSUME NEW ref \in ReferenceElements, EnterReference(ref)
      PROVE  parentIds'[k][i] \in NamedKeys'
    <2> DEFINE j == k - childCount + 1
    <2>1. ref \in ReferenceElement /\ childCount \in Nat
          /\ parentIds[k] \in Seq(Ids \X Types) /\ DOMAIN parentIds = 0..MaxCharSize - 1
        BY ReferenceElementsTyped, MaxCharSizePos DEF TypeOK, LinkTypeOK
    <2>2. ref.ids \in Seq(Ids)
        BY <2>1 DEF ReferenceElement
    <2>3. parentIds'[k] = IF k \in childCount..childCount + Len(ref.ids) - 1
                          THEN Append(parentIds[k], <<ref.ids[j], ref.type>>)
                          ELSE parentIds[k]
        BY <1>2, <2>1 DEF EnterReference, Add, ParseChildRef
    <2>4. ASSUME NEW n \in DOMAIN ref.ids
          PROVE  <<ref.ids[n], ref.type>> \in NamedKeys'
        <3>1. <<extractor, ref>> \in references'
            BY <1>2 DEF EnterReference
        <3> QED
            BY <3>1 DEF NamedKeys
    <2>5. CASE i \in DOMAIN parentIds[k] /\ parentIds'[k][i] = parentIds[k][i]
        BY <2>5, NamedGrow DEF StringsNamed
    <2>6. CASE /\ k \in childCount..childCount + Len(ref.ids) - 1
               /\ parentIds'[k][i] = <<ref.ids[j], ref.type>>
        <3>1. j \in DOMAIN ref.ids
            BY <2>1, <2>2, <2>6
        <3> QED
            BY <2>4, <2>6, <3>1
    <2>7. \/ i \in DOMAIN parentIds[k] /\ parentIds'[k][i] = parentIds[k][i]
          \/ /\ k \in childCount..childCount + Len(ref.ids) - 1
             /\ parentIds'[k][i] = <<ref.ids[j], ref.type>>
        BY <2>1, <2>3
    <2> QED
        BY <2>5, <2>6, <2>7
<1> QED
    BY <1>1, <1>2, StringFrame

LEMMA NamedChildrenStep ==
    ASSUME TypeOK, StringsNamed, OnlyNamedChildren, [Next]_vars
    PROVE  OnlyNamedChildren'
<1> SUFFICES ASSUME NEW i \in DOMAIN children'
             PROVE  children'[i].key \in NamedKeys'
    BY DEF OnlyNamedChildren
<1>1. CASE UNCHANGED children
    BY <1>1, NamedGrow DEF OnlyNamedChildren
<1>2. CASE LinkDone
    BY <1>2 DEF LinkDone, Release
<1>3. CASE ExitMatch
    <2>1. children'[i].key \in MatchedKeys(LiveKeys)
        BY <1>3, Collected DEF ExitMatch, TypeOK
    <2>2. PICK k \in MatchIds : parentIds[k] = <<children'[i].key>>
        BY <2>1 DEF MatchedKeys
    <2>3. k \in 0..MaxCharSize - 1
        BY <2>2, MaxCharSizePos DEF MatchIds, TypeOK, LinkTypeOK
    <2>4. 1 \in DOMAIN parentIds[k] /\ parentIds[k][1] = children'[i].key
        BY <2>2
    <2> QED
        BY <2>3, <2>4, NamedGrow DEF StringsNamed
<1> QED
    BY <1>1, <1>2, <1>3, Frame

\* No child is collected that no reference named, whatever earlier references
\* left in the strings.
THEOREM OnlyNamedChildrenHolds == Spec => []OnlyNamedChildren
<1> DEFINE Inv == TypeOK /\ LoopInv /\ StringsNamed /\ OnlyNamedChildren
<1>1. Init => Inv
    <2> SUFFICES ASSUME Init PROVE StringsNamed /\ OnlyNamedChildren
        BY TypeInit
    <2>1. children = <<>> /\ \A k \in 0..MaxCharSize - 1 : parentIds[k] = <<>>
        BY DEF Init, LinkInit, MatchInit
    <2> QED
        BY <2>1 DEF StringsNamed, OnlyNamedChildren
<1>2. Inv /\ [Next]_vars => Inv'
    BY TypingStep, StringsNamedStep, NamedChildrenStep
<1> QED
    BY <1>1, <1>2, PTL DEF Spec
-----------------------------------------------------------------------------
(***************************************************************************)
(* How the program can stop.                                               *)
(***************************************************************************)
\* The steps after which nothing runs.
LEMMA Stops ==
    ASSUME [Next]_vars, phase' \in {"terminated", "undefined"}
    PROVE  \/ UNCHANGED vars
           \/ phase' = "terminated" /\ \E type \in Types : LinkTerminates(type)
           \/ /\ phase' = "undefined"
              /\ \/ EnterStructOverflow
                 \/ \E ref \in ReferenceElements : EnterReferenceOverflow(ref)
                 \/ \E element \in LiteralElements : EnterLiteralNoHandler(element[2])
                 \/ \E type \in Types : LinkUndefined(type)
<1>1. CASE StartProcess \/ LoadFails \/ FinishProcess
    BY <1>1 DEF StartProcess, LoadFails, FinishProcess, walkVars
<1>2. CASE \/ EnterOther \/ EnterFieldTooEarly
           \/ \E element \in StructElements : \/ EnterStruct(element[1], element[2])
                                             \/ EnterBadStruct(element[1], element[2])
           \/ \E ref \in ReferenceElements : EnterReference(ref)
           \/ \E element \in LiteralElements : \/ EnterLiteral(element[1], element[2])
                                              \/ EnterUnreadableField(element[2])
    BY <1>2 DEF EnterOther, EnterFieldTooEarly, EnterStruct, EnterBadStruct,
       EnterReference, EnterLiteral, EnterUnreadableField, Descend
<1>3. CASE ExitField \/ ExitOther \/ ExitBadStruct \/ ExitStore \/ ExitNoMatch
    BY <1>3 DEF ExitField, ExitOther, ExitBadStruct, ExitStore, ExitNoMatch,
       EndsStruct, Leaving
<1>4. CASE ExitMatch \/ LinkDone
    BY <1>4 DEF ExitMatch, LinkDone
<1>5. CASE \E type \in Types : LinkNoMatch(type) \/ LinkAssign(type) \/ LinkRefused(type)
    BY <1>5 DEF LinkNoMatch, LinkAssign, LinkRefused, Linking, walkVars
<1>6. CASE \/ EnterStructOverflow
           \/ \E ref \in ReferenceElements : EnterReferenceOverflow(ref)
           \/ \E element \in LiteralElements : EnterLiteralNoHandler(element[2])
           \/ \E type \in Types : LinkTerminates(type) \/ LinkUndefined(type)
    BY <1>6, Zenon DEF EnterStructOverflow, EnterReferenceOverflow,
       EnterLiteralNoHandler, LinkTerminates, LinkUndefined, Crash
<1> QED
    BY <1>1, <1>2, <1>3, <1>4, <1>5, <1>6, Zenon DEF Next, Enter, Exit

LEMMA TerminatedStep ==
    ASSUME TypeOK, TerminatedHasCause, [Next]_vars
    PROVE  TerminatedHasCause'
<1> SUFFICES ASSUME phase' = "terminated"
             PROVE  \E i, j \in DOMAIN children' : children'[i].key[2] # children'[j].key[2]
    BY DEF TerminatedHasCause
<1>1. CASE UNCHANGED vars
    BY <1>1 DEF TerminatedHasCause, vars, loopVars, matchVars, walkVars
<1>2. ASSUME NEW type \in Types, LinkTerminates(type)
      PROVE  \E i, j \in DOMAIN children' : children'[i].key[2] # children'[j].key[2]
    <2>1. children' = children
        BY <1>2 DEF LinkTerminates, Crash, loopVars, matchVars
    <2>2. PICK i \in DOMAIN children : children[i].key[2] = type
        BY <1>2 DEF LinkTerminates, PositionsOf
    <2>3. \E j \in DOMAIN children : children[j].key[2] # type
        <3>1. 1 \in DOMAIN children
            BY <2>2 DEF TypeOK, MatchTypeOK
        <3> QED
            BY <1>2, <3>1 DEF LinkTerminates, CastSucceeds, PositionsOf
    <2> QED
        BY <2>1, <2>2, <2>3
<1> QED
    BY <1>1, <1>2, Stops

\* std::bad_any_cast only leaves the noexcept cast, and ends the program, when
\* children of two types were collected for one closing element.
THEOREM TerminatedHasCauseHolds == Spec => []TerminatedHasCause
<1> DEFINE Inv == TypeOK /\ LoopInv /\ TerminatedHasCause
<1>1. Init => Inv
    BY TypeInit DEF Init, TerminatedHasCause
<1>2. Inv /\ [Next]_vars => Inv'
    BY TypingStep, TerminatedStep
<1> QED
    BY <1>1, <1>2, PTL DEF Spec

\* A string counted twice is there twice.
CountsHaveCause ==
    phase = "linking" /\ CountsUnwritten =>
        \E j, k \in MatchIds : j # k /\ parentIds[j] = parentIds[k]

\* The constructor counts strings and copies entries: with more strings than
\* entries, two of them name the same one.
LEMMA CountedTwice ==
    ASSUME TypeOK, Collect(ChildEntries), matchCount' > Len(children')
    PROVE  \E j, k \in MatchIds : j # k /\ parentIds[j] = parentIds[k]
<1> DEFINE keys   == {c.key : c \in ChildEntries}
           chosen == {c \in ChildEntries : c.key \in MatchedKeys(keys)}
           tags   == EqualTags(keys)
           entry  == [k \in tags |-> [key |-> parentIds[k][1],
                                      ext |-> childTypes[parentIds[k][1]]]]
<1>1. IsFiniteSet(chosen)
    BY EntriesFinite, FS_Subset DEF TypeOK
<1>2. Len(children') = Cardinality(chosen)
    <2>1. Cardinality(chosen) \in Nat
        BY <1>1, FS_CardinalityType
    <2>2. children' \in [1..Cardinality(chosen) -> chosen]
        BY DEF Collect, SetToSeqs
    <2> QED
        BY <2>1, <2>2
<1>3. matchCount' = Cardinality(tags)
    BY DEF Collect, CountMatches
<1>4. IsFiniteSet(tags)
    <2>1. IsFiniteSet(MatchIds)
        BY MaxCharSizePos, FS_Interval DEF MatchIds, TypeOK, LinkTypeOK
    <2> QED
        BY <2>1, FS_Subset DEF EqualTags
<1>5. \A k \in tags : parentIds[k] = <<parentIds[k][1]>> /\ parentIds[k][1] \in keys
    BY DEF EqualTags
<1>6. entry \in [tags -> chosen]
    <2> SUFFICES ASSUME NEW k \in tags PROVE entry[k] \in chosen
        OBVIOUS
    <2>1. PICK c \in ChildEntries : c.key = parentIds[k][1]
        BY <1>5
    <2>2. c = entry[k]
        BY <2>1 DEF ChildEntries
    <2>3. c.key \in MatchedKeys(keys)
        BY <1>5, <2>1 DEF EqualTags, MatchedKeys
    <2> QED
        BY <2>2, <2>3
<1>7. Cardinality(chosen) < Cardinality(tags)
    BY <1>1, <1>2, <1>3, <1>4, FS_CardinalityType
<1>8. PICK j, k \in tags : j # k /\ entry[j] = entry[k]
    <2> HIDE DEF chosen, tags, entry
    <2> QED
        BY <1>1, <1>4, <1>6, <1>7, FS_PigeonHole
<1>9. parentIds[j] = parentIds[k]
    BY <1>5, <1>8
<1> QED
    BY <1>8, <1>9 DEF EqualTags

\* Neither the strings nor the copies change during the loop.
LEMMA LoopKeeps ==
    ASSUME [Next]_vars, phase = "linking", phase' = "linking"
    PROVE  UNCHANGED <<linkVars, matchVars>>
<1> USE DEF loopVars, walkVars
<1>1. CASE StartProcess \/ LoadFails \/ FinishProcess
    BY <1>1 DEF StartProcess, LoadFails, FinishProcess
<1>2. CASE Enter
    BY <1>2 DEF Enter, EnterOther, EnterStruct, EnterBadStruct, EnterStructOverflow,
       EnterFieldTooEarly, EnterReference, EnterReferenceOverflow,
       EnterUnreadableField, EnterLiteral, EnterLiteralNoHandler, Descend
<1>3. CASE ExitField \/ ExitOther \/ ExitBadStruct \/ ExitStore \/ ExitNoMatch \/ ExitMatch
    BY <1>3 DEF ExitField, ExitOther, ExitBadStruct, ExitStore, ExitNoMatch, ExitMatch,
       EndsStruct, Leaving
<1>4. CASE \E type \in Types : LinkNoMatch(type) \/ LinkAssign(type) \/ LinkRefused(type)
    BY <1>4 DEF LinkNoMatch, LinkAssign, LinkRefused
<1>5. CASE \E type \in Types : LinkTerminates(type) \/ LinkUndefined(type)
    BY <1>5 DEF LinkTerminates, LinkUndefined, Crash
<1>6. CASE LinkDone
    BY <1>6 DEF LinkDone
<1>7. CASE UNCHANGED vars
    BY <1>7 DEF vars
<1> QED
    BY <1>1, <1>2, <1>3, <1>4, <1>5, <1>6, <1>7, Zenon DEF Next, Exit

LEMMA CountsHaveCauseStep ==
    ASSUME TypeOK, CountsHaveCause, [Next]_vars
    PROVE  CountsHaveCause'
<1> SUFFICES ASSUME phase' = "linking", CountsUnwritten'
             PROVE  \E j, k \in MatchIds' : j # k /\ parentIds'[j] = parentIds'[k]
    BY DEF CountsHaveCause
<1>1. CASE ExitMatch
    BY <1>1, CountedTwice DEF ExitMatch, CountsUnwritten, MatchIds, linkVars
<1>2. CASE phase = "linking"
    <2>1. UNCHANGED <<linkVars, matchVars>>
        BY <1>2, LoopKeeps
    <2> QED
        BY <1>2, <2>1 DEF CountsHaveCause, CountsUnwritten, MatchIds, linkVars, matchVars
<1> QED
    BY <1>1, <1>2, LoopFrame

\* One of the causes UndefinedHasCause names, without the phase.
LEMMA UndefinedStep ==
    ASSUME TypeOK, CountsHaveCause, RenamedKeyExists, UndefinedHasCause, [Next]_vars
    PROVE  UndefinedHasCause'
<1> DEFINE Twice == \E j, k \in MatchIds : j # k /\ parentIds[j] = parentIds[k]
           Cause == \/ extCount = MaxCharSize
                    \/ \E ref \in ReferenceElements : RefOverflows(ref.ids)
                    \/ extractor # 0 /\ ~IsVisitable(extractor)
                    \/ Twice
<1> SUFFICES ASSUME phase' = "undefined" PROVE Cause'
    BY DEF UndefinedHasCause
<1>1. CASE UNCHANGED vars
    BY <1>1 DEF UndefinedHasCause, vars, linkVars, walkVars, extVars, RefOverflows,
       IsVisitable, MatchIds
<1>2. ASSUME Crash("undefined"), Cause
      PROVE  Cause'
    BY <1>2 DEF Crash, linkVars, extVars, RefOverflows, IsVisitable, MatchIds
<1>3. CASE EnterStructOverflow
    BY <1>2, <1>3 DEF EnterStructOverflow
<1>4. CASE \E ref \in ReferenceElements : EnterReferenceOverflow(ref)
    BY <1>2, <1>4 DEF EnterReferenceOverflow
<1>5. CASE \E element \in LiteralElements : EnterLiteralNoHandler(element[2])
    BY <1>2, <1>5 DEF EnterLiteralNoHandler
<1>6. ASSUME NEW type \in Types, LinkUndefined(type)
      PROVE  Cause'
    <2>1. Crash("undefined") /\ phase = "linking" /\ type \in todo
        BY <1>6 DEF LinkUndefined, Linking
    <2>2. CASE CountsUnwritten
        BY <1>2, <2>1, <2>2 DEF CountsHaveCause
    <2>3. ASSUME NEW i \in DOMAIN children, IsFirstOf(i, type),
                 childTypes[children[i].key] = 0
          PROVE  FALSE
        <3>1. childTypes[children[i].key] = children[i].ext
            BY <2>1, <2>3 DEF RenamedKeyExists
        <3> QED
            BY <2>3, <3>1, ChildTyped, MaxCharSizePos DEF TypeOK, Slots
    <2> QED
        BY <1>6, <2>2, <2>3 DEF LinkUndefined
<1> HIDE DEF Cause
<1> QED
    BY <1>1, <1>3, <1>4, <1>5, <1>6, Stops

\* Nothing but too many structs, too many ids, a field of an element without
\* members and two references to one child leads to an access outside an object.
THEOREM UndefinedHasCauseHolds == Spec => []UndefinedHasCause
<1> DEFINE Inv == /\ TypeOK /\ LoopInv /\ RenamedKeyExists
                  /\ CountsHaveCause /\ UndefinedHasCause
<1>1. Init => Inv
    BY TypeInit DEF Init, RenamedKeyExists, CountsHaveCause, UndefinedHasCause
<1>2. Inv /\ [Next]_vars => Inv'
    BY TypingStep, RenamedKeyStep, CountsHaveCauseStep, UndefinedStep
<1> QED
    BY <1>1, <1>2, PTL DEF Spec
-----------------------------------------------------------------------------
(***************************************************************************)
(* Documents without ids and references.                                   *)
(***************************************************************************)
\* Positions not yet taken have no id.
Fresh == \A e \in Slots : e > extCount => elementId[e] = NoId

\* In such a document nothing leads VisitExit to look for children, and the
\* struct that is open is not stored yet.
FlatState ==
    IsFlat => /\ ~idTagFound /\ LiveKeys = {} /\ resolvedKeys = {}
              /\ phase # "linking"
              /\ inStruct => ~IsStored(structs, extractor)

\* Ids come with struct elements, keys are renamed by assignments, and inStruct
\* is set where a struct element opens and reset where one ends.
LEMMA StructFrame ==
    ASSUME [Next]_vars
    PROVE  /\ \/ UNCHANGED <<elementId, extCount, extractor>>
              \/ \E type \in Types, id \in Ids \cup {NoId} :
                    EnterStruct(type, id) \/ EnterBadStruct(type, id)
           /\ UNCHANGED resolvedKeys \/ \E type \in Types : LinkAssign(type)
           /\ \/ UNCHANGED inStruct
              \/ \E type \in Types, id \in Ids \cup {NoId} :
                    EnterStruct(type, id) /\ inStruct'
              \/ ExitBadStruct \/ ExitStore \/ ExitNoMatch \/ LinkDone
<1> USE DEF linkVars, matchVars, loopVars, walkVars, extVars, childVars, flagVars,
            processVars, historyVars
<1>1. CASE StartProcess \/ LoadFails \/ FinishProcess
    BY <1>1, Zenon DEF StartProcess, LoadFails, FinishProcess
<1>2. ASSUME NEW how, Crash(how)
      PROVE  UNCHANGED <<elementId, extCount, extractor, resolvedKeys, inStruct>>
    BY <1>2, Zenon DEF Crash
<1>3. CASE \/ EnterOther \/ EnterStructOverflow \/ EnterFieldTooEarly
           \/ \E ref \in ReferenceElements : \/ EnterReference(ref)
                                             \/ EnterReferenceOverflow(ref)
           \/ \E element \in LiteralElements : \/ EnterLiteral(element[1], element[2])
                                              \/ EnterUnreadableField(element[2])
                                              \/ EnterLiteralNoHandler(element[2])
    BY <1>2, <1>3, Zenon DEF EnterOther, EnterStructOverflow, EnterFieldTooEarly,
       EnterReference, EnterReferenceOverflow, EnterLiteral, EnterUnreadableField,
       EnterLiteralNoHandler
<1>4. CASE \E element \in StructElements : EnterStruct(element[1], element[2])
    BY <1>4, ElementTyped, Zenon DEF EnterStruct
<1>5. CASE \E element \in StructElements : EnterBadStruct(element[1], element[2])
    BY <1>5, ElementTyped, Zenon DEF EnterBadStruct
<1>6. CASE ExitField \/ ExitOther
    BY <1>6, Zenon DEF ExitField, ExitOther
<1>7. CASE ExitBadStruct \/ ExitStore \/ ExitNoMatch \/ ExitMatch \/ LinkDone
    BY <1>7, Zenon DEF ExitBadStruct, ExitStore, ExitNoMatch, ExitMatch, LinkDone
<1>8. CASE \E type \in Types : \/ LinkNoMatch(type) \/ LinkAssign(type)
                               \/ LinkRefused(type) \/ LinkTerminates(type)
                               \/ LinkUndefined(type)
    BY <1>2, <1>8, Zenon DEF LinkNoMatch, LinkAssign, LinkRefused, LinkTerminates,
       LinkUndefined
<1>9. CASE UNCHANGED vars
    BY <1>9, Zenon DEF vars
<1> QED
    BY <1>1, <1>3, <1>4, <1>5, <1>6, <1>7, <1>8, <1>9, Zenon DEF Next, Enter, Exit

\* The id of a new struct element is the only one that changes.
LEMMA NewId ==
    ASSUME TypeOK, NEW type \in Types, NEW id \in Ids \cup {NoId},
           EnterStruct(type, id) \/ EnterBadStruct(type, id)
    PROVE  /\ extCount \in 0..MaxCharSize - 1 /\ extCount' = extCount + 1
           /\ elementId' = [elementId EXCEPT ![extCount + 1] = id]
<1>1. PushExtractor(type, id)
    BY Zenon DEF EnterStruct, EnterBadStruct
<1>2. extCount \in 0..MaxCharSize
    BY DEF TypeOK, XmlTypeOK
<1> QED
    BY <1>1, <1>2, MaxCharSizePos DEF PushExtractor

LEMMA FreshStep ==
    ASSUME TypeOK, Fresh, [Next]_vars
    PROVE  Fresh' /\ (IsFlat' => IsFlat)
<1>1. CASE UNCHANGED <<elementId, extCount>>
    BY <1>1, StringFrame DEF Fresh, IsFlat, EnterReference
<1>2. ASSUME NEW type \in Types, NEW id \in Ids \cup {NoId},
             EnterStruct(type, id) \/ EnterBadStruct(type, id)
      PROVE  Fresh' /\ (IsFlat' => IsFlat)
    <2>1. /\ extCount \in 0..MaxCharSize - 1 /\ extCount' = extCount + 1
          /\ elementId' = [elementId EXCEPT ![extCount + 1] = id]
          /\ elementId \in [Slots -> Ids \cup {NoId}]
        BY <1>2, NewId DEF TypeOK, XmlTypeOK
    <2>2. references' = references
        BY <1>2 DEF EnterStruct, EnterBadStruct, historyVars
    <2>3. Fresh'
        BY <2>1, MaxCharSizePos DEF Fresh, Slots
    <2>4. ASSUME IsFlat' PROVE IsFlat
        <3>1. \A e \in Slots : elementId[e] = NoId
            BY <2>1, <2>4, MaxCharSizePos DEF IsFlat, Fresh, Slots
        <3> QED
            BY <2>2, <2>4, <3>1 DEF IsFlat
    <2> QED
        BY <2>3, <2>4
<1> QED
    BY <1>1, <1>2, StructFrame

\* Without children and references, no child is looked for.
LEMMA FlatLooksForNone ==
    ASSUME FlatState, IsFlat
    PROVE  ~LooksForChildren
BY FS_EmptySet DEF FlatState, LooksForChildren, ChildTypesSize

\* So the only step that changes the map is the end of the struct opened last.
LEMMA FlatChange ==
    ASSUME TypeOK, FlatState, IsFlat, [Next]_vars, NEW t \in StoreTypes,
           structs'[t] # structs[t]
    PROVE  ExitStore /\ inStruct /\ ~inStruct' /\ structs'[t].ext = extractor
<1>1. ExitStore
    BY Frame DEF FlatState, LinkAssign, LinkRefused, Linking
<1>2. inStruct /\ ~inStruct'
    BY <1>1 DEF ExitStore, EndsStruct
<1>3. extractor \in Slots /\ structs' = StoreNew(structs, extractor)
    BY <1>1, MaxCharSizePos DEF ExitStore, EndsStruct, TypeOK, XmlTypeOK, Slots
<1>4. structs \in [StoreTypes -> Snapshot \cup {NoStruct}]
    BY DEF TypeOK, XmlTypeOK
<1>5. structs'[t] = [ext |-> extractor, content |-> container[extractor]]
    BY <1>3, <1>4, ReplaceStores DEF StoreNew
<1> QED
    BY <1>1, <1>2, <1>5

\* A new struct element leaves the map alone, and is not in it.
LEMMA NewNotStored ==
    ASSUME TypeOK, PointersRegistered, NEW type \in Types, NEW id \in Ids \cup {NoId},
           EnterStruct(type, id) \/ EnterBadStruct(type, id)
    PROVE  structs' = structs /\ ~IsStored(structs, extractor')
<1>1. structs' = structs /\ PushExtractor(type, id)
    BY Zenon DEF EnterStruct, EnterBadStruct
<1>2. extractor' = extCount + 1 /\ extCount \in Nat
    BY <1>1, MaxCharSizePos DEF PushExtractor, TypeOK, XmlTypeOK
<1>3. \A t \in StoreTypes : structs[t] # NoStruct => structs[t].ext \in 1..extCount
    BY DEF PointersRegistered, Registered
<1> QED
    BY <1>1, <1>2, <1>3 DEF IsStored

LEMMA OpenNotStored ==
    ASSUME TypeOK, PointersRegistered, FlatState, IsFlat, [Next]_vars
    PROVE  /\ inStruct' => ~IsStored(structs', extractor')
           /\ inStruct /\ extractor' # extractor => ~IsStored(structs', extractor)
<1>1. inStruct => ~IsStored(structs, extractor)
    BY DEF FlatState
<1>2. ASSUME NEW type \in Types, NEW id \in Ids \cup {NoId},
             EnterStruct(type, id) \/ EnterBadStruct(type, id)
      PROVE  structs' = structs /\ ~IsStored(structs, extractor')
    BY <1>2, NewNotStored
<1>3. CASE UNCHANGED <<elementId, extCount, extractor>>
    <2>1. CASE ExitStore
        BY <1>3, <2>1 DEF ExitStore
    <2>2. CASE ~ExitStore
        <3>1. structs' = structs
            BY <2>2, Frame DEF FlatState, LinkAssign, LinkRefused, Linking
        <3>2. CASE \E type \in Types, id \in Ids \cup {NoId} : EnterStruct(type, id)
            BY <1>1, <1>2, <1>3, <3>1, <3>2
        <3>3. CASE ~ \E type \in Types, id \in Ids \cup {NoId} : EnterStruct(type, id)
            <4>1. inStruct' => inStruct
                BY <3>3, StructFrame DEF ExitBadStruct, ExitStore, ExitNoMatch, LinkDone
            <4> QED
                BY <1>1, <1>3, <3>1, <4>1
        <3> QED
            BY <3>2, <3>3
    <2> QED
        BY <2>1, <2>2
<1> QED
    BY <1>1, <1>2, <1>3, StructFrame

LEMMA FlatStep ==
    ASSUME TypeOK, PointersRegistered, Fresh, FlatState, [Next]_vars
    PROVE  FlatState'
<1> SUFFICES ASSUME IsFlat'
             PROVE  /\ ~idTagFound' /\ LiveKeys' = {} /\ resolvedKeys' = {}
                    /\ phase' # "linking"
                    /\ inStruct' => ~IsStored(structs', extractor')
    BY DEF FlatState, IsStored
<1>1. IsFlat /\ ~idTagFound /\ LiveKeys = {} /\ resolvedKeys = {} /\ phase # "linking"
    BY FreshStep DEF FlatState
<1>2. ~idTagFound'
    BY <1>1, StringFrame DEF IsFlat, EnterReference, ExitMatch
<1>3. phase' # "linking"
    BY <1>1, LoopFrame, FlatLooksForNone DEF ExitMatch
<1>4. \A type \in Types : ~LinkAssign(type)
    BY <1>1 DEF LinkAssign, Linking
<1>5. resolvedKeys' = {}
    BY <1>1, <1>4, StructFrame
<1>6. childTypes' = childTypes
    <2>1. ASSUME NEW type \in Types, NEW id \in Ids \cup {NoId}, EnterStruct(type, id)
          PROVE  childTypes' = childTypes
        <3>1. elementId'[extCount + 1] = id /\ extCount + 1 \in Slots
            BY <2>1, NewId, MaxCharSizePos DEF TypeOK, XmlTypeOK, Slots
        <3>2. id = NoId
            BY <3>1 DEF IsFlat
        <3> QED
            BY <2>1, <3>2 DEF EnterStruct, RegisterChild
    <2> QED
        BY <1>4, <2>1, Frame
<1>7. inStruct' => ~IsStored(structs', extractor')
    BY <1>1, OpenNotStored
<1> QED
    BY <1>1, <1>2, <1>3, <1>5, <1>6, <1>7 DEF LiveKeys

LEMMA FlatStores ==
    ASSUME TypeOK, FlatState, IsFlat, [Next]_vars,
           inStruct, ~inStruct', GetType(extractor) # NullWrapper
    PROVE  /\ structs'[GetType(extractor)] # NoStruct
           /\ structs[GetType(extractor)] = NoStruct =>
                structs'[GetType(extractor)].content = container[extractor]
<1>1. ExitStore
    <2>1. ~ExitNoMatch
        BY FlatLooksForNone DEF ExitNoMatch
    <2>2. ~LinkDone
        BY DEF FlatState, LinkDone
    <2>3. ~ExitBadStruct
        BY DEF ExitBadStruct
    <2> QED
        BY <2>1, <2>2, <2>3, StructFrame
<1> DEFINE type == GetType(extractor)
<1>2. extractor \in Slots /\ structs' = StoreNew(structs, extractor)
    BY <1>1, MaxCharSizePos DEF ExitStore, EndsStruct, TypeOK, XmlTypeOK, Slots
<1>3. type \in StoreTypes /\ structs \in [StoreTypes -> Snapshot \cup {NoStruct}]
    BY DEF GetType, StoreTypes, TypeOK, XmlTypeOK
<1>4. [ext |-> extractor, content |-> container[extractor]] \in Snapshot
    BY <1>2 DEF Snapshot, TypeOK, XmlTypeOK
<1>5. CASE structs[type] = NoStruct
    <2>1. structs'[type] = [ext |-> extractor, content |-> container[extractor]]
        BY <1>2, <1>3, <1>5, ReplaceStores DEF StoreNew
    <2> QED
        BY <1>4, <2>1, NoStructIsNone
<1>6. CASE structs[type] # NoStruct
    BY <1>2, <1>6 DEF StoreNew
<1> QED
    BY <1>5, <1>6

\* As long as a document has neither ids nor references, the struct element
\* opened last is in the map when it ends, and one in which another struct
\* element opened never is.
THEOREM InnermostIsStoredHolds == Spec => InnermostIsStored
<1> DEFINE Inv == TypeOK /\ LoopInv /\ PointersRegistered /\ Fresh /\ FlatState
<1>1. Init => Inv
    <2> SUFFICES ASSUME Init PROVE Fresh /\ FlatState
        BY TypeInit, PointersInit
    <2> QED
        BY DEF Init, Fresh, FlatState, LiveKeys
<1>2. Inv /\ [Next]_vars => Inv'
    BY TypingStep, PointersStep, FreshStep, FlatStep
<1>3. Inv /\ [Next]_vars
        => [IsFlat =>
            /\ inStruct /\ ~inStruct' /\ GetType(extractor) # NullWrapper =>
                  /\ structs'[GetType(extractor)] # NoStruct
                  /\ structs[GetType(extractor)] = NoStruct =>
                        structs'[GetType(extractor)].content = container[extractor]
            /\ inStruct /\ extractor' # extractor => ~IsStored(structs', extractor)
            /\ \A t \in StoreTypes : structs'[t] # structs[t] =>
                  inStruct /\ ~inStruct' /\ structs'[t].ext = extractor]_vars
    BY FlatStores, OpenNotStored, FlatChange
<1> QED
    BY <1>1, <1>2, <1>3, PTL DEF Spec, InnermostIsStored

-----------------------------------------------------------------------------
(***************************************************************************)
(* Documents with one reference.                                           *)
(***************************************************************************)
\* The walk: fields open inside structs and nothing else does, every element
\* is closed, and what there is to report is reported by the end of process().
WalkInv ==
    /\ ~skip
    /\ inStruct => extractor # 0 /\ depth > 0
    /\ inField => inStruct /\ depth > 1
    /\ phase = "idle" => ~inStruct
    /\ phase = "linking" => inStruct /\ ~inField
    /\ phase \in {"visiting", "linking"} => calls = 1 /\ errors = {}
    /\ calls = 0 => phase = "idle" /\ errors = {} /\ references = {}
    /\ phase = "idle" /\ references # {} =>
          /\ processResult = (PendingTypes = {})
          /\ errors = IF PendingTypes = {} THEN {} ELSE {"FIELD_LEFT_UNASSIGNED"}

\* The struct element a reference to this key asks for.
IsElement(e, key) ==
    e \in 1..extCount /\ elementId[e] = key[1] /\ extractorType[e] = key[2]

\* Every struct element with an id is in childTypes, or was used.
TableInv ==
    /\ \A e \in 1..extCount : extractorType[e] \in StructTypes
    /\ \A k \in LiveKeys : IsElement(childTypes[k], k)
    /\ \A k \in resolvedKeys : k \notin LiveKeys /\ \E e \in Slots : IsElement(e, k)
    /\ \A k \in Keys : \A e \in 1..extCount :
          IsElement(e, k) /\ k \notin resolvedKeys => childTypes[k] = e

NamedKey(r) == <<r[2].ids[1], r[2].type>>

\* childInfo with the field of this reference alone.
OnlyLink(r) ==
    [t \in Types |-> IF t = r[2].type
                     THEN [parent |-> r[1], field |-> r[2].field, pointer |-> r[2].pointer]
                     ELSE NoLink]
NoLinks == [t \in Types |-> NoLink]

\* No reference came yet.
Unused ==
    /\ phase # "linking" /\ ~idTagFound /\ childCount = 0 /\ resolvedKeys = {}
    /\ childInfo = NoLinks
    /\ parentIds[0] = <<>>

\* The field waits, and its child did not come before the last struct ended.
Waiting(r) ==
    /\ phase # "linking" /\ idTagFound /\ childCount = 1 /\ resolvedKeys = {}
    /\ childInfo = OnlyLink(r)
    /\ ~inStruct => NamedKey(r) \notin LiveKeys

\* The child was collected, and the loop has its one turn before it.
Serving(r) ==
    /\ phase = "linking" /\ ~idTagFound /\ todo = {r[2].type} /\ resolvedKeys = {}
    /\ childInfo = OnlyLink(r)
    /\ NamedKey(r) \in LiveKeys
    /\ children = <<[key |-> NamedKey(r), ext |-> childTypes[NamedKey(r)]]>>
    /\ matchCount = 1

\* The field holds the child, and the map the parent as it is.
Filled(r) ==
    /\ NamedKey(r) \in resolvedKeys
    /\ \E c \in 1..extCount :
          IsElement(c, NamedKey(r)) /\ container[r[1]][r[2].field] = <<c>>
    /\ structs[extractorType[r[1]]] = [ext |-> r[1], content |-> container[r[1]]]

\* The loop had its turn.
Served(r) ==
    /\ phase = "linking" /\ ~idTagFound /\ todo = {} /\ childLoc = r[2].type
    /\ linkResult /\ childInfo = OnlyLink(r) /\ Filled(r)

\* The field was forgotten, and no element that is open can write its struct.
Resolved(r) ==
    /\ phase # "linking" /\ ~idTagFound /\ childInfo = NoLinks /\ Filled(r)
    /\ inStruct => extractor # r[1]

\* The one reference of the document.
RefInv ==
    /\ \A q, r \in references : q = r
    /\ \A r \in references : /\ r[1] \in 1..extCount /\ Len(r[2].ids) = 1
                             /\ r[2].field \in Fields
                             /\ childCount <= 1 /\ parentIds[0] = <<NamedKey(r)>>

StageInv ==
    phase \notin {"terminated", "undefined"} =>
        /\ references = {} => Unused
        /\ \A r \in references : Waiting(r) \/ Serving(r) \/ Served(r) \/ Resolved(r)

\* The steps of such documents.
PlainNext ==
    \/ phase \in {"visiting", "linking"}
       /\ \E how \in {"terminated", "undefined"} : Crash(how)
    \/ StartProcess \/ LoadFails \/ FinishProcess
    \/ ~inStruct /\ EnterOther
    \/ ~inStruct /\ \E type \in StructTypes, id \in Ids \cup {NoId} : EnterStruct(type, id)
    \/ inStruct /\ ~inField /\ \E ref \in ReferenceElements : EnterReference(ref)
    \/ inStruct /\ ~inField /\ errors' = errors /\ ~skip'
       /\ \E element \in LiteralElements : EnterLiteral(element[1], element[2])
    \/ ExitField \/ ExitOther \/ ExitStore \/ ExitNoMatch \/ ExitMatch
    \/ \E type \in Types : LinkNoMatch(type) \/ LinkAssign(type)
    \/ LinkDone

\* Refused elements would be complained about, and every struct has members.
LEMMA PlainSteps ==
    ASSUME TypeOK, LoopInv, PointersRegistered, WalkInv, TableInv,
           Next, SingleReferenceStep
    PROVE  PlainNext
<1> USE DEF linkVars, matchVars, loopVars, walkVars, extVars, childVars, flagVars,
            processVars, historyVars
<1>1. extractor # 0 => extractorType[extractor] \in StructTypes
    BY DEF TypeOK, XmlTypeOK, TableInv
<1>2. /\ phase = "visiting" => errors = {}
      /\ inField => inStruct
      /\ inStruct => extractor # 0
    BY DEF WalkInv
<1>3. ASSUME NEW result, Descend(result)
      PROVE  ~inField /\ (inField' <=> inStruct) /\ errors' = errors /\ errors = {}
    <2>1. depth' > depth
        BY <1>3 DEF Descend, TypeOK, XmlTypeOK
    <2> QED
        BY <1>2, <1>3, <2>1 DEF Descend, SingleReferenceStep, WellFormedStep
<1>4. CASE EnterOther
    <2>1. ~inStruct
        BY <1>3, <1>4 DEF EnterOther
    <2> QED
        BY <1>4, <2>1 DEF PlainNext
<1>5. ASSUME NEW element \in StructElements, EnterStruct(element[1], element[2])
      PROVE  PlainNext
    <2>1. ~inStruct
        BY <1>3, <1>5, Zenon DEF EnterStruct
    <2>2. element[1] \in StructTypes /\ element[2] \in Ids \cup {NoId}
        BY <1>5, ElementTyped DEF EnterStruct
    <2> QED
        BY <1>5, <2>1, <2>2, Zenon DEF PlainNext
<1>6. ASSUME NEW element \in StructElements, EnterBadStruct(element[1], element[2])
      PROVE  FALSE
    BY <1>3, <1>6, Zenon DEF EnterBadStruct
<1>7. ASSUME NEW element \in LiteralElements, EnterUnreadableField(element[2])
      PROVE  FALSE
    BY <1>3, <1>7 DEF EnterUnreadableField
<1>8. CASE EnterFieldTooEarly
    BY <1>3, <1>8 DEF EnterFieldTooEarly
<1>9. ASSUME NEW ref \in ReferenceElements, EnterReference(ref)
      PROVE  PlainNext
    <2>1. inStruct /\ ~inField
        BY <1>3, <1>9 DEF EnterReference
    <2> QED
        BY <1>9, <2>1 DEF PlainNext
<1>10. ASSUME NEW element \in LiteralElements, EnterLiteral(element[1], element[2])
       PROVE  PlainNext
    <2>1. inStruct /\ ~inField /\ errors' = errors
        BY <1>3, <1>10 DEF EnterLiteral
    <2>2. IsVisitable(extractor)
        BY <1>1, <1>10, TypesDisjoint DEF EnterLiteral, IsVisitable
    <2>3. ~skip'
        BY <1>10, <2>2 DEF EnterLiteral, Descend
    <2> QED
        BY <1>10, <2>1, <2>3 DEF PlainNext
<1>11. CASE ExitBadStruct
    BY <1>1, <1>11, TypesDisjoint DEF ExitBadStruct, EndsStruct, GetType
<1>12. ASSUME NEW type \in Types, LinkRefused(type)
       PROVE  FALSE
    <2>1. childInfo[type].parent \in 1..extCount
        BY <1>12 DEF LinkRefused, Linking, LoopInv, PointersRegistered, Registered
    <2> QED
        BY <1>12, <2>1, TypesDisjoint DEF LinkRefused, IsVisitable, TableInv
<1>13. ASSUME \/ EnterStructOverflow
              \/ \E ref \in ReferenceElements : EnterReferenceOverflow(ref)
              \/ \E element \in LiteralElements : EnterLiteralNoHandler(element[2])
              \/ \E type \in Types : LinkTerminates(type) \/ LinkUndefined(type)
       PROVE  PlainNext
    <2>1. phase \in {"visiting", "linking"}
        BY <1>13 DEF EnterStructOverflow, EnterReferenceOverflow, EnterLiteralNoHandler,
           LinkTerminates, LinkUndefined, Linking
    <2>2. \E how \in {"terminated", "undefined"} : Crash(how)
        BY <1>13, Zenon DEF EnterStructOverflow, EnterReferenceOverflow,
           EnterLiteralNoHandler, LinkTerminates, LinkUndefined
    <2> QED
        BY <2>1, <2>2 DEF PlainNext
<1>14. ASSUME \/ StartProcess \/ LoadFails \/ FinishProcess \/ ExitField \/ ExitOther
              \/ ExitStore \/ ExitNoMatch \/ ExitMatch \/ LinkDone
              \/ \E type \in Types : LinkNoMatch(type) \/ LinkAssign(type)
       PROVE  PlainNext
    BY <1>14, Zenon DEF PlainNext
<1> QED
    BY <1>4, <1>5, <1>6, <1>7, <1>8, <1>9, <1>10, <1>11, <1>12, <1>13, <1>14, Zenon
    DEF Next, Enter, Exit

\* The loop only ends after it had its turn, and getTypeForField then answers TRUE.
LEMMA LoopServes ==
    ASSUME StageInv, LinkDone
    PROVE  linkResult /\ \E r \in references : Served(r)
<1>1. phase = "linking" /\ todo = {}
    BY DEF LinkDone
<1>2. references # {}
    BY <1>1 DEF StageInv, Unused
<1>3. PICK r \in references : Served(r)
    BY <1>1, <1>2 DEF StageInv, Waiting, Serving, Resolved
<1> QED
    BY <1>3 DEF Served

LEMMA WalkStep ==
    ASSUME TypeOK, WalkInv, StageInv, PlainNext, SingleReferenceStep
    PROVE  WalkInv'
<1> USE DEF linkVars, matchVars, loopVars, walkVars, extVars, childVars, flagVars,
            processVars, historyVars
<1>1. /\ depth \in Nat /\ calls \in Nat
      /\ skip \in BOOLEAN /\ inStruct \in BOOLEAN /\ inField \in BOOLEAN
    BY DEF TypeOK, XmlTypeOK
<1>2. calls' <= 1
    BY DEF SingleReferenceStep
<1>3. CASE /\ phase \in {"visiting", "linking"}
           /\ \E how \in {"terminated", "undefined"} : Crash(how)
    BY <1>3 DEF Crash, WalkInv, PendingTypes
<1>4. CASE StartProcess
    BY <1>1, <1>2, <1>4 DEF StartProcess, WalkInv, PendingTypes
<1>5. CASE LoadFails
    BY <1>1, <1>2, <1>5 DEF LoadFails, ReportPending, WalkInv, PendingTypes
<1>6. CASE FinishProcess
    <2>1. PendingTypes' = PendingTypes
        BY <1>6 DEF FinishProcess, PendingTypes
    <2> QED
        BY <1>1, <1>6, <2>1 DEF FinishProcess, ReportPending, WalkInv
<1>7. CASE ~inStruct /\ EnterOther
    BY <1>1, <1>7 DEF EnterOther, Descend, WalkInv
<1>8. CASE ~inStruct /\ \E type \in StructTypes, id \in Ids \cup {NoId} :
                            EnterStruct(type, id)
    BY <1>1, <1>8 DEF EnterStruct, PushExtractor, Descend, TypeOK, XmlTypeOK, WalkInv
<1>9. CASE inStruct /\ ~inField /\ \E ref \in ReferenceElements : EnterReference(ref)
    BY <1>1, <1>9 DEF EnterReference, Descend, WalkInv
<1>10. CASE inStruct /\ ~inField /\ errors' = errors /\ ~skip'
            /\ \E element \in LiteralElements : EnterLiteral(element[1], element[2])
    BY <1>1, <1>10 DEF EnterLiteral, Descend, WalkInv
<1>11. CASE ExitField \/ ExitOther
    BY <1>1, <1>11 DEF ExitField, ExitOther, Leaving, Ascend, WalkInv
<1>12. CASE ExitStore \/ ExitNoMatch \/ ExitMatch
    BY <1>1, <1>12 DEF ExitStore, ExitNoMatch, ExitMatch, EndsStruct, Leaving, Ascend,
       WalkInv
<1>13. CASE \E type \in Types : LinkNoMatch(type) \/ LinkAssign(type)
    BY <1>1, <1>13 DEF LinkNoMatch, LinkAssign, Linking, WalkInv
<1>14. CASE LinkDone
    BY <1>1, <1>14, LoopServes DEF LinkDone, Ascend, WalkInv
<1> QED
    BY <1>3, <1>4, <1>5, <1>6, <1>7, <1>8, <1>9, <1>10, <1>11, <1>12, <1>13, <1>14, Zenon
    DEF PlainNext

\* What each kind of step leaves alone.
LEMMA PlainFrame ==
    ASSUME PlainNext
    PROVE  /\ \/ UNCHANGED <<extractorType, extCount, elementId, childTypes, resolvedKeys>>
              \/ \E type \in StructTypes, id \in Ids \cup {NoId} : EnterStruct(type, id)
              \/ \E type \in Types :
                    /\ LinkAssign(type)
                    /\ UNCHANGED <<extractorType, extCount, elementId>>
           /\ \/ UNCHANGED references
              \/ inStruct /\ \E ref \in ReferenceElements : EnterReference(ref)
           /\ \/ UNCHANGED <<childCount, parentIds>>
              \/ UNCHANGED parentIds /\ childCount' = 0
              \/ \E ref \in ReferenceElements : EnterReference(ref)
<1> USE DEF linkVars, matchVars, loopVars, walkVars, extVars, childVars, flagVars,
            processVars, historyVars
<1>1. CASE \E how \in {"terminated", "undefined"} : Crash(how)
    BY <1>1 DEF Crash
<1>2. CASE StartProcess \/ LoadFails \/ FinishProcess
    BY <1>2 DEF StartProcess, LoadFails, FinishProcess
<1>3. CASE EnterOther
    BY <1>3 DEF EnterOther
<1>4. CASE \E type \in StructTypes, id \in Ids \cup {NoId} : EnterStruct(type, id)
    BY <1>4, Zenon DEF EnterStruct
<1>5. CASE inStruct /\ \E ref \in ReferenceElements : EnterReference(ref)
    BY <1>5, Zenon DEF EnterReference
<1>6. CASE \E element \in LiteralElements : EnterLiteral(element[1], element[2])
    BY <1>6, Zenon DEF EnterLiteral
<1>7. CASE ExitField \/ ExitOther \/ ExitStore \/ ExitNoMatch \/ ExitMatch
    BY <1>7, Zenon DEF ExitField, ExitOther, ExitStore, ClearParTags, ExitNoMatch, ExitMatch
<1>8. CASE \E type \in Types : LinkNoMatch(type) \/ LinkAssign(type)
    BY <1>8, Zenon DEF LinkNoMatch, LinkAssign
<1>9. CASE LinkDone
    BY <1>9, Zenon DEF LinkDone, Erase
<1> QED
    BY <1>1, <1>2, <1>3, <1>4, <1>5, <1>6, <1>7, <1>8, <1>9, Zenon DEF PlainNext

\* A new struct element enters the table under its own key, which is new.
LEMMA TableGrows ==
    ASSUME TypeOK, TableInv, SingleReferenceStep,
           NEW type \in StructTypes, NEW id \in Ids \cup {NoId}, EnterStruct(type, id)
    PROVE  TableInv'
<1> USE DEF linkVars, matchVars, loopVars, walkVars, extVars, childVars, flagVars,
            processVars, historyVars
<1> DEFINE key == <<id, type>>
<1>0. PICK new \in Slots : new = extCount + 1
    BY MaxCharSizePos DEF EnterStruct, PushExtractor, TypeOK, XmlTypeOK, Slots
<1>1. /\ extCount' = new /\ new \notin 1..extCount
      /\ 1..new = 1..extCount \cup {new}
      /\ 1..extCount \subseteq Slots
    BY <1>0, MaxCharSizePos DEF EnterStruct, PushExtractor, TypeOK, XmlTypeOK, Slots
<1>2. /\ extractorType' = [extractorType EXCEPT ![new] = type]
      /\ elementId' = [elementId EXCEPT ![new] = id]
      /\ childTypes' = RegisterChild(type, id)
      /\ resolvedKeys' = resolvedKeys
    BY <1>0 DEF EnterStruct, PushExtractor
<1>3. /\ extractorType \in [Slots -> Types] /\ elementId \in [Slots -> Ids \cup {NoId}]
      /\ childTypes \in [Keys -> 0..MaxCharSize]
    BY DEF TypeOK, XmlTypeOK
<1>4. /\ \A e \in 1..extCount : extractorType'[e] = extractorType[e]
                                /\ elementId'[e] = elementId[e]
      /\ extractorType'[new] = type /\ elementId'[new] = id
    BY <1>0, <1>1, <1>2, <1>3
<1>5. id # NoId => \A e \in 1..extCount : ~IsElement(e, key)
    <2>1. depth' > depth /\ extCount' > extCount
        BY <1>1 DEF EnterStruct, Descend, TypeOK, XmlTypeOK
    <2>2. id # NoId => \A e \in 1..extCount :
                          elementId[e] # elementId'[extCount'] \/ extractorType[e] # extractorType'[extCount']
        BY <1>1, <1>4, <2>1 DEF SingleReferenceStep, WellFormedStep
    <2> QED
        BY <1>1, <1>4, <2>2 DEF IsElement
<1>6. \A e \in 1..extCount, k \in Keys : IsElement(e, k)' <=> IsElement(e, k)
    BY <1>1, <1>4 DEF IsElement
<1>7. CASE id = NoId
    <2>1. childTypes' = childTypes /\ LiveKeys' = LiveKeys
        BY <1>2, <1>7 DEF RegisterChild, LiveKeys
    <2>2. \A k \in Keys : ~IsElement(new, k)'
        BY <1>1, <1>4, <1>7, NoIdIsNone DEF IsElement, Keys
    <2>3. \A k \in LiveKeys : childTypes[k] \in 1..extCount /\ k \in Keys
        BY DEF TableInv, IsElement, LiveKeys
    <2>10. resolvedKeys \subseteq Keys
        BY DEF TypeOK, XmlTypeOK
    <2>5. \A k \in resolvedKeys : k \notin LiveKeys /\ \E e \in Slots : IsElement(e, k)'
        BY <1>1, <1>6, <2>10 DEF TableInv, IsElement
    <2> QED
        BY <1>1, <1>2, <1>4, <1>6, <2>1, <2>2, <2>3, <2>5 DEF TableInv
<1>8. CASE id # NoId
    <2>1. key \in Keys /\ key \notin LiveKeys /\ key \notin resolvedKeys
        BY <1>5, <1>8 DEF TableInv, Keys, IsElement
    <2>2. childTypes' = [childTypes EXCEPT ![key] = new]
        BY <1>0, <1>2, <1>8, <2>1 DEF RegisterChild, LiveKeys
    <2>10. \A k \in Keys : IsElement(new, k)' <=> k = key
        BY <1>0, <1>1, <1>4 DEF IsElement, Keys
    <2> HIDE DEF key
    <2>3. LiveKeys' = LiveKeys \cup {key}
        BY <1>0, <1>3, <2>1, <2>2, MaxCharSizePos DEF LiveKeys, Slots
    <2>5. \A k \in LiveKeys : childTypes[k] \in 1..extCount /\ k \in Keys
        BY DEF TableInv, IsElement, LiveKeys
    <2>6. resolvedKeys \subseteq Keys
        BY DEF TypeOK, XmlTypeOK
    <2>7. \A k \in LiveKeys' : IsElement(childTypes[k], k)'
        <3> SUFFICES ASSUME NEW k \in LiveKeys' PROVE IsElement(childTypes[k], k)'
            OBVIOUS
        <3>1. CASE k = key
            BY <1>3, <2>1, <2>2, <2>10, <3>1
        <3>2. CASE k \in LiveKeys /\ k # key
            BY <1>3, <1>6, <2>2, <2>5, <3>2 DEF TableInv
        <3> QED
            BY <2>3, <3>1, <3>2
    <2>8. \A k \in resolvedKeys : k \notin LiveKeys' /\ \E e \in Slots : IsElement(e, k)'
        BY <1>1, <1>6, <2>1, <2>3, <2>6 DEF TableInv, IsElement
    <2>9. \A k \in Keys : \A e \in 1..new :
              IsElement(e, k)' /\ k \notin resolvedKeys => childTypes'[k] = e
        <3> SUFFICES ASSUME NEW k \in Keys, NEW e \in 1..new, IsElement(e, k)',
                            k \notin resolvedKeys
                     PROVE  childTypes'[k] = e
            OBVIOUS
        <3>1. CASE e = new
            BY <1>3, <2>1, <2>2, <2>10, <3>1
        <3>2. CASE e \in 1..extCount
            <4>1. IsElement(e, k)
                BY <1>6, <3>2
            <4>2. k # key
                BY <1>5, <1>8, <3>2, <4>1 DEF key
            <4> QED
                BY <1>3, <2>2, <3>2, <4>1, <4>2 DEF TableInv
        <3> QED
            BY <1>1, <3>1, <3>2
    <2> QED
        BY <1>1, <1>2, <1>4, <2>7, <2>8, <2>9 DEF TableInv
<1> QED
    BY <1>7, <1>8

LEMMA TableStep ==
    ASSUME TypeOK, TableInv, PlainNext, SingleReferenceStep
    PROVE  TableInv'
<1>1. CASE UNCHANGED <<extractorType, extCount, elementId, childTypes, resolvedKeys>>
    BY <1>1 DEF TableInv, IsElement, LiveKeys
<1>2. ASSUME NEW type \in Types, LinkAssign(type),
             UNCHANGED <<extractorType, extCount, elementId>>
      PROVE  TableInv'
    <2>1. PICK i \in DOMAIN children :
              /\ childTypes[children[i].key] # 0
              /\ childTypes' = [childTypes EXCEPT ![children[i].key] = 0]
              /\ resolvedKeys' = resolvedKeys \cup {children[i].key}
        BY <1>2 DEF LinkAssign, RenameFirst
    <2> DEFINE key == children[i].key
    <2>2. key \in Keys
        BY ChildTyped DEF TypeOK
    <2> HIDE DEF key
    <2>3. childTypes \in [Keys -> 0..MaxCharSize]
        BY DEF TypeOK, XmlTypeOK
    <2>4. LiveKeys' = LiveKeys \ {key} /\ key \in LiveKeys
        BY <2>1, <2>2, <2>3 DEF LiveKeys, key
    <2>5. \A e, k : IsElement(e, k)' <=> IsElement(e, k)
        BY <1>2 DEF IsElement
    <2>6. \A e \in 1..extCount : extractorType'[e] \in StructTypes
        BY <1>2 DEF TableInv
    <2>7. \A k \in LiveKeys' : IsElement(childTypes'[k], k)
        BY <2>1, <2>3, <2>4 DEF TableInv, LiveKeys, key
    <2>8. childTypes[key] \in Slots
        BY <2>3, <2>4, MaxCharSizePos DEF LiveKeys, Slots
    <2>9. \A k \in resolvedKeys' : k \notin LiveKeys' /\ \E e \in Slots : IsElement(e, k)
        BY <2>1, <2>4, <2>8 DEF TableInv, key
    <2>10. \A k \in Keys : \A e \in 1..extCount :
              IsElement(e, k) /\ k \notin resolvedKeys' => childTypes'[k] = e
        BY <2>1, <2>2, <2>3 DEF TableInv, key
    <2> QED
        BY <1>2, <2>5, <2>6, <2>7, <2>9, <2>10 DEF TableInv
<1> QED
    BY <1>1, <1>2, PlainFrame, TableGrows

\* A reference is the first one.
LEMMA FirstReference ==
    ASSUME TypeOK, RefInv, StageInv, SingleReferenceStep,
           NEW ref \in ReferenceElements, EnterReference(ref)
    PROVE  LET new == <<extractor, ref>>
           IN  /\ extractor \in 1..extCount /\ extCount' = extCount
               /\ Unused /\ references' = {new}
               /\ Len(ref.ids) = 1 /\ ref.field \in Fields
               /\ childCount' = 1 /\ parentIds'[0] = <<NamedKey(new)>>
<1>1. \A q, r \in references' : q = r /\ Len(r[2].ids) = 1
    BY DEF SingleReferenceStep
<1>2. 0 \in DOMAIN parentIds /\ childCount \in Nat /\ extCount \in Nat
    BY MaxCharSizePos DEF TypeOK, LinkTypeOK, XmlTypeOK
<1>3. /\ depth' > depth /\ extractor \in 1..extCount /\ extCount' = extCount
      /\ references' = references \cup {<<extractor, ref>>}
      /\ Add(extractor, ref.field, ref.pointer, ref.type, ref.ids)
    BY MaxCharSizePos DEF EnterReference, Descend, TypeOK, XmlTypeOK, extVars
<1> DEFINE new == <<extractor, ref>>
<1>4. new \in references' /\ new[1] = extractor /\ new[2] = ref
    BY <1>3
<1>5. Len(ref.ids) = 1
    BY <1>1, <1>4
<1>6. childCount' = childCount + 1
    BY <1>3, <1>5 DEF Add, ParseChildRef
<1>7. references' # references
    BY <1>2, <1>3, <1>6 DEF SingleReferenceStep, WellFormedStep
<1>8. new \notin references
    BY <1>3, <1>7
<1>9. references = {}
    BY <1>1, <1>3, <1>8
<1>10. ref.field \in Fields
    BY <1>3, <1>4, <1>8 DEF SingleReferenceStep, WellFormedStep
<1>11. Unused /\ childCount = 0 /\ parentIds[0] = <<>>
    BY <1>9 DEF StageInv, Unused, EnterReference, Descend
<1>12. parentIds'[0] = <<NamedKey(new)>>
    <2>1. 0 \in childCount..childCount + Len(ref.ids) - 1 /\ 0 - childCount + 1 = 1
        BY <1>5, <1>11
    <2>2. parentIds'[0] = Append(parentIds[0], <<ref.ids[0 - childCount + 1], ref.type>>)
        BY <1>2, <1>3, <2>1 DEF Add, ParseChildRef
    <2>3. parentIds'[0] = Append(<<>>, <<ref.ids[1], ref.type>>)
        BY <1>11, <2>1, <2>2
    <2> QED
        BY <2>3 DEF NamedKey
<1>13. references' = {new}
    BY <1>3, <1>9
<1> QED
    BY <1>3, <1>5, <1>6, <1>10, <1>11, <1>12, <1>13

\* The second reference never comes, and the string of the first stays.
LEMMA RefStep ==
    ASSUME TypeOK, RefInv, StageInv, PlainNext, SingleReferenceStep
    PROVE  RefInv'
<1>1. ASSUME NEW ref \in ReferenceElements, EnterReference(ref)
      PROVE  RefInv'
    <2> DEFINE new == <<extractor, ref>>
    <2>1. /\ extractor \in 1..extCount' /\ references' = {new}
          /\ Len(ref.ids) = 1 /\ ref.field \in Fields
          /\ childCount' = 1 /\ parentIds'[0] = <<NamedKey(new)>>
        BY <1>1, FirstReference
    <2>2. new[1] = extractor /\ new[2] = ref
        OBVIOUS
    <2> HIDE DEF new
    <2> QED
        BY <2>1, <2>2 DEF RefInv, NamedKey
<1>2. CASE UNCHANGED references /\ UNCHANGED parentIds /\ childCount' \in {childCount, 0}
    <2>1. extCount \in Nat
        BY DEF TypeOK, XmlTypeOK
    <2>2. \A e \in 1..extCount : e \in 1..extCount'
        <3>1. CASE extCount' = extCount
            BY <3>1
        <3>2. ASSUME NEW type \in StructTypes, NEW id \in Ids \cup {NoId}, EnterStruct(type, id)
              PROVE  extCount' = extCount + 1
            BY <3>2 DEF EnterStruct, PushExtractor
        <3> QED
            BY <2>1, <3>1, <3>2, PlainFrame
    <2> QED
        BY <1>2, <2>2 DEF RefInv, NamedKey
<1> QED
    BY <1>1, <1>2, PlainFrame

LEMMA RefTyped ==
    ASSUME TypeOK, NEW r \in references
    PROVE  /\ r[1] \in Slots
           /\ r[2].type \in Types /\ r[2].ids \in Seq(Ids)
           /\ [parent |-> r[1], field |-> r[2].field, pointer |-> r[2].pointer] \in Link
<1>1. r[1] \in Slots /\ r[2] \in ReferenceElements
    BY DEF TypeOK, XmlTypeOK
<1>2. r[2] \in ReferenceElement
    BY <1>1, ReferenceElementsTyped
<1>3. /\ r[2].type \in Types /\ r[2].field \in FieldNames
      /\ r[2].pointer \in BOOLEAN /\ r[2].ids \in Seq(Ids)
    BY <1>2 DEF ReferenceElement
<1> QED
    BY <1>1, <1>3 DEF Link

\* The string of the reference is compared with the keys of childTypes.
LEMMA NamedMatches ==
    ASSUME TypeOK, RefInv, NEW r \in references
    PROVE  /\ MatchedKeys(LiveKeys)
                = IF childCount = 1 /\ NamedKey(r) \in LiveKeys THEN {NamedKey(r)} ELSE {}
           /\ CountMatches(LiveKeys)
                = IF childCount = 1 /\ NamedKey(r) \in LiveKeys THEN 1 ELSE 0
<1> DEFINE key == NamedKey(r)
<1>1. childCount \in {0, 1} /\ parentIds[0] = <<key>>
    BY DEF RefInv, TypeOK, LinkTypeOK
<1> HIDE DEF key
<1>2. MatchIds = IF childCount = 1 THEN {0} ELSE {}
    <2>1. CASE childCount = 1
        BY <2>1 DEF MatchIds
    <2>2. CASE childCount = 0
        BY <2>2 DEF MatchIds
    <2> QED
        BY <1>1, <2>1, <2>2
<1>3. \A k : <<key>> = <<k>> <=> key = k
    OBVIOUS
<1>4. EqualTags(LiveKeys) = IF childCount = 1 /\ key \in LiveKeys THEN {0} ELSE {}
    BY <1>1, <1>2, <1>3 DEF EqualTags
<1>5. MatchedKeys(LiveKeys) = IF childCount = 1 /\ key \in LiveKeys THEN {key} ELSE {}
    BY <1>1, <1>2, <1>3 DEF MatchedKeys
<1>6. Cardinality({0}) = 1 /\ Cardinality({}) = 0
    BY FS_EmptySet, FS_Singleton
<1> QED
    BY <1>4, <1>5, <1>6 DEF CountMatches, key

\* The constructor copies the child that the reference names.
LEMMA NamedCollected ==
    ASSUME TypeOK, RefInv, NEW r \in references, childCount = 1,
           NamedKey(r) \in LiveKeys, Collect(ChildEntries)
    PROVE  /\ children' = <<[key |-> NamedKey(r), ext |-> childTypes[NamedKey(r)]]>>
           /\ matchCount' = 1
<1> DEFINE key    == NamedKey(r)
           entry  == [key |-> key, ext |-> childTypes[key]]
           keys   == {c.key : c \in ChildEntries}
           chosen == {c \in ChildEntries : c.key \in MatchedKeys(keys)}
<1>1. keys = LiveKeys
    <2>1. ASSUME NEW k \in LiveKeys
          PROVE  k \in keys
        <3>1. [key |-> k, ext |-> childTypes[k]].key = k
            OBVIOUS
        <3> QED
            BY <3>1 DEF ChildEntries
    <2>2. \A c \in ChildEntries : c.key \in LiveKeys
        BY DEF ChildEntries
    <2> QED
        BY <2>1, <2>2
<1>2. MatchedKeys(keys) = {key} /\ CountMatches(keys) = 1
    BY <1>1, NamedMatches
<1>3. chosen = {entry}
    <2>1. entry \in ChildEntries /\ entry.key = key
        BY DEF ChildEntries
    <2>2. \A c \in ChildEntries : c.key = key => c = entry
        BY DEF ChildEntries
    <2> QED
        BY <1>2, <2>1, <2>2
<1>4. children' \in SetToSeqs(chosen) /\ matchCount' = CountMatches(keys)
    BY DEF Collect
<1> HIDE DEF entry, keys, chosen
<1>5. children' \in [1..1 -> {entry}]
    BY <1>3, <1>4, FS_Singleton DEF SetToSeqs
<1>6. children' = <<entry>>
    BY <1>5
<1> QED
    BY <1>2, <1>4, <1>6 DEF entry, key

\* Steps that move the walk only.
LEMMA StageKept ==
    ASSUME RefInv, StageInv, phase \in {"idle", "visiting"}, phase' \in {"idle", "visiting"},
           UNCHANGED <<linkVars, loopVars, extVars, childVars, idTagFound, inStruct,
                       structs, historyVars>>
    PROVE  StageInv'
<1> USE DEF linkVars, matchVars, loopVars, extVars, childVars, historyVars
<1>1. references = {} => Unused'
    BY DEF StageInv, Unused, NoLinks
<1>2. ASSUME NEW r \in references
      PROVE  Waiting(r)' \/ Resolved(r)'
    <2>1. Waiting(r) \/ Resolved(r)
        BY DEF StageInv, Serving, Served
    <2>2. CASE Waiting(r)
        BY <2>2 DEF Waiting, OnlyLink, LiveKeys, NamedKey
    <2>3. CASE Resolved(r)
        BY <2>3 DEF Resolved, NoLinks, Filled, IsElement, NamedKey
    <2> QED
        BY <2>1, <2>2, <2>3
<1> QED
    BY <1>1, <1>2 DEF StageInv

\* A field that was filled stays so as long as nothing writes its struct, and
\* no other struct takes the place in the map.
LEMMA FilledStays ==
    ASSUME TypeOK, TableInv, RefInv, PlainNext, NEW r \in references, Filled(r),
           NamedKey(r) \in resolvedKeys',
           container'[r[1]] = container[r[1]],
           \A t \in StoreTypes : structs[t] # NoStruct => structs'[t] = structs[t]
    PROVE  Filled(r)'
<1>1. r[1] \in 1..extCount /\ 1..extCount \subseteq Slots /\ extCount \in Nat
    BY MaxCharSizePos DEF RefInv, TypeOK, XmlTypeOK, Slots
<1>2. /\ extCount' \in Nat /\ 1..extCount \subseteq 1..extCount'
      /\ \A e \in 1..extCount : extractorType'[e] = extractorType[e]
                                /\ elementId'[e] = elementId[e]
    <2>1. ASSUME NEW type \in StructTypes, NEW id \in Ids \cup {NoId}, EnterStruct(type, id)
          PROVE  /\ extCount' = extCount + 1
                 /\ extractorType' = [extractorType EXCEPT ![extCount + 1] = type]
                 /\ elementId' = [elementId EXCEPT ![extCount + 1] = id]
        BY <2>1 DEF EnterStruct, PushExtractor
    <2>2. extractorType \in [Slots -> Types] /\ elementId \in [Slots -> Ids \cup {NoId}]
        BY DEF TypeOK, XmlTypeOK
    <2> QED
        BY <1>1, <2>1, <2>2, PlainFrame
<1>3. structs'[extractorType[r[1]]] = [ext |-> r[1], content |-> container[r[1]]]
    <2>1. /\ extractorType[r[1]] \in StoreTypes
          /\ [ext |-> r[1], content |-> container[r[1]]] \in Snapshot
        BY <1>1 DEF TableInv, StoreTypes, Snapshot, TypeOK, XmlTypeOK
    <2> QED
        BY <2>1, NoStructIsNone DEF Filled
<1>4. \E c \in 1..extCount :
          IsElement(c, NamedKey(r)) /\ container[r[1]][r[2].field] = <<c>>
    BY DEF Filled
<1> QED
    BY <1>1, <1>2, <1>3, <1>4 DEF Filled, IsElement, NamedKey

\* A new struct element lets a field wait on, and is not one that is resolved.
LEMMA StageEnterStruct ==
    ASSUME TypeOK, TableInv, RefInv, StageInv, PlainNext, NEW type \in StructTypes,
           NEW id \in Ids \cup {NoId}, EnterStruct(type, id)
    PROVE  StageInv'
<1>1. /\ phase = "visiting" /\ phase' = phase /\ inStruct' = TRUE
      /\ extractor' = extCount + 1 /\ extCount \in Nat
      /\ container' = [container EXCEPT ![extCount + 1] = [f \in Fields |-> Unset]]
      /\ UNCHANGED <<childCount, parentIds, childInfo, resolvedKeys, idTagFound, structs,
                     references>>
    BY DEF EnterStruct, Descend, PushExtractor, linkVars, TypeOK, XmlTypeOK
<1>2. references = {} => Unused'
    BY <1>1 DEF StageInv, Unused, NoLinks
<1>3. ASSUME NEW r \in references
      PROVE  Waiting(r)' \/ Resolved(r)'
    <2>1. Waiting(r) \/ Resolved(r)
        BY <1>1 DEF StageInv, Serving, Served
    <2>2. CASE Waiting(r)
        BY <1>1, <2>2 DEF Waiting, OnlyLink
    <2>3. CASE Resolved(r)
        <3>1. r[1] \in 1..extCount /\ r[1] # extCount + 1
            BY <1>1 DEF RefInv
        <3>2. container'[r[1]] = container[r[1]]
            BY <1>1, <3>1 DEF TypeOK, XmlTypeOK
        <3>3. Filled(r)'
            BY <1>1, <2>3, <3>2, FilledStays DEF Resolved, Filled
        <3> QED
            BY <1>1, <2>3, <3>1, <3>3 DEF Resolved, NoLinks
    <2> QED
        BY <2>1, <2>2, <2>3
<1> QED
    BY <1>1, <1>2, <1>3 DEF StageInv

\* The reference makes its field wait.
LEMMA StageEnterReference ==
    ASSUME TypeOK, RefInv, StageInv, SingleReferenceStep, inStruct,
           NEW ref \in ReferenceElements, EnterReference(ref)
    PROVE  StageInv'
<1>0. PICK new : new = <<extractor, ref>>
    OBVIOUS
<1>1. Unused /\ references' = {new} /\ childCount' = 1
    BY <1>0, FirstReference
<1>2. /\ phase' = "visiting" /\ inStruct' /\ idTagFound' /\ resolvedKeys' = resolvedKeys
      /\ childInfo' = [childInfo EXCEPT ![ref.type] =
            IF @ = NoLink
            THEN [parent |-> extractor, field |-> ref.field, pointer |-> ref.pointer]
            ELSE @]
    BY DEF EnterReference, Descend, childVars, Add
<1>3. new[1] = extractor /\ new[2] = ref
    BY <1>0
<1>4. childInfo' = OnlyLink(new)
    BY <1>1, <1>2, <1>3 DEF Unused, NoLinks, OnlyLink
<1>5. Waiting(new)'
    BY <1>1, <1>2, <1>4 DEF Waiting, OnlyLink, Unused
<1> QED
    BY <1>1, <1>5 DEF StageInv

\* Text goes into the struct that is open.
LEMMA StageEnterLiteral ==
    ASSUME TypeOK, TableInv, RefInv, StageInv, PlainNext, inStruct,
           NEW field, NEW complaint, EnterLiteral(field, complaint)
    PROVE  StageInv'
<1>1. /\ phase = "visiting" /\ phase' = phase
      /\ container' = SetField(extractor, field, Literal)
      /\ UNCHANGED <<childCount, parentIds, childInfo, resolvedKeys, childTypes, idTagFound,
                     structs, references, inStruct, extractor>>
    BY DEF EnterLiteral, Descend, linkVars, childVars, historyVars
<1>2. references = {} => Unused'
    BY <1>1 DEF StageInv, Unused, NoLinks
<1>3. ASSUME NEW r \in references
      PROVE  Waiting(r)' \/ Resolved(r)'
    <2>1. Waiting(r) \/ Resolved(r)
        BY <1>1 DEF StageInv, Serving, Served
    <2>2. CASE Waiting(r)
        BY <1>1, <2>2 DEF Waiting, OnlyLink, LiveKeys, NamedKey
    <2>3. CASE Resolved(r)
        <3>1. extractor # r[1]
            BY <2>3 DEF Resolved
        <3>2. container'[r[1]] = container[r[1]]
            BY <1>1, <3>1 DEF SetField, TypeOK, XmlTypeOK
        <3>3. Filled(r)'
            BY <1>1, <2>3, <3>2, FilledStays DEF Resolved, Filled
        <3> QED
            BY <1>1, <2>3, <3>1, <3>3 DEF Resolved, NoLinks
    <2> QED
        BY <2>1, <2>2, <2>3
<1> QED
    BY <1>1, <1>2, <1>3 DEF StageInv

\* A struct that ends is stored only if no field waits, and takes no place
\* that is taken.
LEMMA StageExitStore ==
    ASSUME TypeOK, TableInv, RefInv, StageInv, PlainNext, ExitStore
    PROVE  StageInv'
<1>1. /\ phase = "visiting" /\ phase' = phase /\ ~inStruct' /\ ~idTagFound
      /\ structs' = StoreNew(structs, extractor) /\ childCount' = 0
      /\ UNCHANGED <<parentIds, childInfo, resolvedKeys, childTypes, idTagFound,
                     references, extractor, container>>
    BY DEF ExitStore, EndsStruct, Leaving, LooksForChildren, ClearParTags, childVars,
       extVars, historyVars
<1>2. references = {} => Unused'
    BY <1>1 DEF StageInv, Unused, NoLinks
<1>3. ASSUME NEW r \in references
      PROVE  Resolved(r)'
    <2>1. Resolved(r)
        BY <1>1 DEF StageInv, Waiting, Serving, Served
    <2>2. \A t \in StoreTypes : structs[t] # NoStruct => structs'[t] = structs[t]
        BY <1>1 DEF StoreNew, Replace, TypeOK, XmlTypeOK
    <2>3. Filled(r)'
        BY <1>1, <2>1, <2>2, FilledStays DEF Resolved, Filled
    <2> QED
        BY <1>1, <2>1, <2>3 DEF Resolved, NoLinks
<1> QED
    BY <1>1, <1>2, <1>3 DEF StageInv

\* No child is found: there is none yet that the reference names.
LEMMA StageExitNoMatch ==
    ASSUME TypeOK, RefInv, StageInv, ExitNoMatch
    PROVE  StageInv'
<1>1. /\ phase = "visiting" /\ phase' = phase /\ ~inStruct' /\ CountMatches(LiveKeys) = 0
      /\ UNCHANGED <<childCount, parentIds, childInfo, resolvedKeys, childTypes, idTagFound,
                     references, extractor, container, structs, extractorType, elementId,
                     extCount>>
    BY DEF ExitNoMatch, EndsStruct, Leaving, linkVars, childVars, extVars, historyVars
<1>2. references = {} => Unused'
    BY <1>1 DEF StageInv, Unused, NoLinks
<1>3. ASSUME NEW r \in references
      PROVE  Waiting(r)' \/ Resolved(r)'
    <2>1. Waiting(r) \/ Resolved(r)
        BY <1>1 DEF StageInv, Serving, Served
    <2>2. CASE Waiting(r)
        <3>1. NamedKey(r) \notin LiveKeys
            BY <1>1, <2>2, NamedMatches DEF Waiting
        <3> QED
            BY <1>1, <2>2, <3>1 DEF Waiting, OnlyLink, LiveKeys, NamedKey
    <2>3. CASE Resolved(r)
        BY <1>1, <2>3 DEF Resolved, NoLinks, Filled, IsElement, NamedKey
    <2> QED
        BY <2>1, <2>2, <2>3
<1> QED
    BY <1>1, <1>2, <1>3 DEF StageInv

\* A child is found: it is the one the reference names.
LEMMA StageExitMatch ==
    ASSUME TypeOK, TableInv, RefInv, StageInv, ExitMatch
    PROVE  StageInv'
<1>1. /\ phase = "visiting" /\ phase' = "linking" /\ ~idTagFound' /\ todo' = PendingTypes
      /\ childLoc' = NoTag /\ CountMatches(LiveKeys) > 0 /\ Collect(ChildEntries)
      /\ UNCHANGED <<childCount, parentIds, childInfo, resolvedKeys, childTypes, references>>
    BY DEF ExitMatch, EndsStruct, Leaving, linkVars, childVars, historyVars
<1>2. references # {}
    <2>1. SUFFICES ASSUME references = {}
                   PROVE  FALSE
        OBVIOUS
    <2>2. childCount = 0
        BY <2>1, <1>1 DEF StageInv, Unused
    <2>3. MatchIds = {}
        BY <2>2 DEF MatchIds
    <2>4. EqualTags(LiveKeys) = {}
        BY <2>3 DEF EqualTags
    <2> QED
        BY <1>1, <2>4, FS_EmptySet DEF CountMatches
<1>3. ASSUME NEW r \in references
      PROVE  Serving(r)'
    <2>1. childCount = 1 /\ NamedKey(r) \in LiveKeys
        BY <1>1, NamedMatches
    <2>2. Waiting(r)
        BY <1>1, <2>1 DEF StageInv, Serving, Served, Resolved, Filled, TableInv
    <2>3. /\ children' = <<[key |-> NamedKey(r), ext |-> childTypes[NamedKey(r)]]>>
          /\ matchCount' = 1
        BY <1>1, <2>1, NamedCollected
    <2>4. PendingTypes = {r[2].type}
        <3>1. r[2].type \in Types /\ [parent |-> r[1], field |-> r[2].field,
                                      pointer |-> r[2].pointer] \in Link
            BY RefTyped
        <3> QED
            BY <2>2, <3>1, NoLinkIsNone DEF Waiting, OnlyLink, PendingTypes
    <2> QED
        BY <1>1, <2>1, <2>2, <2>3, <2>4 DEF Waiting, Serving, OnlyLink, LiveKeys, NamedKey
<1> QED
    BY <1>1, <1>2, <1>3 DEF StageInv

\* The turn of the loop finds the child.
LEMMA ServingFinds ==
    ASSUME TypeOK, RefInv, NEW r \in references, Serving(r)
    PROVE  /\ DOMAIN children = {1} /\ PositionsOf(r[2].type) = {1}
           /\ children[1].key = NamedKey(r) /\ children[1].ext = childTypes[NamedKey(r)]
<1> DEFINE entry == [key |-> NamedKey(r), ext |-> childTypes[NamedKey(r)]]
<1>1. children = <<entry>> /\ entry.key = NamedKey(r) /\ entry.ext = childTypes[NamedKey(r)]
    BY DEF Serving
<1> HIDE DEF entry
<1>2. DOMAIN children = {1} /\ children[1] = entry
    BY <1>1
<1>3. NamedKey(r)[2] = r[2].type
    BY DEF NamedKey
<1> QED
    BY <1>1, <1>2, <1>3 DEF PositionsOf

LEMMA StageLinkNoMatch ==
    ASSUME TypeOK, RefInv, StageInv, NEW type \in Types, LinkNoMatch(type)
    PROVE  FALSE
<1>1. phase = "linking" /\ type \in todo /\ PositionsOf(type) = {}
    BY DEF LinkNoMatch, Linking
<1>2. PICK r \in references : Serving(r)
    BY <1>1 DEF StageInv, Unused, Waiting, Served, Resolved
<1>3. type = r[2].type
    BY <1>1, <1>2 DEF Serving
<1> QED
    BY <1>1, <1>2, <1>3, ServingFinds

\* The turn of the loop fills the field.
LEMMA StageLinkAssign ==
    ASSUME TypeOK, LoopInv, TableInv, RefInv, StageInv, NEW type \in Types, LinkAssign(type)
    PROVE  StageInv'
<1>1. /\ phase = "linking" /\ type \in todo /\ phase' = phase
      /\ container' = SetField(childInfo[type].parent, childInfo[type].field,
                               FieldValue(childInfo[type].pointer))
      /\ linkResult' = TRUE /\ childLoc' = type /\ todo' = todo \ {type}
      /\ RenameFirst(type)
      /\ UNCHANGED <<childInfo, idTagFound, references, extractorType, extCount, elementId>>
    BY DEF LinkAssign, Linking, linkVars, walkVars, flagVars, historyVars
<1>2. references # {}
    BY <1>1 DEF StageInv, Unused
<1>3. ASSUME NEW r \in references
      PROVE  Served(r)'
    <2> DEFINE key == NamedKey(r)
               c   == childTypes[key]
    <2>1. Serving(r)
        BY <1>1 DEF StageInv, Waiting, Served, Resolved
    <2>2. type = r[2].type /\ todo' = {}
        BY <1>1, <2>1 DEF Serving
    <2>3. /\ childInfo[type].parent = r[1] /\ childInfo[type].field = r[2].field
          /\ childInfo[type].pointer = r[2].pointer
        BY <2>1, <2>2 DEF Serving, OnlyLink
    <2>4. DOMAIN children = {1} /\ children[1].key = key /\ children[1].ext = c
        BY <2>1, ServingFinds
    <2>5. key \in LiveKeys
        BY <2>1 DEF Serving
    <2>6. IsElement(c, key)
        BY <2>5 DEF TableInv
    <2> HIDE DEF key, c
    <2>7. key \in resolvedKeys'
        BY <1>1, <2>4 DEF RenameFirst
    <2>8. FieldValue(r[2].pointer) = <<c>>
        BY <2>4 DEF FieldValue
    <2>9. /\ r[1] \in Slots /\ extractorType[r[1]] \in StructTypes
          /\ r[2].field \in Fields
        BY MaxCharSizePos DEF RefInv, TableInv, TypeOK, XmlTypeOK, Slots
    <2>10. container'[r[1]][r[2].field] = <<c>>
        BY <1>1, <2>3, <2>8, <2>9 DEF SetField, TypeOK, XmlTypeOK, Content
    <2>11. structs'[extractorType[r[1]]] = [ext |-> r[1], content |-> container'[r[1]]]
        BY <2>3, <2>9, ParentStored DEF GetType
    <2>12. Filled(r)'
        BY <1>1, <2>6, <2>7, <2>10, <2>11 DEF Filled, IsElement, NamedKey, key
    <2> QED
        BY <1>1, <2>1, <2>2, <2>12 DEF Serving, Served, OnlyLink
<1> QED
    BY <1>1, <1>2, <1>3 DEF StageInv

\* The field served is forgotten, and the struct that ended is not written again.
LEMMA StageLinkDone ==
    ASSUME TypeOK, RefInv, StageInv, LinkDone
    PROVE  StageInv'
<1>1. /\ phase = "linking" /\ phase' = "visiting" /\ ~inStruct' /\ todo = {}
      /\ childLoc # NoTag => Erase(childLoc)
      /\ UNCHANGED <<idTagFound, references, extractorType, extCount, elementId, container,
                     structs, resolvedKeys>>
    BY DEF LinkDone, extVars, childVars, historyVars
<1>2. references # {}
    BY <1>1 DEF StageInv, Unused
<1>3. ASSUME NEW r \in references
      PROVE  Resolved(r)'
    <2>1. Served(r)
        BY <1>1 DEF StageInv, Waiting, Serving, Resolved
    <2>2. r[2].type \in Types
        BY RefTyped
    <2>3. childInfo' = [OnlyLink(r) EXCEPT ![r[2].type] = NoLink]
        BY <1>1, <2>1, <2>2, NoTagIsNone DEF Served, Erase
    <2>4. childInfo' = NoLinks
        BY <2>2, <2>3 DEF OnlyLink, NoLinks
    <2> QED
        BY <1>1, <2>1, <2>4 DEF Served, Resolved, NoLinks, Filled, IsElement, NamedKey
<1> QED
    BY <1>1, <1>2, <1>3 DEF StageInv

LEMMA StageStep ==
    ASSUME TypeOK, LoopInv, TableInv, RefInv, StageInv, PlainNext, SingleReferenceStep
    PROVE  StageInv'
<1>1. CASE /\ phase \in {"visiting", "linking"}
           /\ \E how \in {"terminated", "undefined"} : Crash(how)
    BY <1>1 DEF Crash, StageInv
<1>2. CASE \/ StartProcess \/ LoadFails \/ FinishProcess \/ EnterOther
           \/ ExitField \/ ExitOther
    <2>1. /\ phase \in {"idle", "visiting"} /\ phase' \in {"idle", "visiting"}
        BY <1>2 DEF StartProcess, LoadFails, FinishProcess, EnterOther, ExitField,
           ExitOther, Leaving, Descend, walkVars
    <2>2. UNCHANGED <<linkVars, loopVars, extVars, childVars, idTagFound, inStruct,
                      structs, historyVars>>
        BY <1>2, Zenon DEF StartProcess, LoadFails, FinishProcess, EnterOther, ExitField,
           ExitOther, flagVars
    <2> QED
        BY <2>1, <2>2, StageKept
<1>3. CASE inStruct /\ \E ref \in ReferenceElements : EnterReference(ref)
    BY <1>3, StageEnterReference
<1>4. CASE \E type \in StructTypes, id \in Ids \cup {NoId} : EnterStruct(type, id)
    BY <1>4, StageEnterStruct
<1>5. CASE inStruct /\ \E element \in LiteralElements : EnterLiteral(element[1], element[2])
    BY <1>5, StageEnterLiteral
<1>6. CASE ExitStore \/ ExitNoMatch \/ ExitMatch
    BY <1>6, StageExitStore, StageExitNoMatch, StageExitMatch
<1>7. CASE \E type \in Types : LinkNoMatch(type) \/ LinkAssign(type)
    BY <1>7, StageLinkNoMatch, StageLinkAssign
<1>8. CASE LinkDone
    BY <1>8, StageLinkDone
<1> QED
    BY <1>1, <1>2, <1>3, <1>4, <1>5, <1>6, <1>7, <1>8, Zenon DEF PlainNext

\* The inductive invariant of documents with one reference.
SingleInv ==
    /\ TypeOK /\ LoopInv /\ PointersRegistered
    /\ WalkInv /\ TableInv /\ RefInv /\ StageInv

LEMMA SingleInit ==
    ASSUME Init
    PROVE  SingleInv
<1>1. TypeOK /\ LoopInv /\ PointersRegistered
    BY TypeInit, PointersInit
<1>2. WalkInv
    BY DEF Init, WalkInv
<1>3. TableInv
    <2>1. LiveKeys = {} /\ resolvedKeys = {} /\ extCount = 0
        BY DEF Init, LiveKeys
    <2> QED
        BY <2>1 DEF TableInv
<1>4. RefInv
    BY DEF Init, RefInv
<1>5. StageInv
    BY MaxCharSizePos DEF Init, LinkInit, StageInv, Unused, NoLinks
<1> QED
    BY <1>1, <1>2, <1>3, <1>4, <1>5 DEF SingleInv

LEMMA SingleStep ==
    ASSUME SingleInv, [Next /\ SingleReferenceStep]_vars
    PROVE  SingleInv'
<1> USE DEF SingleInv
<1>1. CASE Next /\ SingleReferenceStep
    <2>1. PlainNext
        BY <1>1, PlainSteps
    <2>2. TypeOK' /\ LoopInv' /\ PointersRegistered'
        BY <1>1, TypingStep, PointersStep
    <2> QED
        BY <1>1, <2>1, <2>2, WalkStep, TableStep, RefStep, StageStep
<1>2. CASE UNCHANGED vars
    <2> USE <1>2 DEF vars, linkVars, matchVars, loopVars, walkVars, extVars, childVars,
            flagVars, processVars, historyVars
    <2>1. TypeOK' /\ LoopInv' /\ PointersRegistered'
        BY TypingStep, PointersStep
    <2>2. WalkInv'
        BY DEF WalkInv, PendingTypes
    <2>3. TableInv'
        BY DEF TableInv, LiveKeys, IsElement
    <2>4. RefInv'
        BY DEF RefInv, NamedKey
    <2>5. ASSUME NEW r \in references
          PROVE  (Waiting(r) \/ Serving(r) \/ Served(r) \/ Resolved(r))
                 => (Waiting(r) \/ Serving(r) \/ Served(r) \/ Resolved(r))'
        BY DEF Waiting, Serving, Served, Resolved, Filled, OnlyLink, NoLinks, LiveKeys,
           IsElement, NamedKey
    <2>6. StageInv'
        BY <2>5 DEF StageInv, Unused, NoLinks
    <2> QED
        BY <2>1, <2>2, <2>3, <2>4, <2>6
<1> QED
    BY <1>1, <1>2

\* What the stages say when process() has returned.
LEMMA SingleResolves ==
    ASSUME SingleInv
    PROVE  SingleReferenceResolved
<1> USE DEF SingleInv
<1> SUFFICES ASSUME phase = "idle", NEW r \in references
             PROVE  IF \E c \in Slots : IsChildOf(c, r)
                    THEN /\ \E c \in Slots :
                              IsChildOf(c, r) /\ container[r[1]][r[2].field] = <<c>>
                         /\ structs[extractorType[r[1]]] =
                              [ext |-> r[1], content |-> container[r[1]]]
                         /\ processResult /\ errors = {}
                    ELSE ~processResult /\ errors = {"FIELD_LEFT_UNASSIGNED"}
    BY DEF SingleReferenceResolved
<1> DEFINE key == NamedKey(r)
<1>1. /\ ~inStruct /\ processResult = (PendingTypes = {})
      /\ errors = IF PendingTypes = {} THEN {} ELSE {"FIELD_LEFT_UNASSIGNED"}
    BY DEF WalkInv
<1>2. \A c \in Slots : IsChildOf(c, r) <=> IsElement(c, key)
    BY DEF IsChildOf, IsElement, Registered, NamedKey
<1>3. /\ r[2].type \in Types /\ r[2].ids[1] \in Ids /\ 1..extCount \subseteq Slots
      /\ [parent |-> r[1], field |-> r[2].field, pointer |-> r[2].pointer] \in Link
    <2>1. Len(r[2].ids) = 1 /\ 1..extCount \subseteq Slots
        BY MaxCharSizePos DEF RefInv, TypeOK, XmlTypeOK, Slots
    <2> QED
        BY <2>1, RefTyped
<1>4. Waiting(r) \/ Resolved(r)
    BY DEF StageInv, Serving, Served
<1>5. CASE Waiting(r)
    <2>1. r[2].type \in PendingTypes
        BY <1>3, <1>5, NoLinkIsNone DEF Waiting, OnlyLink, PendingTypes
    <2>2. key \notin LiveKeys /\ resolvedKeys = {}
        BY <1>1, <1>5 DEF Waiting
    <2>3. ASSUME NEW c \in Slots, IsElement(c, key)
          PROVE  FALSE
        <3>1. c \in 1..extCount /\ r[2].type \in StructTypes
            BY <2>3 DEF IsElement, TableInv, NamedKey
        <3>2. key \in Keys
            BY <1>3, <3>1 DEF Keys, NamedKey
        <3>3. childTypes[key] = c /\ c # 0
            BY <2>2, <2>3, <3>1, <3>2 DEF TableInv, Slots
        <3> QED
            BY <2>2, <3>2, <3>3 DEF LiveKeys
    <2> QED
        BY <1>1, <1>2, <2>1, <2>3
<1>6. CASE Resolved(r)
    <2>1. PendingTypes = {}
        BY <1>6 DEF Resolved, NoLinks, PendingTypes
    <2>2. PICK c \in 1..extCount :
              IsElement(c, key) /\ container[r[1]][r[2].field] = <<c>>
        BY <1>6 DEF Resolved, Filled
    <2>3. structs[extractorType[r[1]]] = [ext |-> r[1], content |-> container[r[1]]]
        BY <1>6 DEF Resolved, Filled
    <2> QED
        BY <1>1, <1>2, <1>3, <2>1, <2>2, <2>3
<1> QED
    BY <1>4, <1>5, <1>6

\* A document with one reference: the field holds the child that has the id
\* and the type, wherever it stands, the map holds the parent as it is, and
\* process() succeeds; or there is no such child and process() says so.
THEOREM SingleReferenceResolvedHolds == SingleReferenceSpec => []SingleReferenceResolved
<1>1. Init => SingleInv
    BY SingleInit
<1>2. SingleInv /\ [Next /\ SingleReferenceStep]_vars => SingleInv'
    BY SingleStep
<1>3. SingleInv => SingleReferenceResolved
    BY SingleResolves
<1> QED
    BY <1>1, <1>2, <1>3, PTL DEF SingleReferenceSpec

\* In such a document VisitExit never answers FALSE, and no element is skipped.
THEOREM NothingSkippedHolds == SingleReferenceSpec => []NothingSkipped
<1>1. Init => SingleInv
    BY SingleInit
<1>2. SingleInv /\ [Next /\ SingleReferenceStep]_vars => SingleInv'
    BY SingleStep
<1>3. SingleInv => NothingSkipped
    BY DEF SingleInv, WalkInv, NothingSkipped
<1> QED
    BY <1>1, <1>2, <1>3, PTL DEF SingleReferenceSpec
=============================================================================
