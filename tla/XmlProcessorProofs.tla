-------------------------- MODULE XmlProcessorProofs --------------------------
(***************************************************************************)
(* What holds of XmlProcessor for every type list, every set of ids, every *)
(* size of the fixed arrays and every document.                            *)
(***************************************************************************)
EXTENDS XmlProcessorProperties, FiniteSetTheorems, TLAPS

-----------------------------------------------------------------------------
(***************************************************************************)
(* The copies of the children, ChildTypeParentFieldMatching.               *)
(***************************************************************************)
\* A table of children with finitely many keys has finitely many entries: the
\* constructor of ChildTypeParentFieldMatching fills an array of that size.
LEMMA EntriesFinite ==
    ASSUME XmlTypeOK
    PROVE  IsFiniteSet(ChildEntries)
<1>1. IsFiniteSet(LiveKeys)
    <2>1. IsFiniteSet(StructTypes)
        BY TypesFinite, FS_Subset DEF Types
    <2>2. IsFiniteSet(Keys)
        BY <2>1, IdsFinite, FS_Product DEF Keys
    <2> QED
        BY <2>2, FS_Subset DEF LiveKeys
<1>2. PICK n \in Nat : ExistsSurjection(1..n, LiveKeys)
    BY <1>1, FS_NatSurjection
<1>3. PICK s \in [1..n -> LiveKeys] : \A k \in LiveKeys : \E i \in 1..n : s[i] = k
    BY <1>2 DEF ExistsSurjection, Surjection
<1> DEFINE entry == [i \in 1..n |-> [key |-> s[i], ext |-> childTypes[s[i]]]]
<1>4. entry \in Surjection(1..n, ChildEntries)
    BY <1>3 DEF Surjection, ChildEntries
<1> QED
    BY <1>4, FS_NatSurjection DEF ExistsSurjection

\* The constructor copies entries of the table, each at most once, and only
\* entries with a key equal to a string in use.
LEMMA Collected ==
    ASSUME XmlTypeOK, Collect(ChildEntries)
    PROVE  /\ children' \in Seq(Child)
           /\ \A i \in DOMAIN children' :
                /\ children'[i].key \in MatchedKeys(LiveKeys)
                /\ children'[i].ext = childTypes[children'[i].key]
           /\ \A i, j \in DOMAIN children' :
                i # j => children'[i].key # children'[j].key
<1> DEFINE keys   == {c.key : c \in ChildEntries}
           chosen == {c \in ChildEntries : c.key \in MatchedKeys(keys)}
           n      == Cardinality(chosen)
<1>1. keys = LiveKeys
    <2>1. ASSUME NEW k \in LiveKeys
          PROVE  k \in keys
        <3>1. [key |-> k, ext |-> childTypes[k]].key = k
            OBVIOUS
        <3> QED
            BY <3>1 DEF ChildEntries
    <2>2. \A c \in ChildEntries : c.key \in LiveKeys
        BY DEF ChildEntries
    <2> QED
        BY <2>1, <2>2
<1>2. n \in Nat
    BY EntriesFinite, FS_Subset, FS_CardinalityType
<1>3. children' \in SetToSeqs(chosen)
    BY DEF Collect
<1>4. /\ children' \in [1..n -> chosen]
      /\ \A i, j \in 1..n : i # j => children'[i] # children'[j]
    BY <1>3 DEF SetToSeqs
<1>5. \A c \in chosen : /\ c \in Child
                        /\ c.key \in MatchedKeys(LiveKeys)
                        /\ c.ext = childTypes[c.key]
                        /\ c = [key |-> c.key, ext |-> childTypes[c.key]]
    <2> SUFFICES ASSUME NEW c \in chosen
                 PROVE  /\ c \in Child
                        /\ c.key \in MatchedKeys(LiveKeys)
                        /\ c.ext = childTypes[c.key]
                        /\ c = [key |-> c.key, ext |-> childTypes[c.key]]
        OBVIOUS
    <2>1. PICK k \in LiveKeys : c = [key |-> k, ext |-> childTypes[k]]
        BY DEF ChildEntries
    <2>2. k \in Keys /\ childTypes[k] \in Slots
        BY MaxCharSizePos DEF LiveKeys, Slots, XmlTypeOK
    <2>3. c.key \in MatchedKeys(LiveKeys)
        BY <1>1
    <2> QED
        BY <2>1, <2>2, <2>3 DEF Child
<1> HIDE DEF n, chosen, keys
<1>6. children' \in Seq(Child)
    BY <1>2, <1>4, <1>5
<1>7. DOMAIN children' = 1..n
    BY <1>4
<1> QED
    BY <1>4, <1>5, <1>6, <1>7

\* No more strings are counted as equal than are in use.
LEMMA CountBounded ==
    ASSUME LinkTypeOK, NEW keys
    PROVE  CountMatches(keys) \in 0..MaxCharSize
<1>1. /\ IsFiniteSet(MatchIds) /\ Cardinality(MatchIds) = childCount
    <2>1. childCount \in Int /\ childCount >= 0
        BY MaxCharSizePos DEF LinkTypeOK
    <2>2. Cardinality(0..childCount - 1)
             = IF 0 > childCount - 1 THEN 0 ELSE childCount - 1 - 0 + 1
        BY <2>1, FS_Interval
    <2> QED
        BY <2>1, <2>2, FS_Interval DEF MatchIds
<1>2. EqualTags(keys) \in SUBSET MatchIds
    BY DEF EqualTags
<1>3. /\ IsFiniteSet(EqualTags(keys))
      /\ Cardinality(EqualTags(keys)) <= childCount
    BY <1>1, <1>2, FS_Subset
<1> QED
    BY <1>3, FS_CardinalityType, MaxCharSizePos DEF CountMatches, LinkTypeOK

-----------------------------------------------------------------------------
(***************************************************************************)
(* Type correctness.                                                       *)
(***************************************************************************)
\* What getTypeForField relies on while it runs: the extractor is that of the
\* closing struct, and an entry of childInfo still to come is still there.
LoopInv ==
    phase = "linking" =>
        /\ extractor # 0 /\ GetType(extractor) # NullWrapper
        /\ ~idTagFound
        /\ todo \subseteq PendingTypes

\* The helpers on extractors, stored structs and children.
LEMMA SetFieldType ==
    ASSUME XmlTypeOK, NEW e \in Slots, NEW field, NEW value \in Value
    PROVE  SetField(e, field, value) \in [Slots -> Content]
BY DEF XmlTypeOK, SetField, Content

LEMMA ReplaceType ==
    ASSUME XmlTypeOK, NEW store \in [StoreTypes -> Snapshot \cup {NoStruct}],
           NEW e \in Slots, NEW content \in Content
    PROVE  Replace(store, e, content) \in [StoreTypes -> Snapshot \cup {NoStruct}]
BY DEF XmlTypeOK, Replace, GetType, StoreTypes, Snapshot

LEMMA ChildTyped ==
    ASSUME MatchTypeOK, NEW i \in DOMAIN children
    PROVE  /\ children[i].key \in Keys /\ children[i].key[2] \in StructTypes
           /\ children[i].ext \in Slots
<1>1. children[i] \in Child
    BY DEF MatchTypeOK
<1>2. children[i].key \in Keys /\ children[i].ext \in Slots
    BY <1>1 DEF Child
<1> QED
    BY <1>2 DEF Keys

LEMMA FieldValueType ==
    ASSUME MatchTypeOK, NEW pointer, children # <<>>
    PROVE  FieldValue(pointer) \in Seq(Slots)
<1>1. children[1] \in Child
    BY DEF MatchTypeOK
<1>2. \A i \in DOMAIN children : children[i].ext \in Slots
    BY ChildTyped
<1>3. CASE pointer
    BY <1>2, <1>3 DEF MatchTypeOK, FieldValue
<1>4. CASE ~pointer
    BY <1>1, <1>4 DEF FieldValue, Child
<1> QED
    BY <1>3, <1>4

LEMMA PushExtractorType ==
    ASSUME XmlTypeOK, NEW type \in Types, NEW id \in Ids \cup {NoId},
           PushExtractor(type, id)
    PROVE  /\ extCount' \in 0..MaxCharSize /\ extractor' \in 0..extCount'
           /\ extractorType' \in [Slots -> Types]
           /\ container' \in [Slots -> Content]
           /\ elementId' \in [Slots -> Ids \cup {NoId}]
<1>1. [f \in Fields |-> Unset] \in Content
    BY DEF Content, Value
<1>2. extCount + 1 \in Slots
    BY MaxCharSizePos DEF XmlTypeOK, PushExtractor, Slots
<1> QED
    BY <1>1, <1>2, MaxCharSizePos DEF XmlTypeOK, PushExtractor

LEMMA AddType ==
    ASSUME LinkTypeOK, NEW e \in Slots, NEW ref \in ReferenceElement,
           Add(e, ref.field, ref.pointer, ref.type, ref.ids)
    PROVE  LinkTypeOK'
<1>1. childCount' \in 0..MaxCharSize
    BY MaxCharSizePos DEF LinkTypeOK, Add, ParseChildRef, RefOverflows, ReferenceElement
<1>2. parentIds' \in [0..MaxCharSize - 1 -> Seq(Ids \X Types)]
    <2>1. ASSUME NEW k \in 0..MaxCharSize - 1,
                 k \in childCount..childCount + Len(ref.ids) - 1
          PROVE  Append(parentIds[k], <<ref.ids[k - childCount + 1], ref.type>>)
                    \in Seq(Ids \X Types)
        <3>1. k - childCount + 1 \in 1..Len(ref.ids)
            BY <2>1, MaxCharSizePos DEF LinkTypeOK, ReferenceElement
        <3>2. <<ref.ids[k - childCount + 1], ref.type>> \in Ids \X Types
            BY <3>1 DEF ReferenceElement
        <3> QED
            BY <3>2 DEF LinkTypeOK
    <2> QED
        BY <2>1 DEF LinkTypeOK, Add, ParseChildRef
<1>3. childInfo' \in [Types -> Link \cup {NoLink}]
    BY DEF LinkTypeOK, Add, ReferenceElement, Link
<1> QED
    BY <1>1, <1>2, <1>3 DEF LinkTypeOK

\* Every step of the processor keeps the types of its variables.
LEMMA TypingStep ==
    ASSUME TypeOK, LoopInv, [Next]_vars
    PROVE  TypeOK' /\ LoopInv'
<1> USE DEF linkVars, matchVars, loopVars, walkVars, extVars, childVars, flagVars,
            processVars, historyVars, TypeOK, LinkTypeOK, MatchTypeOK, XmlTypeOK,
            LoopInv
<1>1. ASSUME NEW how \in {"terminated", "undefined"}, Crash(how)
      PROVE  TypeOK' /\ LoopInv'
    BY <1>1 DEF Crash, Phases
<1>2. ASSUME StartProcess
      PROVE  TypeOK' /\ LoopInv'
    <2>1. LinkTypeOK' /\ MatchTypeOK'
        BY <1>2 DEF StartProcess, Phases
    <2>2. XmlTypeOK'
        <3>1. skip' \in BOOLEAN
            BY <1>2, Zenon DEF StartProcess, Phases
        <3> QED
            BY <1>2, <3>1 DEF StartProcess, Phases
    <2>3. LoopInv'
        BY <1>2 DEF StartProcess, Phases
    <2> QED
        BY <2>1, <2>2, <2>3
<1>3. ASSUME LoadFails
      PROVE  TypeOK' /\ LoopInv'
    BY <1>3 DEF LoadFails, ReportPending, ErrorFlags
<1>4. ASSUME FinishProcess
      PROVE  TypeOK' /\ LoopInv'
    BY <1>4 DEF FinishProcess, ReportPending, ErrorFlags, Phases
<1>5. ASSUME EnterOther
      PROVE  TypeOK' /\ LoopInv'
    BY <1>5 DEF EnterOther, Descend
<1>6. ASSUME EnterFieldTooEarly
      PROVE  TypeOK' /\ LoopInv'
    <2>1. LinkTypeOK' /\ MatchTypeOK'
        BY <1>6 DEF EnterFieldTooEarly, Descend, ErrorFlags
    <2>2. XmlTypeOK'
        BY <1>6 DEF EnterFieldTooEarly, Descend, ErrorFlags
    <2>3. LoopInv'
        BY <1>6 DEF EnterFieldTooEarly, Descend, ErrorFlags
    <2> QED
        BY <2>1, <2>2, <2>3
<1>7. ASSUME ExitField
      PROVE  TypeOK' /\ LoopInv'
    <2>1. LinkTypeOK' /\ MatchTypeOK'
        BY <1>7 DEF ExitField, Leaving, Ascend
    <2>2. XmlTypeOK'
        <3>1. skip' \in BOOLEAN /\ inField' \in BOOLEAN
            BY <1>7, Zenon DEF ExitField, Leaving, Ascend
        <3> QED
            BY <1>7, <3>1 DEF ExitField, Leaving, Ascend
    <2>3. LoopInv'
        BY <1>7 DEF ExitField, Leaving, Ascend
    <2> QED
        BY <2>1, <2>2, <2>3
<1>8. ASSUME ExitOther
      PROVE  TypeOK' /\ LoopInv'
    BY <1>8 DEF ExitOther, Leaving, Ascend
<1>9. ASSUME ExitBadStruct
      PROVE  TypeOK' /\ LoopInv'
    <2>1. LinkTypeOK' /\ MatchTypeOK'
        BY <1>9 DEF ExitBadStruct, EndsStruct, Leaving, Ascend, ErrorFlags
    <2>2. XmlTypeOK'
        <3>1. skip' \in BOOLEAN /\ inStruct' \in BOOLEAN
            BY <1>9, Zenon DEF ExitBadStruct, EndsStruct, Leaving, Ascend, ErrorFlags
        <3> QED
            BY <1>9, <3>1 DEF ExitBadStruct, EndsStruct, Leaving, Ascend, ErrorFlags
    <2>3. LoopInv'
        BY <1>9 DEF ExitBadStruct, EndsStruct, Leaving, Ascend, ErrorFlags
    <2> QED
        BY <2>1, <2>2, <2>3
<1>10. ASSUME ExitNoMatch
      PROVE  TypeOK' /\ LoopInv'
    <2>1. LinkTypeOK' /\ MatchTypeOK'
        BY <1>10 DEF ExitNoMatch, EndsStruct, Leaving, Ascend
    <2>2. XmlTypeOK'
        <3>1. skip' \in BOOLEAN /\ inStruct' \in BOOLEAN
            BY <1>10, Zenon DEF ExitNoMatch, EndsStruct, Leaving, Ascend
        <3> QED
            BY <1>10, <3>1 DEF ExitNoMatch, EndsStruct, Leaving, Ascend
    <2>3. LoopInv'
        BY <1>10 DEF ExitNoMatch, EndsStruct, Leaving, Ascend
    <2> QED
        BY <2>1, <2>2, <2>3
<1>11. ASSUME NEW type \in Types, NEW id \in Ids \cup {NoId}, EnterStruct(type, id)
       PROVE  TypeOK' /\ LoopInv'
    <2>1. PushExtractor(type, id)
        BY <1>11 DEF EnterStruct
    <2>2. childTypes' \in [Keys -> 0..MaxCharSize]
        BY <1>11, <2>1, MaxCharSizePos
        DEF EnterStruct, RegisterChild, PushExtractor, Keys
    <2>3. XmlTypeOK'
        BY <1>11, <2>1, <2>2, PushExtractorType DEF EnterStruct, Descend
    <2> QED
        BY <1>11, <2>3 DEF EnterStruct, Descend
<1>12. ASSUME NEW type \in Types, NEW id \in Ids \cup {NoId}, EnterBadStruct(type, id)
       PROVE  TypeOK' /\ LoopInv'
    <2>1. PushExtractor(type, id)
        BY <1>12 DEF EnterBadStruct
    <2>2. XmlTypeOK'
        BY <1>12, <2>1, PushExtractorType DEF EnterBadStruct, Descend, ErrorFlags
    <2> QED
        BY <1>12, <2>2 DEF EnterBadStruct, Descend
<1>13. ASSUME NEW ref \in ReferenceElements, EnterReference(ref)
       PROVE  TypeOK' /\ LoopInv'
    <2>1. ref \in ReferenceElement /\ extractor \in Slots
        BY <1>13, ReferenceElementsTyped, MaxCharSizePos DEF EnterReference, Slots
    <2>2. LinkTypeOK'
        BY <1>13, <2>1, AddType DEF EnterReference
    <2>3. XmlTypeOK'
        BY <1>13, <2>1 DEF EnterReference, Descend
    <2> QED
        BY <1>13, <2>2, <2>3 DEF EnterReference, Descend
<1>14. ASSUME NEW complaint, EnterUnreadableField(complaint)
       PROVE  TypeOK' /\ LoopInv'
    BY <1>14 DEF EnterUnreadableField, Descend, ErrorFlags
<1>15. ASSUME NEW element \in LiteralElements, EnterLiteral(element[1], element[2])
       PROVE  TypeOK' /\ LoopInv'
    <2>1. extractor \in Slots
        BY <1>15, MaxCharSizePos DEF EnterLiteral, Slots
    <2>2. container' \in [Slots -> Content]
        BY <1>15, <2>1, SetFieldType DEF EnterLiteral, Value
    <2>3. errors' \subseteq ErrorFlags
        BY <1>15, LiteralElementsTyped DEF EnterLiteral, ErrorFlags
    <2>4. XmlTypeOK'
        BY <1>15, <2>2, <2>3 DEF EnterLiteral, Descend
    <2> QED
        BY <1>15, <2>4 DEF EnterLiteral, Descend
<1>16. ASSUME ExitStore
       PROVE  TypeOK' /\ LoopInv'
    <2>1. extractor \in Slots
        BY <1>16, MaxCharSizePos DEF ExitStore, EndsStruct, Slots
    <2>2. container[extractor] \in Content
        BY <2>1
    <2>3. structs' \in [StoreTypes -> Snapshot \cup {NoStruct}]
        BY <1>16, <2>1, <2>2, ReplaceType DEF ExitStore, StoreNew
    <2>4. XmlTypeOK'
        <3>1. skip' \in BOOLEAN /\ inStruct' \in BOOLEAN
            BY <1>16, Zenon DEF ExitStore, Ascend
        <3> QED
            BY <1>16, <2>3, <3>1 DEF ExitStore, EndsStruct, Leaving, Ascend
    <2> QED
        BY <1>16, <2>4, MaxCharSizePos
        DEF ExitStore, ClearParTags, EndsStruct, Leaving, Ascend
<1>17. ASSUME ExitMatch
       PROVE  TypeOK' /\ LoopInv'
    <2>1. Collect(ChildEntries)
        BY <1>17 DEF ExitMatch
    <2>2. MatchTypeOK'
        BY <2>1, Collected, CountBounded DEF Collect
    <2>3. XmlTypeOK' /\ LinkTypeOK'
        BY <1>17 DEF ExitMatch, PendingTypes, Phases
    <2>4. LoopInv'
        BY <1>17 DEF ExitMatch, EndsStruct, PendingTypes, GetType
    <2> QED
        BY <2>2, <2>3, <2>4
<1>18. ASSUME NEW type \in Types, LinkNoMatch(type)
       PROVE  TypeOK' /\ LoopInv'
    BY <1>18 DEF LinkNoMatch, Linking, PendingTypes, GetType
<1>19. ASSUME NEW type \in Types, CanConvert(type)
       PROVE  type \in StructTypes /\ children # <<>>
    <2>1. PICK i \in DOMAIN children : children[i].key[2] = type
        BY <1>19 DEF CanConvert, PositionsOf
    <2> QED
        BY <2>1, ChildTyped
<1>20. ASSUME NEW type \in Types, Linking(type)
       PROVE  /\ childInfo[type] \in Link
              /\ extractor \in Slots
              /\ StoreClosing(childInfo[type].parent)
                    \in [StoreTypes -> Snapshot \cup {NoStruct}]
    <2>1. childInfo[type] \in Link /\ extractor \in Slots
        BY <1>20, MaxCharSizePos DEF Linking, PendingTypes, Slots
    <2>2. container[extractor] \in Content
        BY <2>1
    <2> QED
        BY <2>1, <2>2, ReplaceType DEF StoreClosing
<1>21. ASSUME NEW type \in Types, LinkAssign(type)
       PROVE  TypeOK' /\ LoopInv'
    <2> DEFINE link   == childInfo[type]
               filled == SetField(link.parent, link.field, FieldValue(link.pointer))
    <2>1. type \in StructTypes /\ children # <<>>
        BY <1>19, <1>21 DEF LinkAssign
    <2>2. link \in Link /\ link.parent \in Slots
        BY <1>20, <1>21 DEF LinkAssign, Link
    <2>3. filled \in [Slots -> Content] /\ filled[link.parent] \in Content
        BY <2>1, <2>2, FieldValueType, SetFieldType DEF Value
    <2>4. /\ container' = filled
          /\ structs' = Replace(StoreClosing(link.parent), link.parent,
                                filled[link.parent])
          /\ RenameFirst(type)
        BY <1>21 DEF LinkAssign
    <2>5. structs' \in [StoreTypes -> Snapshot \cup {NoStruct}]
        <3>1. StoreClosing(link.parent) \in [StoreTypes -> Snapshot \cup {NoStruct}]
            BY <1>20, <1>21 DEF LinkAssign
        <3> HIDE DEF filled, link
        <3> QED
            BY <2>2, <2>3, <2>4, <3>1, ReplaceType
    <2>6. /\ childTypes' \in [Keys -> 0..MaxCharSize]
          /\ resolvedKeys' \subseteq Keys
        <3>1. PICK i \in DOMAIN children :
                  /\ childTypes' = [childTypes EXCEPT ![children[i].key] = 0]
                  /\ resolvedKeys' = resolvedKeys \cup {children[i].key}
            BY <2>4 DEF RenameFirst
        <3>2. children[i].key \in Keys /\ 0 \in 0..MaxCharSize
            BY ChildTyped, MaxCharSizePos
        <3> QED
            BY <3>1, <3>2
    <2> HIDE DEF filled, link
    <2>7. XmlTypeOK'
        BY <1>21, <2>1, <2>3, <2>4, <2>5, <2>6 DEF LinkAssign
    <2>8. LoopInv'
        BY <1>21 DEF LinkAssign, Linking, PendingTypes, GetType
    <2> QED
        BY <1>21, <2>7, <2>8 DEF LinkAssign
<1>22. ASSUME NEW type \in Types, LinkRefused(type)
       PROVE  TypeOK' /\ LoopInv'
    <2>1. type \in StructTypes
        BY <1>19, <1>22 DEF LinkRefused
    <2>2. structs' \in [StoreTypes -> Snapshot \cup {NoStruct}]
        BY <1>20, <1>22 DEF LinkRefused
    <2>3. XmlTypeOK'
        BY <1>22, <2>1, <2>2 DEF LinkRefused, ErrorFlags
    <2> QED
        BY <1>22, <2>3 DEF LinkRefused, Linking, PendingTypes, GetType
<1>23. ASSUME LinkDone
       PROVE  TypeOK' /\ LoopInv'
    <2>1. LinkTypeOK'
        BY <1>23 DEF LinkDone, Erase
    <2>2. MatchTypeOK'
        BY <1>23, MaxCharSizePos DEF LinkDone, Release
    <2>3. XmlTypeOK'
        <3>1. skip' \in BOOLEAN /\ inStruct' \in BOOLEAN /\ linkResult' \in BOOLEAN
            BY <1>23, Zenon DEF LinkDone, Ascend
        <3> QED
            BY <1>23, <3>1 DEF LinkDone, Ascend, Phases
    <2> QED
        BY <1>23, <2>1, <2>2, <2>3 DEF LinkDone
<1>24. CASE Enter
    <2>1. ASSUME NEW element \in StructElements
          PROVE  element[1] \in Types /\ element[2] \in Ids \cup {NoId}
        BY StructElementsTyped
    <2>2. ASSUME NEW element \in LiteralElements, EnterLiteralNoHandler(element[2])
          PROVE  TypeOK' /\ LoopInv'
        BY <1>1, <2>2 DEF EnterLiteralNoHandler
    <2>3. ASSUME NEW ref \in ReferenceElements, EnterReferenceOverflow(ref)
          PROVE  TypeOK' /\ LoopInv'
        BY <1>1, <2>3 DEF EnterReferenceOverflow
    <2>4. ASSUME EnterStructOverflow
          PROVE  TypeOK' /\ LoopInv'
        BY <1>1, <2>4 DEF EnterStructOverflow
    <2> QED
        BY <1>5, <1>6, <1>11, <1>12, <1>13, <1>14, <1>15, <1>24, <2>1, <2>2, <2>3,
           <2>4, Zenon DEF Enter
<1>25. CASE Exit
    <2>1. ASSUME NEW type \in Types, LinkTerminates(type)
          PROVE  TypeOK' /\ LoopInv'
        BY <1>1, <2>1 DEF LinkTerminates
    <2>2. ASSUME NEW type \in Types, LinkUndefined(type)
          PROVE  TypeOK' /\ LoopInv'
        BY <1>1, <2>2 DEF LinkUndefined
    <2> QED
        BY <1>7, <1>8, <1>9, <1>10, <1>16, <1>17, <1>18, <1>21, <1>22, <1>23,
           <1>25, <2>1, <2>2, Zenon DEF Exit
<1>26. CASE UNCHANGED vars
    BY <1>26 DEF vars, PendingTypes, GetType
<1> QED
    BY <1>2, <1>3, <1>4, <1>24, <1>25, <1>26, Zenon DEF Next

\* The program starts in a typed state.
LEMMA TypeInit ==
    ASSUME Init
    PROVE  TypeOK /\ LoopInv
<1>1. LinkTypeOK /\ MatchTypeOK
    BY MaxCharSizePos DEF Init, LinkInit, MatchInit, LinkTypeOK, MatchTypeOK
<1>2. XmlTypeOK
    <2>1. [f \in Fields |-> Unset] \in Content
        BY DEF Content, Value
    <2>2. /\ container \in [Slots -> Content]
          /\ extractorType \in [Slots -> Types]
          /\ structs \in [StoreTypes -> Snapshot \cup {NoStruct}]
        BY <2>1 DEF Init, Types
    <2>3. /\ extCount \in 0..MaxCharSize /\ extractor \in 0..extCount
          /\ childTypes \in [Keys -> 0..MaxCharSize]
          /\ elementId \in [Slots -> Ids \cup {NoId}]
        BY MaxCharSizePos DEF Init
    <2> QED
        BY <2>2, <2>3 DEF Init, XmlTypeOK, Phases
<1> QED
    BY <1>1, <1>2 DEF Init, TypeOK, LoopInv

\* Every array index the processor computes is inside its array, every pointer
\* it keeps is of a registered extractor or null, and every map only has keys
\* and values of its types.
THEOREM TypeCorrect == Spec => []TypeOK
<1>1. Init => TypeOK /\ LoopInv
    BY TypeInit
<1>2. TypeOK /\ LoopInv /\ [Next]_vars => (TypeOK /\ LoopInv)'
    BY TypingStep
<1> QED
    BY <1>1, <1>2, PTL DEF Spec

-----------------------------------------------------------------------------
(***************************************************************************)
(* Which steps change what.                                                *)
(***************************************************************************)
\* The struct elements a document may contain.
LEMMA ElementTyped ==
    ASSUME NEW element \in StructElements
    PROVE  element[1] \in Types /\ element[2] \in Ids \cup {NoId}
BY StructElementsTyped

\* The frame of the next-state relation, variable by variable.
LEMMA Frame ==
    ASSUME [Next]_vars
    PROVE  /\ \/ UNCHANGED <<childInfo, idTagFound>>
              \/ \E ref \in ReferenceElements : EnterReference(ref)
              \/ ExitMatch
              \/ LinkDone
           /\ \/ UNCHANGED structs
              \/ ExitStore
              \/ \E type \in Types : LinkAssign(type) \/ LinkRefused(type)
           /\ \/ UNCHANGED <<extractorType, extCount>>
              \/ \E type \in Types, id \in Ids \cup {NoId} :
                    EnterStruct(type, id) \/ EnterBadStruct(type, id)
           /\ \/ UNCHANGED childTypes
              \/ \E type \in Types, id \in Ids \cup {NoId} : EnterStruct(type, id)
              \/ \E type \in Types : LinkAssign(type)
           /\ \/ UNCHANGED container
              \/ \E type \in Types, id \in Ids \cup {NoId} :
                    EnterStruct(type, id) \/ EnterBadStruct(type, id)
              \/ \E element \in LiteralElements : EnterLiteral(element[1], element[2])
              \/ \E type \in Types : LinkAssign(type)
           /\ \/ UNCHANGED children
              \/ ExitMatch
              \/ LinkDone
<1> USE DEF linkVars, matchVars, loopVars, walkVars, extVars, childVars, flagVars,
            processVars, historyVars
<1>1. CASE StartProcess \/ LoadFails \/ FinishProcess
    BY <1>1, Zenon DEF StartProcess, LoadFails, FinishProcess
<1>2. ASSUME NEW how, Crash(how)
      PROVE  UNCHANGED <<childInfo, idTagFound, structs, extractorType, extCount,
                         childTypes, container, children>>
    BY <1>2, Zenon DEF Crash
<1>3. CASE \/ EnterOther \/ EnterStructOverflow \/ EnterFieldTooEarly
           \/ \E ref \in ReferenceElements : EnterReferenceOverflow(ref)
           \/ \E element \in LiteralElements : \/ EnterUnreadableField(element[2])
                                              \/ EnterLiteralNoHandler(element[2])
    BY <1>2, <1>3, Zenon DEF EnterOther, EnterStructOverflow, EnterFieldTooEarly,
       EnterReferenceOverflow, EnterUnreadableField, EnterLiteralNoHandler
<1>4. CASE \E element \in StructElements : \/ EnterStruct(element[1], element[2])
                                          \/ EnterBadStruct(element[1], element[2])
    BY <1>4, ElementTyped, Zenon DEF EnterStruct, EnterBadStruct
<1>5. CASE \/ \E ref \in ReferenceElements : EnterReference(ref)
           \/ \E element \in LiteralElements : EnterLiteral(element[1], element[2])
    BY <1>5, Zenon DEF EnterReference, EnterLiteral
<1>6. CASE ExitField \/ ExitOther \/ ExitBadStruct \/ ExitNoMatch
    BY <1>6, Zenon DEF ExitField, ExitOther, ExitBadStruct, ExitNoMatch
<1>7. CASE ExitStore \/ ExitMatch \/ LinkDone
    BY <1>7, Zenon DEF ExitStore, ClearParTags, ExitMatch, LinkDone
<1>8. CASE \E type \in Types : LinkNoMatch(type) \/ LinkTerminates(type)
                               \/ LinkUndefined(type)
    BY <1>2, <1>8, Zenon DEF LinkNoMatch, LinkTerminates, LinkUndefined
<1>9. CASE \E type \in Types : LinkAssign(type) \/ LinkRefused(type)
    BY <1>9, Zenon DEF LinkAssign, LinkRefused
<1>10. CASE UNCHANGED vars
    BY <1>10, Zenon DEF vars
<1> QED
    BY <1>1, <1>3, <1>4, <1>5, <1>6, <1>7, <1>8, <1>9, <1>10, Zenon
    DEF Next, Enter, Exit

-----------------------------------------------------------------------------
(***************************************************************************)
(* idTagFound and childInfo.                                               *)
(***************************************************************************)
LEMMA PendingFlagStep ==
    ASSUME TypeOK, LoopInv, PendingFlag, [Next]_vars
    PROVE  PendingFlag'
<1>1. CASE UNCHANGED <<childInfo, idTagFound>>
    BY <1>1 DEF PendingFlag, PendingTypes
<1>2. ASSUME NEW ref \in ReferenceElements, EnterReference(ref)
      PROVE  PendingTypes' # {}
    <2>1. ref.type \in Types /\ ref \in ReferenceElement
        BY ReferenceElementsTyped DEF ReferenceElement
    <2>2. extractor \in Slots
        BY <1>2, MaxCharSizePos DEF EnterReference, Slots, TypeOK, XmlTypeOK
    <2>3. childInfo'[ref.type] # NoLink
        BY <1>2, <2>1, <2>2, NoLinkIsNone
        DEF EnterReference, Add, TypeOK, LinkTypeOK, Link, ReferenceElement
    <2> QED
        BY <2>1, <2>3 DEF PendingTypes
<1>3. CASE ExitMatch
    BY <1>3 DEF ExitMatch, PendingFlag
<1>4. CASE LinkDone
    BY <1>4 DEF LinkDone, LoopInv, PendingFlag
<1> QED
    BY <1>1, <1>2, <1>3, <1>4, Frame DEF PendingFlag

\* idTagFound, which makes VisitExit look for children, is never left set when
\* no field waits for a child any more.
THEOREM PendingFlagHolds == Spec => []PendingFlag
<1>1. Init => TypeOK /\ LoopInv /\ PendingFlag
    BY TypeInit DEF Init, PendingFlag
<1>2. TypeOK /\ LoopInv /\ PendingFlag /\ [Next]_vars
        => (TypeOK /\ LoopInv /\ PendingFlag)'
    BY TypingStep, PendingFlagStep
<1> QED
    BY <1>1, <1>2, PTL DEF Spec

-----------------------------------------------------------------------------
(***************************************************************************)
(* The pointers to extractors.                                             *)
(***************************************************************************)
\* Extractors are only ever added, and keep their type.
LEMMA RegisteredStays ==
    ASSUME TypeOK, [Next]_vars, NEW e \in 1..extCount
    PROVE  e \in 1..extCount' /\ extractorType'[e] = extractorType[e] /\ e \in Slots
<1>1. e \in Slots /\ extCount \in 0..MaxCharSize
    BY MaxCharSizePos DEF TypeOK, XmlTypeOK, Slots
<1>2. CASE UNCHANGED <<extractorType, extCount>>
    BY <1>1, <1>2
<1>3. ASSUME NEW type \in Types, NEW id \in Ids \cup {NoId}, PushExtractor(type, id)
      PROVE  e \in 1..extCount' /\ extractorType'[e] = extractorType[e]
    BY <1>1, <1>3, MaxCharSizePos DEF PushExtractor, TypeOK, XmlTypeOK
<1> QED
    BY <1>1, <1>2, <1>3, Frame DEF EnterStruct, EnterBadStruct

\* The entries of childTypes.
LEMMA ChildPointersStep ==
    ASSUME TypeOK, PointersRegistered, [Next]_vars, NEW k \in Keys, childTypes'[k] # 0
    PROVE  childTypes'[k] \in 1..extCount' /\ extractorType'[childTypes'[k]] = k[2]
<1>1. CASE childTypes'[k] = childTypes[k]
    BY <1>1, RegisteredStays DEF PointersRegistered, Registered
<1>2. ASSUME NEW type \in Types, NEW id \in Ids \cup {NoId}, EnterStruct(type, id),
             childTypes'[k] # childTypes[k]
      PROVE  childTypes'[k] \in 1..extCount' /\ extractorType'[childTypes'[k]] = k[2]
    <2>1. PushExtractor(type, id) /\ childTypes' = RegisterChild(type, id)
        BY <1>2 DEF EnterStruct
    <2>2. k = <<id, type>> /\ childTypes'[k] = extCount + 1
        BY <1>2, <2>1 DEF RegisterChild, TypeOK, XmlTypeOK
    <2>3. extCount + 1 \in Slots /\ extCount' = extCount + 1
        BY <2>1, MaxCharSizePos DEF PushExtractor, TypeOK, XmlTypeOK, Slots
    <2>4. extractorType'[extCount + 1] = type
        BY <2>1, <2>3 DEF PushExtractor, TypeOK, XmlTypeOK
    <2> QED
        BY <2>2, <2>3, <2>4 DEF Slots
<1>3. ASSUME NEW type \in Types, LinkAssign(type)
      PROVE  childTypes'[k] = childTypes[k]
    BY <1>3 DEF LinkAssign, RenameFirst, TypeOK, XmlTypeOK
<1> QED
    BY <1>1, <1>2, <1>3, Frame

\* The parents in childInfo.
LEMMA ParentPointersStep ==
    ASSUME TypeOK, PointersRegistered, [Next]_vars, NEW t \in Types,
           childInfo'[t] # NoLink
    PROVE  childInfo'[t].parent \in 1..extCount'
<1>1. CASE childInfo'[t] = childInfo[t]
    BY <1>1, RegisteredStays DEF PointersRegistered, Registered, PendingTypes
<1>2. ASSUME NEW ref \in ReferenceElements, EnterReference(ref),
             childInfo'[t] # childInfo[t]
      PROVE  childInfo'[t].parent \in 1..extCount'
    <2>1. childInfo'[t].parent = extractor
        BY <1>2 DEF EnterReference, Add, TypeOK, LinkTypeOK
    <2>2. extractor \in 1..extCount /\ extCount' = extCount
        BY <1>2, MaxCharSizePos DEF EnterReference, TypeOK, XmlTypeOK, extVars
    <2> QED
        BY <2>1, <2>2
<1>3. CASE ExitMatch
    BY <1>1, <1>3 DEF ExitMatch, linkVars
<1>4. CASE LinkDone
    BY <1>1, <1>4 DEF LinkDone, Erase, linkVars, TypeOK, LinkTypeOK
<1> QED
    BY <1>1, <1>2, <1>3, <1>4, Frame

\* The copied children.
LEMMA CopiedPointersStep ==
    ASSUME TypeOK, PointersRegistered, [Next]_vars, NEW i \in DOMAIN children'
    PROVE  /\ children'[i].ext \in 1..extCount'
           /\ extractorType'[children'[i].ext] = children'[i].key[2]
<1>1. CASE UNCHANGED children
    BY <1>1, RegisteredStays DEF PointersRegistered, Registered
<1>2. CASE ExitMatch
    <2>1. /\ children'[i].key \in LiveKeys
          /\ children'[i].ext = childTypes[children'[i].key]
        BY <1>2, Collected DEF ExitMatch, TypeOK, MatchedKeys
    <2> QED
        BY <2>1, RegisteredStays DEF PointersRegistered, Registered, LiveKeys
<1>3. CASE LinkDone
    BY <1>3 DEF LinkDone, Release
<1> QED
    BY <1>1, <1>2, <1>3, Frame

\* A Replace stores nothing but the given extractor.
LEMMA ReplaceStores ==
    ASSUME TypeOK, NEW store \in [StoreTypes -> Snapshot \cup {NoStruct}],
           NEW e \in Slots, NEW content, NEW t \in StoreTypes
    PROVE  Replace(store, e, content)[t] =
              IF t = GetType(e) THEN [ext |-> e, content |-> content] ELSE store[t]
BY DEF Replace

\* The two ways an entry of the map of structs changes in a step.
StoresClosing(t) ==
    /\ t = GetType(extractor)
    /\ structs'[t] = [ext |-> extractor, content |-> container[extractor]]
    /\ container'[extractor] = container[extractor]

StoresParent(t) ==
    \E type \in PendingTypes :
        LET parent == childInfo[type].parent
        IN  /\ parent \in Slots
            /\ t = GetType(parent)
            /\ structs'[t] = [ext |-> parent, content |-> container'[parent]]

\* In one step the map of structs keeps an entry or stores the extractor of the
\* closing struct or, while references are resolved, that of a parent.
LEMMA StoredBy ==
    ASSUME TypeOK, LoopInv, [Next]_vars, NEW t \in StoreTypes, structs'[t] # structs[t]
    PROVE  /\ structs'[t] # NoStruct
           /\ extractor \in Slots
           /\ StoresClosing(t) \/ StoresParent(t)
           /\ structs[t] # NoStruct => phase = "linking"
<1> USE DEF TypeOK
<1>1. ASSUME ExitStore
      PROVE  extractor \in Slots /\ structs[t] = NoStruct /\ StoresClosing(t)
    <2>1. extractor \in Slots /\ structs' = StoreNew(structs, extractor)
        BY <1>1, MaxCharSizePos DEF ExitStore, EndsStruct, Slots, XmlTypeOK
    <2>2. /\ t = GetType(extractor) /\ structs[t] = NoStruct
          /\ structs'[t] = [ext |-> extractor, content |-> container[extractor]]
        BY <2>1, ReplaceStores DEF StoreNew, XmlTypeOK
    <2>3. UNCHANGED container
        BY <1>1, Zenon DEF ExitStore, extVars
    <2> QED
        BY <2>1, <2>2, <2>3 DEF StoresClosing
<1>2. ASSUME NEW type \in Types, LinkAssign(type) \/ LinkRefused(type)
      PROVE  /\ type \in PendingTypes
             /\ extractor \in Slots /\ phase = "linking"
             /\ childInfo[type].parent \in Slots
    BY <1>2, MaxCharSizePos
    DEF LinkAssign, LinkRefused, Linking, LoopInv, PendingTypes, LinkTypeOK,
        XmlTypeOK, Slots, Link
<1>3. ASSUME NEW type \in Types, LinkRefused(type)
      PROVE  StoresClosing(t)
    <2>1. structs' = StoreClosing(childInfo[type].parent) /\ extractor \in Slots
        BY <1>2, <1>3 DEF LinkRefused
    <2>2. structs' = Replace(structs, extractor, container[extractor])
        BY <2>1 DEF StoreClosing
    <2>3. UNCHANGED container
        BY <1>3, Zenon DEF LinkRefused, extVars
    <2> QED
        BY <2>1, <2>2, <2>3, ReplaceStores DEF StoresClosing, XmlTypeOK
<1>4. ASSUME NEW type \in Types, LinkAssign(type)
      PROVE  StoresClosing(t) \/ StoresParent(t)
    <2> DEFINE parent == childInfo[type].parent
               closed == StoreClosing(parent)
    <2>1. structs' = Replace(closed, parent, container'[parent])
        BY <1>4 DEF LinkAssign
    <2>2. parent \in Slots /\ extractor \in Slots /\ type \in PendingTypes
        BY <1>2, <1>4
    <2>3. container[extractor] \in Content
        BY <2>2 DEF XmlTypeOK
    <2>4. closed \in [StoreTypes -> Snapshot \cup {NoStruct}]
        BY <2>2, <2>3, ReplaceType DEF StoreClosing, XmlTypeOK
    <2>5. closed[t] = IF parent # extractor /\ t = GetType(extractor)
                      THEN [ext |-> extractor, content |-> container[extractor]]
                      ELSE structs[t]
        BY <2>2, ReplaceStores DEF StoreClosing, XmlTypeOK
    <2> HIDE DEF closed
    <2>6. structs'[t] = IF t = GetType(parent)
                        THEN [ext |-> parent, content |-> container'[parent]]
                        ELSE closed[t]
        BY <2>1, <2>2, <2>4, ReplaceStores
    <2>7. CASE t = GetType(parent)
        BY <2>2, <2>6, <2>7 DEF StoresParent
    <2>8. CASE t # GetType(parent)
        <3>1. container'[extractor] = container[extractor]
            BY <1>4, <2>2, <2>5, <2>6, <2>8 DEF LinkAssign, SetField, XmlTypeOK
        <3> QED
            BY <2>5, <2>6, <2>8, <3>1 DEF StoresClosing
    <2> QED
        BY <2>7, <2>8
<1>5. /\ extractor \in Slots
      /\ StoresClosing(t) \/ StoresParent(t)
      /\ structs[t] # NoStruct => phase = "linking"
    BY <1>1, <1>2, <1>3, <1>4, Frame
<1>6. structs'[t] # NoStruct
    <2>1. ASSUME NEW e \in Slots, NEW c \in Content
          PROVE  [ext |-> e, content |-> c] # NoStruct
        BY NoStructIsNone DEF Snapshot
    <2>2. ASSUME NEW e \in Slots
          PROVE  container[e] \in Content /\ container'[e] \in Content
        BY TypingStep DEF XmlTypeOK
    <2> QED
        BY <1>5, <2>1, <2>2 DEF StoresClosing, StoresParent
<1> QED
    BY <1>5, <1>6

\* LinkAssign leaves the parent in the map as it then is.
LEMMA ParentStored ==
    ASSUME TypeOK, LoopInv, NEW type \in Types, LinkAssign(type)
    PROVE  structs'[GetType(childInfo[type].parent)]
              = [ext |-> childInfo[type].parent,
                 content |-> container'[childInfo[type].parent]]
<1> USE DEF TypeOK
<1> DEFINE parent == childInfo[type].parent
<1>1. parent \in Slots /\ extractor \in Slots
    BY MaxCharSizePos DEF LinkAssign, Linking, LoopInv, PendingTypes, LinkTypeOK,
       XmlTypeOK, Slots, Link
<1>2. StoreClosing(parent) \in [StoreTypes -> Snapshot \cup {NoStruct}]
    BY <1>1, ReplaceType DEF StoreClosing, XmlTypeOK
<1>3. structs' = Replace(StoreClosing(parent), parent, container'[parent])
    BY DEF LinkAssign
<1>4. GetType(parent) \in StoreTypes
    BY <1>1 DEF GetType, StoreTypes, XmlTypeOK
<1> QED
    BY <1>1, <1>2, <1>3, <1>4, ReplaceStores

\* The stored structs.
LEMMA StoredPointersStep ==
    ASSUME TypeOK, LoopInv, PointersRegistered, [Next]_vars,
           NEW t \in StoreTypes, structs'[t] # NoStruct
    PROVE  structs'[t].ext \in 1..extCount'
<1>1. CASE structs'[t] = structs[t]
    BY <1>1, RegisteredStays DEF PointersRegistered, Registered
<1>2. CASE structs'[t] # structs[t]
    <2>1. extractor \in Slots
        BY <1>2, StoredBy
    <2>2. extractor \in 1..extCount
        BY <2>1 DEF TypeOK, XmlTypeOK, Slots
    <2>3. CASE StoresClosing(t)
        BY <2>2, <2>3, RegisteredStays DEF StoresClosing
    <2>4. CASE StoresParent(t)
        BY <2>4, RegisteredStays DEF StoresParent, PointersRegistered, Registered
    <2> QED
        BY <1>2, <2>3, <2>4, StoredBy
<1> QED
    BY <1>1, <1>2

LEMMA PointersStep ==
    ASSUME TypeOK, LoopInv, PointersRegistered, [Next]_vars
    PROVE  PointersRegistered'
BY ChildPointersStep, ParentPointersStep, CopiedPointersStep, StoredPointersStep
DEF PointersRegistered, Registered, PendingTypes

LEMMA PointersInit ==
    ASSUME Init
    PROVE  PointersRegistered
BY DEF Init, LinkInit, MatchInit, PointersRegistered, PendingTypes

\* Every raw pointer the processor keeps leads to an extractor it has
\* allocated, and the pointer of a child to one of the type in its key, which
\* is what makes the cast of a child to the type of a field succeed.
THEOREM PointersRegisteredHolds == Spec => []PointersRegistered
<1>1. Init => TypeOK /\ LoopInv /\ PointersRegistered
    BY TypeInit, PointersInit
<1>2. TypeOK /\ LoopInv /\ PointersRegistered /\ [Next]_vars
        => (TypeOK /\ LoopInv /\ PointersRegistered)'
    BY TypingStep, PointersStep
<1> QED
    BY <1>1, <1>2, PTL DEF Spec

-----------------------------------------------------------------------------
(***************************************************************************)
(* The map of stored structs.                                              *)
(***************************************************************************)
\* Once stored for a type, a struct is replaced only while references are
\* resolved, and its type never leaves the map.
THEOREM OnlyLinksReplaceHolds == Spec => OnlyLinksReplace
<1>1. Init => TypeOK /\ LoopInv
    BY TypeInit
<1>2. TypeOK /\ LoopInv /\ [Next]_vars => (TypeOK /\ LoopInv)'
    BY TypingStep
<1>3. TypeOK /\ LoopInv /\ [Next]_vars
        => [\A t \in StoreTypes :
              structs[t] # NoStruct /\ structs'[t] # structs[t] =>
                  structs'[t] # NoStruct /\ phase = "linking"]_vars
    BY StoredBy
<1> QED
    BY <1>1, <1>2, <1>3, PTL DEF Spec, OnlyLinksReplace

\* How a field of an extractor may change.
LEMMA FieldStep ==
    ASSUME TypeOK, LoopInv, [Next]_vars, NEW e \in 1..extCount, NEW f \in Fields
    PROVE  \/ container'[e][f] = container[e][f]
           \/ container'[e][f] = Literal
           \/ \E type \in Types : LinkAssign(type) /\ childInfo[type].parent = e
<1>1. e \in Slots /\ extCount \in 0..MaxCharSize /\ container[e] \in Content
    BY MaxCharSizePos DEF TypeOK, XmlTypeOK, Slots
<1>2. ASSUME NEW type \in Types, NEW id \in Ids \cup {NoId}, PushExtractor(type, id)
      PROVE  container'[e] = container[e]
    BY <1>1, <1>2 DEF PushExtractor, TypeOK, XmlTypeOK
<1>3. ASSUME NEW element \in LiteralElements, EnterLiteral(element[1], element[2])
      PROVE  container'[e][f] \in {container[e][f], Literal}
    BY <1>1, <1>3 DEF EnterLiteral, SetField, TypeOK, XmlTypeOK, Content
<1>4. ASSUME NEW type \in Types, LinkAssign(type), childInfo[type].parent # e
      PROVE  container'[e] = container[e]
    BY <1>1, <1>4 DEF LinkAssign, SetField, TypeOK, XmlTypeOK
<1> QED
    BY <1>2, <1>3, <1>4, Frame
    DEF EnterStruct, EnterBadStruct

LEMMA StoredIsCurrentStep ==
    ASSUME TypeOK, LoopInv, PointersRegistered, StoredIsCurrent, [Next]_vars
    PROVE  StoredIsCurrent'
<1> SUFFICES ASSUME NEW t \in StoreTypes, structs'[t] # NoStruct
             PROVE  /\ structs'[t].ext \in 1..extCount
                    /\ GetType(structs'[t].ext) = t
                    /\ \A f \in Fields : container'[structs'[t].ext][f]
                                            \in {Literal, structs'[t].content[f]}
    BY RegisteredStays DEF StoredIsCurrent, GetType
<1>1. CASE structs'[t] = structs[t]
    <2> DEFINE e == structs[t].ext
    <2>1. e \in 1..extCount /\ GetType(e) = t
        BY <1>1 DEF PointersRegistered, Registered, StoredIsCurrent
    <2>2. ASSUME NEW f \in Fields, NEW type \in Types, LinkAssign(type),
                 childInfo[type].parent = e
          PROVE  container'[e][f] = structs'[t].content[f]
        <3>1. structs'[t] = [ext |-> e, content |-> container'[e]]
            BY <2>1, <2>2, ParentStored
        <3> QED
            BY <3>1
    <2>3. \A f \in Fields : container[e][f] \in {Literal, structs[t].content[f]}
        BY <1>1 DEF StoredIsCurrent
    <2>4. ASSUME NEW f \in Fields
          PROVE  container'[e][f] \in {Literal, structs'[t].content[f]}
        BY <1>1, <2>1, <2>2, <2>3, FieldStep
    <2> QED
        BY <1>1, <2>1, <2>4
<1>2. CASE structs'[t] # structs[t]
    <2>1. extractor \in 1..extCount
        BY <1>2, StoredBy DEF TypeOK, XmlTypeOK, Slots
    <2>2. CASE StoresClosing(t)
        BY <2>1, <2>2 DEF StoresClosing
    <2>3. CASE StoresParent(t)
        BY <2>3 DEF StoresParent, PointersRegistered, Registered
    <2> QED
        BY <1>2, <2>2, <2>3, StoredBy
<1> QED
    BY <1>1, <1>2

\* The struct the map holds for a type is of that type, and has every value
\* its extractor was given from a reference: no later step makes it stale.
THEOREM StoredIsCurrentHolds == Spec => []StoredIsCurrent
<1> DEFINE Inv == TypeOK /\ LoopInv /\ PointersRegistered /\ StoredIsCurrent
<1>1. Init => Inv
    BY TypeInit, PointersInit DEF Init, StoredIsCurrent
<1>2. Inv /\ [Next]_vars => Inv'
    BY TypingStep, PointersStep, StoredIsCurrentStep
<1> QED
    BY <1>1, <1>2, PTL DEF Spec

-----------------------------------------------------------------------------
(***************************************************************************)
(* The loop of getTypeForField.                                            *)
(***************************************************************************)
\* While the loop runs, the copies stay and entries to come are only removed.
LEMMA LoopFrame ==
    ASSUME [Next]_vars, phase' = "linking"
    PROVE  \/ ExitMatch
           \/ /\ phase = "linking"
              /\ UNCHANGED <<children, childInfo, extractorType, extCount>>
              /\ \/ UNCHANGED <<childTypes, container, todo, childLoc>>
                 \/ \E type \in Types : LinkNoMatch(type) \/ LinkRefused(type)
                                        \/ LinkAssign(type)
<1> USE DEF linkVars, matchVars, loopVars, walkVars, extVars, childVars, flagVars,
            processVars, historyVars
<1>1. CASE StartProcess \/ LoadFails \/ FinishProcess
    BY <1>1, Zenon DEF StartProcess, LoadFails, FinishProcess
<1>2. CASE Enter
    BY <1>2, Zenon
    DEF Enter, EnterOther, EnterStruct, EnterBadStruct, EnterStructOverflow,
        EnterFieldTooEarly, EnterReference, EnterReferenceOverflow,
        EnterUnreadableField, EnterLiteral, EnterLiteralNoHandler, Descend, Crash
<1>3. CASE ExitField \/ ExitOther \/ ExitBadStruct \/ ExitStore \/ ExitNoMatch
    BY <1>3, Zenon
    DEF ExitField, ExitOther, ExitBadStruct, ExitStore, ExitNoMatch, EndsStruct,
        Leaving
<1>4. CASE ExitMatch
    BY <1>4
<1>5. CASE \E type \in Types : LinkNoMatch(type) \/ LinkAssign(type)
                               \/ LinkRefused(type)
    BY <1>5, Zenon DEF LinkNoMatch, LinkAssign, LinkRefused, Linking
<1>6. CASE \E type \in Types : LinkTerminates(type) \/ LinkUndefined(type)
    BY <1>6, Zenon DEF LinkTerminates, LinkUndefined, Crash
<1>7. CASE LinkDone
    BY <1>7, Zenon DEF LinkDone
<1>8. CASE UNCHANGED vars
    BY <1>8, Zenon DEF vars
<1> QED
    BY <1>1, <1>2, <1>3, <1>4, <1>5, <1>6, <1>7, <1>8, Zenon DEF Next, Exit

LEMMA RenamedKeyStep ==
    ASSUME TypeOK, RenamedKeyExists, [Next]_vars
    PROVE  RenamedKeyExists'
<1> USE DEF TypeOK
<1> SUFFICES ASSUME phase' = "linking", NEW t \in todo', NEW i \in DOMAIN children',
                    IsFirstOf(i, t)'
             PROVE  childTypes'[children'[i].key] = children'[i].ext
    BY DEF RenamedKeyExists
<1>1. CASE ExitMatch
    BY <1>1, Collected, Zenon DEF ExitMatch, childVars
<1>2. CASE UNCHANGED <<children, childTypes>> /\ phase = "linking" /\ todo' \subseteq todo
    BY <1>2 DEF RenamedKeyExists, IsFirstOf, PositionsOf
<1>3. ASSUME NEW type \in Types, LinkAssign(type)
      PROVE  childTypes'[children'[i].key] = children'[i].ext
    <2>1. /\ UNCHANGED children /\ phase = "linking"
          /\ todo' = todo \ {type} /\ RenameFirst(type)
        BY <1>3 DEF LinkAssign, Linking, matchVars
    <2>2. PICK j \in DOMAIN children :
              /\ IsFirstOf(j, type)
              /\ childTypes' = [childTypes EXCEPT ![children[j].key] = 0]
        BY <2>1 DEF RenameFirst
    <2>3. i \in DOMAIN children /\ IsFirstOf(i, t) /\ t # type /\ t \in todo
        BY <2>1 DEF IsFirstOf, PositionsOf
    <2>4. children[i].key # children[j].key
        BY <2>2, <2>3 DEF IsFirstOf, PositionsOf
    <2>5. children[i].key \in Keys /\ childTypes[children[i].key] = children[i].ext
        BY <2>1, <2>3, ChildTyped DEF RenamedKeyExists
    <2> QED
        BY <2>1, <2>2, <2>4, <2>5 DEF XmlTypeOK
<1>4. ASSUME NEW type \in Types, LinkNoMatch(type) \/ LinkRefused(type)
      PROVE  UNCHANGED childTypes /\ todo' \subseteq todo
    BY <1>4, Zenon DEF LinkNoMatch, LinkRefused, childVars
<1> QED
    BY <1>1, <1>2, <1>3, <1>4, LoopFrame

\* The key that addChildStructDeleteIndicator extracts from childTypes is there
\* each time the loop of getTypeForField comes to it.
THEOREM RenamedKeyExistsHolds == Spec => []RenamedKeyExists
<1>1. Init => TypeOK /\ LoopInv /\ RenamedKeyExists
    BY TypeInit DEF Init, RenamedKeyExists
<1>2. TypeOK /\ LoopInv /\ RenamedKeyExists /\ [Next]_vars
        => (TypeOK /\ LoopInv /\ RenamedKeyExists)'
    BY TypingStep, RenamedKeyStep
<1> QED
    BY <1>1, <1>2, PTL DEF Spec

\* What a field is given: one or more registered structs of the type asked for.
LEMMA AssignedValue ==
    ASSUME TypeOK, LoopInv, PointersRegistered, NEW type \in Types, LinkAssign(type)
    PROVE  LET value == FieldValue(childInfo[type].pointer)
           IN  /\ value \in Seq(Slots) /\ IsArray(value) /\ value # <<>>
               /\ \A i \in DOMAIN value : /\ value[i] \in 1..extCount
                                          /\ extractorType[value[i]] = type
<1> USE DEF TypeOK
<1> DEFINE pointer == childInfo[type].pointer
           value   == FieldValue(pointer)
<1>1. PositionsOf(type) # {} /\ CastSucceeds(type, pointer)
    BY DEF LinkAssign, CanConvert
<1>2. children # <<>> /\ 1 \in DOMAIN children
    BY <1>1 DEF PositionsOf, MatchTypeOK
<1>3. value \in Seq(Slots)
    BY <1>2, FieldValueType
<1>4. IsArray(value)
    BY <1>3, ValuesDistinct DEF IsArray
<1>5. \A i \in DOMAIN children : children[i].key[2] = type =>
          children[i].ext \in 1..extCount /\ extractorType[children[i].ext] = type
    BY DEF PointersRegistered, Registered
<1>6. CASE pointer
    <2>1. value = [i \in DOMAIN children |-> children[i].ext]
        BY <1>6 DEF FieldValue
    <2>2. \A i \in DOMAIN children : children[i].key[2] = type
        BY <1>1, <1>6 DEF CastSucceeds, PositionsOf
    <2> QED
        BY <1>2, <1>3, <1>4, <1>5, <2>1, <2>2
<1>7. CASE ~pointer
    <2>1. value = <<children[1].ext>>
        BY <1>7 DEF FieldValue
    <2>2. children[1].key[2] = type
        BY <1>1, <1>7 DEF CastSucceeds
    <2> QED
        BY <1>2, <1>3, <1>4, <1>5, <2>1, <2>2
<1> QED
    BY <1>6, <1>7

\* While the loop runs, the entry it visited last is settled if it matched.
LastSettled ==
    phase = "linking" /\ childLoc # NoTag =>
        Settled(childInfo[childLoc], container, childLoc)

LEMMA LastSettledStep ==
    ASSUME TypeOK, LoopInv, PointersRegistered, LastSettled, [Next]_vars
    PROVE  LastSettled'
<1> USE DEF TypeOK
<1> SUFFICES ASSUME phase' = "linking", childLoc' # NoTag
             PROVE  Settled(childInfo[childLoc], container, childLoc)'
    BY DEF LastSettled
<1>1. ~ExitMatch /\ \A type \in Types : ~LinkNoMatch(type)
    BY Zenon DEF ExitMatch, LinkNoMatch
<1>2. phase = "linking" /\ UNCHANGED <<childInfo, extractorType>>
    BY <1>1, LoopFrame
<1>3. CASE UNCHANGED <<container, childLoc>>
    BY <1>2, <1>3 DEF LastSettled, Settled
<1>4. ASSUME NEW type \in Types, LinkRefused(type)
      PROVE  Settled(childInfo[childLoc], container, childLoc)'
    <2>1. childLoc' = type
        BY <1>4, Zenon DEF LinkRefused
    <2>2. extractorType[childInfo[type].parent] \notin StructTypes
        BY <1>4, TypesDisjoint DEF LinkRefused, IsVisitable
    <2> QED
        BY <1>2, <2>1, <2>2 DEF Settled
<1>5. ASSUME NEW type \in Types, LinkAssign(type)
      PROVE  Settled(childInfo[childLoc], container, childLoc)'
    <2> DEFINE link  == childInfo[type]
               value == FieldValue(link.pointer)
    <2>1. childLoc' = type /\ container' = SetField(link.parent, link.field, value)
        BY <1>5 DEF LinkAssign
    <2>2. link \in Link /\ link.parent \in Slots
        BY <1>5 DEF LinkAssign, Linking, LoopInv, PendingTypes, LinkTypeOK, Link
    <2>3. CASE link.field \in Fields /\ extractorType[link.parent] \in StructTypes
        <3>1. container'[link.parent][link.field] = value
            BY <2>1, <2>2, <2>3 DEF SetField, XmlTypeOK, Content
        <3>2. /\ IsArray(value) /\ value # <<>>
              /\ \A i \in DOMAIN value : extractorType[value[i]] = type
            BY <1>5, AssignedValue
        <3>3. Settled(link, container', type)
            BY <3>1, <3>2 DEF Settled
        <3> HIDE DEF link, value
        <3>4. (extractorType' = extractorType) /\ childInfo'[type] = link
            BY <1>2 DEF link
        <3> QED
            BY <2>1, <3>3, <3>4, Zenon DEF Settled
    <2>4. CASE ~(link.field \in Fields /\ extractorType[link.parent] \in StructTypes)
        BY <1>2, <2>1, <2>4 DEF Settled
    <2> QED
        BY <2>3, <2>4
<1> QED
    BY <1>1, <1>3, <1>4, <1>5, LoopFrame

\* erase() goes by the entry the loop visited last; what it removes from
\* childInfo is nevertheless always a field that was given its structs.
THEOREM ErasedOnlyWhenSettledHolds == Spec => ErasedOnlyWhenSettled
<1> DEFINE Inv == TypeOK /\ LoopInv /\ PointersRegistered /\ LastSettled
<1>1. Init => Inv
    BY TypeInit, PointersInit DEF Init, LastSettled
<1>2. Inv /\ [Next]_vars => Inv'
    BY TypingStep, PointersStep, LastSettledStep
<1>3. ASSUME Inv, [Next]_vars, NEW t \in Types,
             childInfo[t] # NoLink, childInfo'[t] = NoLink
      PROVE  Settled(childInfo[t], container', t)
    <2> USE DEF TypeOK
    <2>1. ASSUME NEW ref \in ReferenceElements, EnterReference(ref)
          PROVE  FALSE
        <3>1. extractor \in Slots /\ ref \in ReferenceElement
            BY <1>3, <2>1, ReferenceElementsTyped, MaxCharSizePos
            DEF EnterReference, XmlTypeOK, Slots
        <3>2. [parent |-> extractor, field |-> ref.field, pointer |-> ref.pointer]
                 \in Link
            BY <3>1 DEF Link, ReferenceElement
        <3> QED
            BY <1>3, <2>1, <3>2, NoLinkIsNone
            DEF EnterReference, Add, LinkTypeOK
    <2>2. ASSUME ExitMatch
          PROVE  FALSE
        BY <1>3, <2>2, Zenon DEF ExitMatch, linkVars
    <2>3. CASE LinkDone
        <3>1. UNCHANGED container /\ phase = "linking"
            BY <2>3, Zenon DEF LinkDone, extVars
        <3>2. t = childLoc /\ childLoc # NoTag
            BY <1>3, <2>3, NoTagIsNone DEF LinkDone, Erase, linkVars, LinkTypeOK
        <3> QED
            BY <1>3, <3>1, <3>2 DEF LastSettled
    <2> QED
        BY <1>3, <2>1, <2>2, <2>3, Frame
<1>4. Inv /\ [Next]_vars
        => [\A t \in Types :
              childInfo[t] # NoLink /\ childInfo'[t] = NoLink =>
                  Settled(childInfo[t], container', t)]_vars
    BY <1>3
<1> QED
    BY <1>1, <1>2, <1>4, PTL DEF Spec, ErasedOnlyWhenSettled

-----------------------------------------------------------------------------
(***************************************************************************)
(* The processor implements StructStore: to the outside, its map of        *)
(* structs changes as that specification says, whatever the document.      *)
(***************************************************************************)
\* The mapping of the refinement: the abstract variables.
AbsTypeOf == [e \in Slots |-> GetType(e)]
AbsOf(map) == [t \in StoreTypes |-> IF map[t] = NoStruct THEN 0 ELSE map[t].ext]
AbsStore  == AbsOf(structs)

\* The initial map is the empty one.
LEMMA StoreInitRefined ==
    ASSUME Init
    PROVE  Store!StoreInit
<1>1. AbsTypeOf \in [1..MaxCharSize -> StoreTypes]
    BY DEF Init, AbsTypeOf, GetType, StoreTypes, Slots
<1>2. AbsStore = [t \in StoreTypes |-> 0]
    BY DEF Init, AbsStore, AbsOf
<1> QED
    BY <1>1, <1>2 DEF Init, Store!StoreInit, AbsTypeOf, AbsStore, AbsOf

\* A Replace of the map is an assignment to the abstract one.
LEMMA ReplaceRefined ==
    ASSUME TypeOK, NEW e \in Slots, NEW content \in Content,
           NEW store \in [StoreTypes -> Snapshot \cup {NoStruct}]
    PROVE  AbsOf(Replace(store, e, content)) = [AbsOf(store) EXCEPT ![GetType(e)] = e]
<1> DEFINE new == Replace(store, e, content)
           abs == AbsOf(store)
<1>1. [ext |-> e, content |-> content] # NoStruct
    BY NoStructIsNone DEF Snapshot
<1>2. ASSUME NEW t \in StoreTypes
      PROVE  (IF new[t] = NoStruct THEN 0 ELSE new[t].ext)
                = [abs EXCEPT ![GetType(e)] = e][t]
    <2>1. new[t] = IF t = GetType(e) THEN [ext |-> e, content |-> content] ELSE store[t]
        BY ReplaceStores
    <2> HIDE DEF new
    <2>2. CASE t = GetType(e)
        BY <1>1, <2>1, <2>2 DEF AbsOf
    <2>3. CASE t # GetType(e)
        BY <2>1, <2>3 DEF AbsOf
    <2> QED
        BY <2>2, <2>3
<1> HIDE DEF new
<1>3. [abs EXCEPT ![GetType(e)] = e]
         = [t \in StoreTypes |-> [abs EXCEPT ![GetType(e)] = e][t]]
    BY DEF AbsOf
<1>4. AbsOf(new) = [abs EXCEPT ![GetType(e)] = e]
    BY <1>2, <1>3, Zenon DEF AbsOf
<1> QED
    BY <1>4 DEF new

\* The same assignment made twice.
LEMMA AssignedTwice ==
    ASSUME NEW m, NEW x, NEW v
    PROVE  [m EXCEPT ![x] = v, ![x] = v] = [m EXCEPT ![x] = v]
OBVIOUS

\* A step that adds an extractor.
LEMMA NewElementRefined ==
    ASSUME TypeOK, NEW type \in Types, NEW id \in Ids \cup {NoId},
           PushExtractor(type, id), UNCHANGED structs
    PROVE  Store!NewElement
<1> USE DEF TypeOK, XmlTypeOK
<1> DEFINE t == IF type \in StructTypes THEN type ELSE NullWrapper
<1>1. extCount + 1 \in Slots /\ extCount < MaxCharSize /\ extCount' = extCount + 1
    BY MaxCharSizePos DEF PushExtractor, Slots
<1>2. AbsTypeOf' = [AbsTypeOf EXCEPT ![extCount + 1] = t]
    BY <1>1 DEF AbsTypeOf, GetType, PushExtractor
<1>3. AbsStore' = AbsStore
    BY DEF AbsStore
<1>4. t \in StoreTypes
    BY DEF StoreTypes
<1> QED
    BY <1>1, <1>2, <1>3, <1>4 DEF Store!NewElement, AbsTypeOf, AbsStore, AbsOf

\* A step of the processor is a step of the abstract map, or a stutter.
LEMMA StoreStepRefined ==
    ASSUME TypeOK, LoopInv, PointersRegistered, [Next]_vars
    PROVE  [Store!StoreNext]_Store!storeVars
<1> USE DEF TypeOK, XmlTypeOK
<1>1. ASSUME UNCHANGED <<structs, extractorType, extCount>>
      PROVE  UNCHANGED Store!storeVars
    BY <1>1 DEF Store!storeVars, GetType
<1>2. ASSUME NEW type \in Types, NEW id \in Ids \cup {NoId},
             EnterStruct(type, id) \/ EnterBadStruct(type, id)
      PROVE  Store!StoreNext
    BY <1>2, NewElementRefined, Zenon DEF EnterStruct, EnterBadStruct, Store!StoreNext
<1>3. ASSUME UNCHANGED <<extractorType, extCount>>
      PROVE  AbsTypeOf' = AbsTypeOf
    BY <1>3 DEF AbsTypeOf, GetType
<1>4. ASSUME ExitStore
      PROVE  [Store!StoreNext]_Store!storeVars
    <2>1. /\ extractor \in 1..extCount /\ extractor \in Slots
          /\ structs' = StoreNew(structs, extractor)
          /\ UNCHANGED <<extractorType, extCount>>
        BY <1>4, MaxCharSizePos DEF ExitStore, EndsStruct, Slots, extVars
    <2>2. CASE structs[GetType(extractor)] # NoStruct
        BY <1>1, <2>1, <2>2 DEF StoreNew
    <2>3. CASE structs[GetType(extractor)] = NoStruct
        <3>1. GetType(extractor) \in StoreTypes /\ container[extractor] \in Content
            BY <2>1 DEF GetType, StoreTypes
        <3>2. structs' = Replace(structs, extractor, container[extractor])
            BY <2>1, <2>3 DEF StoreNew
        <3>3. AbsStore' = [AbsStore EXCEPT ![GetType(extractor)] = extractor]
            BY <2>1, <3>1, <3>2, ReplaceRefined DEF AbsStore
        <3>4. AbsStore[GetType(extractor)] = 0
            BY <2>3, <3>1 DEF AbsStore, AbsOf
        <3>5. PICK e \in 1..extCount : e = extractor
            BY <2>1
        <3>6. Store!Keep(e)
            BY <1>3, <2>1, <3>3, <3>4, <3>5 DEF Store!Keep, AbsStore, AbsOf, AbsTypeOf
        <3> QED
            BY <3>6 DEF Store!StoreNext
    <2> QED
        BY <2>2, <2>3
<1>5. ASSUME NEW type \in Types, LinkAssign(type) \/ LinkRefused(type)
      PROVE  /\ extractor \in 1..extCount /\ extractor \in Slots
             /\ container[extractor] \in Content
             /\ childInfo[type].parent \in 1..extCount
             /\ childInfo[type].parent \in Slots
             /\ UNCHANGED <<extractorType, extCount>>
    <2>1. extractor \in Slots /\ type \in PendingTypes
        BY <1>5, MaxCharSizePos DEF LinkAssign, LinkRefused, Linking, LoopInv, Slots
    <2>2. childInfo[type].parent \in 1..extCount
        BY <2>1 DEF PointersRegistered, Registered
    <2>3. UNCHANGED <<extractorType, extCount>>
        BY <1>5, Zenon DEF LinkAssign, LinkRefused, extVars
    <2> QED
        BY <2>1, <2>2, <2>3, MaxCharSizePos DEF Slots
<1>6. ASSUME NEW type \in Types, LinkRefused(type)
      PROVE  [Store!StoreNext]_Store!storeVars
    <2>1. structs' = StoreClosing(childInfo[type].parent)
        BY <1>6 DEF LinkRefused
    <2>2. CASE childInfo[type].parent = extractor
        BY <1>1, <1>5, <1>6, <2>1, <2>2 DEF StoreClosing
    <2>3. CASE childInfo[type].parent # extractor
        <3>1. structs' = Replace(structs, extractor, container[extractor])
            BY <2>1, <2>3 DEF StoreClosing
        <3>2. AbsStore' = [AbsStore EXCEPT ![GetType(extractor)] = extractor]
            BY <1>5, <1>6, <3>1, ReplaceRefined DEF AbsStore
        <3>3. AbsStore' = [AbsStore EXCEPT ![GetType(extractor)] = extractor,
                                           ![GetType(extractor)] = extractor]
            BY <3>2, AssignedTwice
        <3>4. PICK e \in 1..extCount : e = extractor
            BY <1>5, <1>6
        <3>5. Store!Adopt(e, e)
            BY <1>3, <1>5, <1>6, <3>3, <3>4 DEF Store!Adopt, AbsStore, AbsOf, AbsTypeOf
        <3> QED
            BY <3>5 DEF Store!StoreNext
    <2> QED
        BY <2>2, <2>3
<1>7. ASSUME NEW type \in Types, LinkAssign(type)
      PROVE  [Store!StoreNext]_Store!storeVars
    <2> DEFINE parent == childInfo[type].parent
               closed == StoreClosing(parent)
               abs    == AbsOf(closed)
    <2>1. /\ parent \in Slots /\ extractor \in Slots
          /\ parent \in 1..extCount /\ extractor \in 1..extCount
          /\ container[extractor] \in Content
          /\ UNCHANGED <<extractorType, extCount>>
        BY <1>5, <1>7
    <2>2. closed \in [StoreTypes -> Snapshot \cup {NoStruct}]
        BY <2>1, ReplaceType DEF StoreClosing
    <2>3. container'[parent] \in Content
        BY <2>1, TypingStep
    <2>4. structs' = Replace(closed, parent, container'[parent])
        BY <1>7 DEF LinkAssign
    <2>5. abs = IF parent = extractor THEN AbsStore
                ELSE [AbsStore EXCEPT ![GetType(extractor)] = extractor]
        BY <2>1, ReplaceRefined DEF StoreClosing, AbsStore
    <2> HIDE DEF closed
    <2>6. AbsStore' = [abs EXCEPT ![GetType(parent)] = parent]
        BY <2>1, <2>2, <2>3, <2>4, ReplaceRefined DEF AbsStore
    <2>7. AbsStore' = [AbsStore EXCEPT ![GetType(extractor)] = extractor,
                                       ![GetType(parent)] = parent]
        <3>1. CASE parent = extractor
            BY <2>5, <2>6, <3>1, AssignedTwice
        <3>2. CASE parent # extractor
            BY <2>5, <2>6, <3>2
        <3> QED
            BY <3>1, <3>2
    <2>8. PICK c \in 1..extCount, p \in 1..extCount : c = extractor /\ p = parent
        BY <2>1
    <2>9. Store!Adopt(c, p)
        BY <1>3, <2>1, <2>7, <2>8 DEF Store!Adopt, AbsStore, AbsOf, AbsTypeOf
    <2> QED
        BY <2>9 DEF Store!StoreNext
<1> QED
    BY <1>1, <1>2, <1>4, <1>6, <1>7, Frame

\* Every behaviour of the processor is, seen at its map of structs, a behaviour
\* of StructStore: the first struct of a type is kept, and only the resolution
\* of references lets a struct take another's place.
THEOREM StoreRefinedHolds == Spec => StoreRefined
<1> DEFINE Inv == TypeOK /\ LoopInv /\ PointersRegistered
<1>1. Init => Inv /\ Store!StoreInit
    BY TypeInit, PointersInit, StoreInitRefined
<1>2. Inv /\ [Next]_vars => Inv'
    BY TypingStep, PointersStep
<1>3. Inv /\ [Next]_vars => [Store!StoreNext]_Store!storeVars
    BY StoreStepRefined
<1> QED
    BY <1>1, <1>2, <1>3, PTL DEF Spec, StoreRefined, Store!StoreSpec
=============================================================================
