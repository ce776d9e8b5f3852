----------------------------- MODULE XmlProcessor -----------------------------
(***************************************************************************)
(* The visitor that turns an XML document into filled Vulkan structs:      *)
(* class XmlProcessor (src/XmlProcessor.hpp, .cpp), with the table of  *)
(* references and the matching of children it drives.                      *)
(*                                                                         *)
(* tinyxml2 walks the document and calls VisitEnter and VisitExit for each *)
(* element.  The document is the environment: any sequence of elements, up *)
(* to the bounds.  VisitEnter and VisitExit return a boolean and the walk  *)
(* obeys it: FALSE from VisitEnter skips the element's own content, FALSE  *)
(* from VisitExit skips the siblings that follow.                          *)
(*                                                                         *)
(* A VisitExit that resolves references is spread over several steps (one  *)
(* per entry of childInfo, in any order) that nothing else can interrupt.  *)
(***************************************************************************)
EXTENDS ChildTypeParentFieldMatching

CONSTANTS
    StructElements,     \* the struct elements documents contain: <<type, id>>
    ReferenceElements,  \* the field elements with a reference they contain
    LiteralElements,    \* the field elements with text: <<field, complaint>>
    MaxElements,    \* bound: elements in all documents together
    MaxDepth,       \* bound: nesting of elements
    MaxCalls,       \* bound: calls of process() on one object
    NoValue,        \* the complaint of text that is no value at all
    NoId,           \* a struct element without id attribute
    Unset, Literal, \* value of a field never written, or read from text
    NoStruct,       \* no entry in structs
    NoTag           \* childLoc points at no child

\* The attributes of a reference field; of its type, the type that remains
\* without pointer and const, and whether there was a pointer.
ReferenceElement ==
    [field : FieldNames, pointer : BOOLEAN, type : Types, ids : Seq(Ids)]

ASSUME StructElementsTyped ==
    StructElements \subseteq Types \X (Ids \cup {NoId})
ASSUME ReferenceElementsTyped == ReferenceElements \subseteq ReferenceElement
\* What reading the text of a field complains about: a set of flags raised by
\* the enumerator lookup, which yields a value all the same, or NoValue.
ASSUME LiteralElementsTyped ==
    LiteralElements \subseteq FieldNames
        \X ({NoValue} \cup SUBSET {"ENUM_OPER_INVAL", "NOT_ENUM_IN_MAP"})
ASSUME NoValueIsNone ==
    \A flags \in SUBSET {"ENUM_OPER_INVAL", "NOT_ENUM_IN_MAP"} : NoValue # flags
ASSUME BoundsAreNat     == MaxElements \in Nat /\ MaxDepth \in Nat /\ MaxCalls \in Nat
ASSUME NoIdIsNone       == NoId \notin Ids
ASSUME NoTagIsNone      == NoTag \notin Types
ASSUME ValuesDistinct   == /\ Unset # Literal
                           /\ {Unset, Literal} \cap Seq(Slots) = {}

VARIABLES
    phase,          \* which code is running; see Phases
    depth, skip,    \* the walk: open elements, and whether the next event
                    \* can only be the end of one
    elements,       \* elements seen so far (bound)
    extractorType,  \* extractorList: the type each element was given ...
    container,      \* ... and the fields written into its struct
    extCount,       \* uint8_t extCount
    extractor,      \* FieldExtractor* extractor; 0 is nullptr
    childTypes,     \* unordered_map childTypes, "id:Type" -> extractor
    resolvedKeys,   \* its keys that were renamed to "0:id:Type"
    idTagFound, inField, inStruct,
    errors,         \* ErrorState: the flags set
    structs,        \* unordered_map structs, type name -> copy of a struct
    calls, processResult,  \* process(): calls so far (bound), last result
    todo, childLoc, linkResult,  \* locals of getTypeForField
    elementId, references        \* history: what the document contained

walkVars    == <<phase, depth, skip, elements>>
extVars     == <<extractorType, container, extCount, extractor>>
childVars   == <<childTypes, resolvedKeys>>
flagVars    == <<idTagFound, inField, inStruct>>
loopVars    == <<matchVars, todo, childLoc, linkResult>>
processVars == <<calls, processResult>>
historyVars == <<elementId, references>>
vars == <<linkVars, loopVars, walkVars, extVars, childVars, flagVars, errors,
          structs, processVars, historyVars>>

Phases == {"idle",        \* no process() call is running
           "visiting",    \* between two calls of the visitor
           "linking",     \* inside getTypeForField
           "terminated",  \* std::terminate was called
           "undefined"}   \* an access outside an object was made
ErrorFlags == {"TYPE_MISSING_LIST", "PROCESSING_OUT_OF_ORDER",
               "STRUCT_META_MISSING", "FILE_LOAD_ERR",
               "FIELD_LEFT_UNASSIGNED", "ENUM_OPER_INVAL", "NOT_ENUM_IN_MAP"}
Value      == {Unset, Literal} \cup Seq(Slots)
Content    == [Fields -> Value]
StoreTypes == StructTypes \cup {NullWrapper}
Snapshot   == [ext : Slots, content : Content]

ASSUME NoStructIsNone == NoStruct \notin Snapshot

XmlTypeOK ==
    /\ phase \in Phases
    /\ depth \in Nat /\ elements \in Nat /\ skip \in BOOLEAN
    /\ extractorType \in [Slots -> Types]
    /\ container \in [Slots -> Content]
    /\ extCount \in 0..MaxCharSize
    /\ extractor \in 0..extCount
    /\ childTypes \in [Keys -> 0..MaxCharSize]
    /\ resolvedKeys \subseteq Keys
    /\ idTagFound \in BOOLEAN /\ inField \in BOOLEAN /\ inStruct \in BOOLEAN
    /\ errors \subseteq ErrorFlags
    /\ structs \in [StoreTypes -> Snapshot \cup {NoStruct}]
    /\ calls \in Nat /\ processResult \in BOOLEAN
    /\ todo \subseteq Types
    /\ childLoc \in StructTypes \cup {NoTag}
    /\ linkResult \in BOOLEAN
    /\ elementId \in [Slots -> Ids \cup {NoId}]
    /\ references \subseteq Slots \X ReferenceElements

\* Every variable holds a value of its type: array indices within the fixed
\* arrays, pointers to registered extractors, maps over their keys.
TypeOK == LinkTypeOK /\ MatchTypeOK /\ XmlTypeOK

Init ==
    /\ LinkInit /\ MatchInit
    /\ phase = "idle" /\ depth = 0 /\ skip = FALSE /\ elements = 0
    /\ extractorType = [e \in Slots |-> NullWrapper]
    /\ container = [e \in Slots |-> [f \in Fields |-> Unset]]
    /\ extCount = 0 /\ extractor = 0
    /\ childTypes = [k \in Keys |-> 0]
    /\ resolvedKeys = {}
    /\ idTagFound = FALSE /\ inField = FALSE /\ inStruct = FALSE
    /\ errors = {}
    /\ structs = [t \in StoreTypes |-> NoStruct]
    /\ calls = 0 /\ processResult = TRUE
    /\ todo = {} /\ childLoc = NoTag /\ linkResult = FALSE
    /\ elementId = [e \in Slots |-> NoId]
    /\ references = {}

-----------------------------------------------------------------------------
(***************************************************************************)
(* The walk of tinyxml2 (external).                                        *)
(***************************************************************************)
\* An element starts and VisitEnter returns result.
Descend(result) ==
    /\ phase = "visiting" /\ ~skip
    /\ elements < MaxElements /\ depth < MaxDepth
    /\ depth' = depth + 1
    /\ elements' = elements + 1
    /\ skip' = ~result

\* An element ends and VisitExit returns result.
Ascend(result) ==
    /\ depth > 0
    /\ depth' = depth - 1
    /\ skip' = ~result
    /\ UNCHANGED elements

\* The program stops in the middle of a call.
Crash(how) ==
    /\ phase' = how
    /\ UNCHANGED <<linkVars, loopVars, depth, skip, elements, extVars, childVars,
                   flagVars, errors, structs, processVars, historyVars>>

-----------------------------------------------------------------------------
(***************************************************************************)
(* Helpers on extractors and stored structs.                               *)
(***************************************************************************)
\* getType(): an extractor without struct members answers NullWrapper.
GetType(e) == IF extractorType[e] \in StructTypes THEN extractorType[e]
                                                  ELSE NullWrapper

\* isVisitable(): also true of the placeholder struct NullWrapper.
IsVisitable(e) == extractorType[e] \notin OpaqueTypes

\* setFieldForStruct: a name no member has, a member the value cannot be cast
\* to, and any name of the placeholder, changes nothing.
SetField(e, field, value) ==
    IF field \in Fields /\ extractorType[e] \in StructTypes
    THEN [container EXCEPT ![e] = [@ EXCEPT ![field] = value]]
    ELSE container

\* Mutant of Replace: the struct is copied before its field was set.
ReplaceStale(store, e, content) ==
    [store EXCEPT ![GetType(e)] = [ext |-> e, content |-> container[e]]]

\* Mutant of Replace: the type is asked of the current extractor.
ReplaceUnderCurrent(store, e, content) ==
    [store EXCEPT ![GetType(extractor)] = [ext |-> e, content |-> content]]

\* permReplaceContainer: structs[type] = getContainer().
Replace(store, e, content) ==
    [store EXCEPT ![GetType(e)] = [ext |-> e, content |-> content]]

\* Mutant of StoreNew: insert_or_assign instead of emplace.
StoreAssign(store, e) == Replace(store, e, container[e])

\* permStoreNewContainer: structs.emplace keeps an earlier struct of the type.
StoreNew(store, e) ==
    IF store[GetType(e)] = NoStruct THEN Replace(store, e, container[e]) ELSE store

\* childTypes.size() and structs.size()
LiveKeys       == {k \in Keys : childTypes[k] # 0}
ChildTypesSize == Cardinality(LiveKeys) + Cardinality(resolvedKeys)
StructsSize    == Cardinality({t \in StoreTypes : structs[t] # NoStruct})

\* The entries of childTypes a reference string can equal.
ChildEntries == {[key |-> k, ext |-> childTypes[k]] : k \in LiveKeys}

-----------------------------------------------------------------------------
(***************************************************************************)
(* process() and parseConfig()                                             *)
(***************************************************************************)
\* LoadFile succeeds and the walk starts.
StartProcess ==
    /\ phase = "idle" /\ calls < MaxCalls
    /\ calls' = calls + 1
    /\ phase' = "visiting" /\ depth' = 0 /\ skip' = FALSE
    /\ UNCHANGED <<linkVars, loopVars, elements, extVars, childVars, flagVars,
                   errors, structs, processResult, historyVars>>

\* Mutant of ReportPending: FALSE is returned without setting the error.
ReportPendingSilently(result, flags) ==
    /\ processResult' = (result /\ PendingTypes = {})
    /\ errors' = errors \cup flags

\* The end of process(): references nobody satisfied are reported.
ReportPending(result, flags) ==
    /\ processResult' = (result /\ PendingTypes = {})
    /\ errors' = errors \cup flags \cup
            (IF PendingTypes = {} THEN {} ELSE {"FIELD_LEFT_UNASSIGNED"})

LoadFails ==
    /\ phase = "idle" /\ calls < MaxCalls
    /\ calls' = calls + 1
    /\ ReportPending(FALSE, {"FILE_LOAD_ERR"})
    /\ UNCHANGED <<linkVars, loopVars, walkVars, extVars, childVars, flagVars,
                   structs, historyVars>>

FinishProcess ==
    /\ phase = "visiting" /\ depth = 0
    /\ phase' = "idle"
    /\ ReportPending(TRUE, {})
    /\ UNCHANGED calls
    /\ UNCHANGED <<linkVars, loopVars, depth, skip, elements, extVars, childVars,
                   flagVars, structs, historyVars>>

-----------------------------------------------------------------------------
(***************************************************************************)
(* VisitEnter                                                              *)
(***************************************************************************)
\* No attribute, no type attribute, or neither a struct nor a field element.
EnterOther ==
    /\ Descend(TRUE)
    /\ UNCHANGED <<phase, linkVars, loopVars, extVars, childVars, flagVars, errors,
                   structs, processVars, historyVars>>

\* Mutant of PushExtractor: pushExtList is left out.
PushExtractorUnlisted(type, id) ==
    /\ extCount < MaxCharSize
    /\ UNCHANGED extCount
    /\ extractor' = extCount + 1
    /\ extractorType' = [extractorType EXCEPT ![extCount + 1] = type]
    /\ container' = [container EXCEPT ![extCount + 1] = [f \in Fields |-> Unset]]
    /\ elementId' = [elementId EXCEPT ![extCount + 1] = id]

\* A new extractor is allocated for every struct element, whatever its type.
PushExtractor(type, id) ==
    /\ extCount < MaxCharSize
    /\ extCount' = extCount + 1
    /\ extractor' = extCount + 1
    /\ extractorType' = [extractorType EXCEPT ![extCount + 1] = type]
    /\ container' = [container EXCEPT ![extCount + 1] = [f \in Fields |-> Unset]]
    /\ elementId' = [elementId EXCEPT ![extCount + 1] = id]

\* Mutant of RegisterChild: the extractor of the struct before is registered.
RegisterPrevious(type, id) ==
    IF id # NoId THEN [childTypes EXCEPT ![<<id, type>>] = extCount] ELSE childTypes

\* childTypes.emplace, for an element with an id: an earlier child of the same
\* id and type stays.
RegisterChild(type, id) ==
    IF id # NoId /\ childTypes[<<id, type>>] = 0
    THEN [childTypes EXCEPT ![<<id, type>>] = extCount + 1]
    ELSE childTypes

\* A struct element of a type that can be filled.
EnterStruct(type, id) ==
    /\ type \in StructTypes
    /\ Descend(TRUE)
    /\ PushExtractor(type, id)
    /\ inStruct' = TRUE
    /\ childTypes' = RegisterChild(type, id)
    /\ UNCHANGED <<phase, linkVars, loopVars, resolvedKeys, idTagFound, inField,
                   errors, structs, processVars, references>>

\* A struct element of an unknown type, or of a type without members: the new
\* extractor stays current and inStruct keeps its value.
EnterBadStruct(type, id) ==
    /\ type \notin StructTypes
    /\ Descend(FALSE)
    /\ PushExtractor(type, id)
    /\ errors' = errors \cup {IF type = NullWrapper THEN "TYPE_MISSING_LIST"
                                                    ELSE "STRUCT_META_MISSING"}
    /\ UNCHANGED <<phase, linkVars, loopVars, childVars, flagVars, structs,
                   processVars, references>>

\* extractorList[extCount++] past the end of the array.
EnterStructOverflow ==
    /\ phase = "visiting" /\ ~skip
    /\ elements < MaxElements /\ depth < MaxDepth
    /\ extCount = MaxCharSize
    /\ Crash("undefined")

\* A field element before any struct element.
EnterFieldTooEarly ==
    /\ Descend(FALSE)
    /\ extractor = 0
    /\ errors' = errors \cup {"PROCESSING_OUT_OF_ORDER"}
    /\ UNCHANGED <<phase, linkVars, loopVars, extVars, childVars, flagVars,
                   structs, processVars, historyVars>>

\* A field whose value is a reference.
EnterReference(ref) ==
    /\ Descend(TRUE)
    /\ extractor # 0
    /\ inField' = TRUE /\ idTagFound' = TRUE
    /\ Add(extractor, ref.field, ref.pointer, ref.type, ref.ids)
    /\ references' = references \cup {<<extractor, ref>>}
    /\ UNCHANGED <<phase, loopVars, extVars, childVars, inStruct, errors, structs,
                   processVars, elementId>>

\* parentIds[childCount] past the end of the array.
EnterReferenceOverflow(ref) ==
    /\ phase = "visiting" /\ ~skip
    /\ elements < MaxElements /\ depth < MaxDepth
    /\ extractor # 0
    /\ RefOverflows(ref.ids)
    /\ Crash("undefined")

\* A field whose text cannot be read as a value of its type at all.
EnterUnreadableField(complaint) ==
    /\ Descend(FALSE)
    /\ extractor # 0 /\ complaint = NoValue
    /\ inField' = TRUE
    /\ errors' = errors \cup {"TYPE_MISSING_LIST"}
    /\ UNCHANGED <<phase, linkVars, loopVars, extVars, childVars, idTagFound,
                   inStruct, structs, processVars, historyVars>>

\* A field whose text is read as a value, possibly with complaints about an
\* enumerator; the value is written all the same.
EnterLiteral(field, complaint) ==
    /\ extractor # 0 /\ complaint # NoValue
    /\ complaint # {} => IsVisitable(extractor)
    /\ Descend(IsVisitable(extractor))
    /\ inField' = TRUE
    /\ container' = SetField(extractor, field, Literal)
    /\ errors' = errors \cup complaint \cup
            (IF IsVisitable(extractor) THEN {} ELSE {"STRUCT_META_MISSING"})
    /\ UNCHANGED <<phase, linkVars, loopVars, extractorType, extCount, extractor,
                   childVars, idTagFound, inStruct, structs, processVars,
                   historyVars>>

\* An extractor without members has no error handler to complain to.
EnterLiteralNoHandler(complaint) ==
    /\ phase = "visiting" /\ ~skip
    /\ elements < MaxElements /\ depth < MaxDepth
    /\ extractor # 0 /\ ~IsVisitable(extractor)
    /\ complaint \notin {{}, NoValue}
    /\ Crash("undefined")

-----------------------------------------------------------------------------
(***************************************************************************)
(* VisitExit.  It looks at the flags only, never at the element.           *)
(***************************************************************************)
Leaving == phase = "visiting" /\ depth > 0

\* The end of a field element, or of whatever closes while inField is set.
ExitField ==
    /\ Leaving /\ inField
    /\ Ascend(TRUE)
    /\ inField' = FALSE
    /\ UNCHANGED <<phase, linkVars, loopVars, extVars, childVars, idTagFound,
                   inStruct, errors, structs, processVars, historyVars>>

ExitOther ==
    /\ Leaving /\ ~inField /\ ~inStruct
    /\ Ascend(TRUE)
    /\ UNCHANGED <<phase, linkVars, loopVars, extVars, childVars, flagVars, errors,
                   structs, processVars, historyVars>>

\* The branch for the end of a struct: the first element that closes outside
\* a field after a struct element opened.
EndsStruct == Leaving /\ ~inField /\ inStruct /\ extractor # 0

ExitBadStruct ==
    /\ EndsStruct /\ GetType(extractor) = NullWrapper
    /\ Ascend(FALSE)
    /\ inStruct' = FALSE
    /\ errors' = errors \cup {"PROCESSING_OUT_OF_ORDER"}
    /\ UNCHANGED <<phase, linkVars, loopVars, extVars, childVars, idTagFound,
                   inField, structs, processVars, historyVars>>

\* Mutant of LooksForChildren: without the test of childTypes.size().
LooksWithoutChildren == idTagFound \/ ChildTypesSize <= StructsSize

\* idTagFound || (childTypes.size() && childTypes.size() <= structs.size())
LooksForChildren ==
    \/ idTagFound
    \/ ChildTypesSize # 0 /\ ChildTypesSize <= StructsSize

ExitStore ==
    /\ EndsStruct /\ GetType(extractor) # NullWrapper
    /\ ~LooksForChildren
    /\ Ascend(TRUE)
    /\ structs' = StoreNew(structs, extractor)
    /\ ClearParTags
    /\ inStruct' = FALSE
    /\ UNCHANGED <<phase, loopVars, extVars, childVars, idTagFound, inField,
                   errors, processVars, historyVars>>

ExitNoMatch ==
    /\ EndsStruct /\ GetType(extractor) # NullWrapper
    /\ LooksForChildren /\ CountMatches(LiveKeys) = 0
    /\ Ascend(TRUE)
    /\ inStruct' = FALSE
    /\ UNCHANGED <<phase, linkVars, loopVars, extVars, childVars, idTagFound,
                   inField, errors, structs, processVars, historyVars>>

\* Mutant of ExitMatch: idTagFound is not reset.
ExitMatchKeepsFlag ==
    /\ EndsStruct /\ GetType(extractor) # NullWrapper
    /\ LooksForChildren /\ CountMatches(LiveKeys) > 0
    /\ phase' = "linking"
    /\ Collect(ChildEntries)
    /\ todo' = PendingTypes
    /\ childLoc' = NoTag
    /\ linkResult' = FALSE
    /\ UNCHANGED <<linkVars, depth, skip, elements, extVars, childVars, flagVars,
                   errors, structs, processVars, historyVars>>

\* Children were found: getTypeForField starts its loop over childInfo.
ExitMatch ==
    /\ EndsStruct /\ GetType(extractor) # NullWrapper
    /\ LooksForChildren /\ CountMatches(LiveKeys) > 0
    /\ phase' = "linking"
    /\ idTagFound' = FALSE
    /\ Collect(ChildEntries)
    /\ todo' = PendingTypes
    /\ childLoc' = NoTag
    /\ linkResult' = FALSE
    /\ UNCHANGED <<linkVars, depth, skip, elements, extVars, childVars, inField,
                   inStruct, errors, structs, processVars, historyVars>>

-----------------------------------------------------------------------------
(***************************************************************************)
(* getTypeForField with the callback processParentChildFieldInteraction    *)
(***************************************************************************)
Linking(type) == phase = "linking" /\ type \in todo

\* No copied child has the type of this entry.  Entries never written may
\* look like empty strings and then match nothing either.
LinkNoMatch(type) ==
    /\ Linking(type)
    /\ PositionsOf(type) = {}
    /\ todo' = todo \ {type}
    /\ childLoc' = NoTag
    /\ UNCHANGED <<linkVars, matchVars, linkResult, walkVars, extVars, childVars,
                   flagVars, errors, structs, processVars, historyVars>>

\* What the callback stores before it looks at the field: the struct that is
\* closing, unless it is the parent itself.
StoreClosing(parent) ==
    IF parent = extractor THEN structs
                          ELSE Replace(structs, extractor, container[extractor])

\* The callback's two array reads stay within what was copied, and the cast
\* of the children to the field's type succeeds.
CanConvert(type) ==
    /\ PositionsOf(type) # {}
    /\ childInfo[type].pointer => ~CountsUnwritten
    /\ CastSucceeds(type, childInfo[type].pointer)

\* Mutant of RenameFirst: every copied child is renamed.
RenameAll(type) ==
    LET keys == {children[i].key : i \in DOMAIN children}
    IN  /\ childTypes' = [k \in Keys |-> IF k \in keys THEN 0 ELSE childTypes[k]]
        /\ resolvedKeys' = resolvedKeys \cup keys

\* Mutant of RenameFirst: addChildStructDeleteIndicator is left out.
RenameNone(type) == UNCHANGED childVars

\* addChildStructDeleteIndicator for the first copied child of the type.
RenameFirst(type) ==
    \E i \in DOMAIN children :
        /\ IsFirstOf(i, type)
        /\ childTypes[children[i].key] # 0
        /\ childTypes' = [childTypes EXCEPT ![children[i].key] = 0]
        /\ resolvedKeys' = resolvedKeys \cup {children[i].key}

\* The parent's field gets its value, closing struct and parent are stored,
\* and the first child of the type is renamed.
LinkAssign(type) ==
    /\ Linking(type) /\ CanConvert(type)
    /\ LET link   == childInfo[type]
           parent == link.parent
           filled == SetField(parent, link.field, FieldValue(link.pointer))
       IN  /\ IsVisitable(parent)
           /\ container' = filled
           /\ structs' = Replace(StoreClosing(parent), parent, filled[parent])
           /\ RenameFirst(type)
    /\ linkResult' = TRUE
    /\ childLoc' = type
    /\ todo' = todo \ {type}
    /\ UNCHANGED <<linkVars, matchVars, walkVars, extractorType, extCount, extractor,
                   flagVars, errors, processVars, historyVars>>

\* The field belongs to an extractor without members.
LinkRefused(type) ==
    /\ Linking(type) /\ CanConvert(type)
    /\ ~IsVisitable(childInfo[type].parent)
    /\ errors' = errors \cup {"STRUCT_META_MISSING"}
    /\ structs' = StoreClosing(childInfo[type].parent)
    /\ linkResult' = FALSE
    /\ childLoc' = type
    /\ todo' = todo \ {type}
    /\ UNCHANGED <<linkVars, matchVars, walkVars, extVars, childVars, flagVars,
                   processVars, historyVars>>

\* std::bad_any_cast leaves a noexcept function.
LinkTerminates(type) ==
    /\ Linking(type)
    /\ PositionsOf(type) # {}
    /\ ~CastSucceeds(type, childInfo[type].pointer)
    /\ Crash("terminated")

\* Entries of the object's array that were never written are read, or a key
\* no longer in childTypes is renamed.
LinkUndefined(type) ==
    /\ Linking(type)
    /\ \/ PositionsOf(type) = {} /\ CountsUnwritten
       \/ /\ PositionsOf(type) # {} /\ CountsUnwritten
          /\ childInfo[type].pointer /\ CastSucceeds(type, TRUE)
       \/ /\ CanConvert(type) /\ IsVisitable(childInfo[type].parent)
          /\ \E i \in DOMAIN children :
                IsFirstOf(i, type) /\ childTypes[children[i].key] = 0
    /\ Crash("undefined")

\* After the loop: only the entry visited last is erased, if it matched.  With
\* childInfo empty the loop has no turn and childLoc is still null: erase() is
\* then called, with a reference it does not look at, and finds no entry.
LinkDone ==
    /\ phase = "linking" /\ todo = {}
    /\ phase' = "visiting"
    /\ Ascend(linkResult)
    /\ IF childLoc = NoTag THEN UNCHANGED linkVars ELSE Erase(childLoc)
    /\ Release
    /\ childLoc' = NoTag /\ linkResult' = FALSE
    /\ inStruct' = FALSE
    /\ UNCHANGED <<todo, extVars, childVars, idTagFound, inField, errors, structs,
                   processVars, historyVars>>

-----------------------------------------------------------------------------
Enter ==
    \/ EnterOther
    \/ \E element \in StructElements : \/ EnterStruct(element[1], element[2])
                                      \/ EnterBadStruct(element[1], element[2])
                                      \/ EnterStructOverflow
    \/ EnterFieldTooEarly
    \/ \E ref \in ReferenceElements : \/ EnterReference(ref)
                                      \/ EnterReferenceOverflow(ref)
    \/ \E element \in LiteralElements : \/ EnterLiteral(element[1], element[2])
                                       \/ EnterUnreadableField(element[2])
                                       \/ EnterLiteralNoHandler(element[2])

Exit ==
    \/ ExitField \/ ExitOther \/ ExitBadStruct \/ ExitStore \/ ExitNoMatch
    \/ ExitMatch
    \/ \E type \in Types : \/ LinkNoMatch(type) \/ LinkAssign(type)
                           \/ LinkRefused(type) \/ LinkTerminates(type)
                           \/ LinkUndefined(type)
    \/ LinkDone

Next == StartProcess \/ LoadFails \/ FinishProcess \/ Enter \/ Exit

Spec == Init /\ [][Next]_vars
=============================================================================
