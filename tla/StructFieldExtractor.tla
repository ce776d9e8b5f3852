------------------------ MODULE StructFieldExtractor ------------------------
(***************************************************************************)
(* How the attributes of an element find the member of a struct: the       *)
(* attribute table of XmlProcessor (src/XmlProcessor.hpp, .cpp) and the    *)
(* table of member positions of StructFieldExtractor                       *)
(* (src/StructFieldExtractor.hpp, .inl, src/FieldExtractor.hpp, .inl).     *)
(*                                                                         *)
(* Neither table keeps names.  Both are arrays indexed by a hash of 32     *)
(* bits scaled to 0..255, in which the last index is one too many.         *)
(*                                                                         *)
(* A step is one call of VisitEnter.  Ids, what VisitExit does and structs *)
(* refused for other reasons than an unknown type are in XmlProcessor.     *)
(***************************************************************************)
EXTENDS Integers, Sequences, FiniteSetsExt, Functions

CONSTANTS
    Texts,          \* names and values of attributes, names of members
    Blank,          \* the empty text
    typeName, nameName, valueName,  \* "type", "name", "value"
    TableSize,      \* MAX_CHAR_SIZE and maxFields (255)
    AttrIndex,      \* getStringHash(text, scaleFactor) of XmlProcessor
    FieldIndex,     \* ... and of FieldExtractor, whose factor is a bit smaller
    MembersOf,      \* struct types: the members of each, in order
    NumberTypes, BoolTypes,  \* texts that name a type a field may have
    Readable,       \* texts that are a value of every such type
    References,     \* texts that contain "&id:"
    Zero,           \* the value of a text that is no number and no enumerator,
                    \* nor the beginning of one
    BlankValue,     \* what the table of enumerators has for the empty name
    Unset,          \* a member never written
    NoExtractor,    \* extractor is nullptr
    NullWrapper,    \* the type of an extractor whose type is unknown
    Elements,       \* the elements documents contain: <<tag, attributes>>
    MaxElements     \* bound: elements in one document

Indices   == 0..(TableSize - 1)
Attribute == Texts \X Texts

ASSUME TextsTyped ==
    /\ {Blank, typeName, nameName, valueName} \subseteq Texts
    /\ Readable \cup References \subseteq Texts \ {Blank}
    /\ Readable \cap References = {}
ASSUME TableNotEmpty   == TableSize \in Nat \ {0}
ASSUME IndexTyped      ==
    /\ {AttrIndex, FieldIndex} \subseteq [Texts -> 0..TableSize]
    /\ \A name \in {typeName, nameName, valueName} : AttrIndex[name] \in Indices
ASSUME MembersTyped    ==
    \A type \in DOMAIN MembersOf :
        /\ MembersOf[type] \in Seq(Texts) /\ Len(MembersOf[type]) < TableSize
        /\ \A i \in DOMAIN MembersOf[type] : FieldIndex[MembersOf[type][i]] \in Indices
ASSUME TypesAreTexts   == DOMAIN MembersOf \subseteq Texts \ {Blank}
ASSUME OthersAreOthers == /\ {Zero, BlankValue, Unset} \cap Texts = {}
                          /\ Unset \notin {Zero, BlankValue}
                          /\ {NoExtractor, NullWrapper} \cap DOMAIN MembersOf = {}
ASSUME ElementsTyped   ==
    Elements \subseteq {"struct", "field"} \X Seq(Attribute)
ASSUME ElementsBounded == MaxElements \in Nat

VARIABLES
    phase,          \* "visiting", or "undefined"
    valForAttrName, \* aa::string valForAttrName[MAX_CHAR_SIZE]
    extractor,      \* the type of the current extractor
    fieldPositions, \* ... its uint8_t fieldPositions[maxFields]
    container,      \* ... and its struct: the members by position
    links,          \* fields of it that wait: <<name, type, reference>>
    errors,         \* ErrorState
    elements,       \* elements seen so far (bound)
    given,          \* history: <<name, value>> by the attributes of each of
                    \* the struct's field elements, with all their readings
    latest,         \* history: the last value under each exact name
    mixed           \* history: some element had two attributes of one index

vars == <<phase, valForAttrName, extractor, fieldPositions, container, links,
          errors, elements, given, latest, mixed>>

Members  == IF extractor \in DOMAIN MembersOf THEN MembersOf[extractor] ELSE <<>>
Value    == Texts \cup {Zero, BlankValue, Unset}
Unplaced == TableSize     \* memset(-1): 255, which is no position

TypeOK ==
    /\ phase \in {"visiting", "undefined"}
    /\ valForAttrName \in [Indices -> Texts]
    /\ extractor \in DOMAIN MembersOf \cup {NoExtractor, NullWrapper}
    /\ fieldPositions \in [Indices -> DOMAIN Members \cup {Unplaced}]
    /\ container \in [DOMAIN Members -> Value]
    /\ links \subseteq Texts \X Texts \X References
    /\ errors \subseteq {"TYPE_MISSING_LIST", "PROCESSING_OUT_OF_ORDER",
                         "FIELD_HASH_INVALID", "NOT_ENUM_IN_MAP"}
    /\ elements \in Nat
    /\ given \subseteq Texts \X Value
    /\ latest \in [Texts -> Value]
    /\ mixed \in BOOLEAN

Cleared == [h \in Indices |-> Blank]

NoPositions == [h \in Indices |-> Unplaced]

Init ==
    /\ phase = "visiting"
    /\ valForAttrName = Cleared
    /\ extractor = NoExtractor
    /\ fieldPositions = NoPositions
    /\ container = <<>>
    /\ links = {} /\ errors = {} /\ elements = 0
    /\ given = {} /\ latest = [text \in Texts |-> Unset] /\ mixed = FALSE

-----------------------------------------------------------------------------
(***************************************************************************)
(* The attribute table.                                                    *)
(***************************************************************************)
\* populateAttrMap: each attribute overwrites what has its index.
Populate(attributes) ==
    [h \in Indices |->
        LET here == {i \in DOMAIN attributes : AttrIndex[attributes[i][1]] = h}
        IN  IF here = {} THEN valForAttrName[h] ELSE attributes[Max(here)][2]]

\* Some attribute is written past the table.
WritesPast(attributes) ==
    \E i \in DOMAIN attributes : AttrIndex[attributes[i][1]] = TableSize

\* Mutant of ClearAttrMap: nothing is cleared.
ClearNothing(table) == table
\* clearAttrMap, at the end of each VisitEnter with attributes.
ClearAttrMap(table) == Cleared

getAttribute(table, name) == table[AttrIndex[name]]
hasAttribute(table, name) == getAttribute(table, name) # Blank

-----------------------------------------------------------------------------
(***************************************************************************)
(* The table of member positions.                                          *)
(***************************************************************************)
\* Mutant of PositionsOf: positions of the type before are left.
PositionsLeft(type) ==
    [h \in Indices |->
        LET here == {i \in DOMAIN MembersOf[type] : FieldIndex[MembersOf[type][i]] = h}
        IN  IF here = {} THEN fieldPositions[h] ELSE Max(here)]
\* Mutant of PositionsOf: the first member of an index counts from 0.
PositionsFromZero(type) ==
    [h \in Indices |->
        LET here == {i \in DOMAIN MembersOf[type] : FieldIndex[MembersOf[type][i]] = h}
        IN  IF here = {} THEN Unplaced ELSE Max(here) - 1]
\* memset and iterateFieldPositions: of the members with one index the last
\* one stays.
PositionsOf(type) ==
    [h \in Indices |->
        LET here == {i \in DOMAIN MembersOf[type] : FieldIndex[MembersOf[type][i]] = h}
        IN  IF here = {} THEN Unplaced ELSE Max(here)]

\* fieldPositions[structHash] == -1, of which the left is no signed number.
isFieldInStruct(name) == fieldPositions[FieldIndex[name]] # -1

\* setFieldForStruct, setFieldValue: the member with the position at the index.
SetField(name, value) ==
    [i \in DOMAIN container |->
        IF i = fieldPositions[FieldIndex[name]] THEN value ELSE container[i]]

-----------------------------------------------------------------------------
(***************************************************************************)
(* VisitEnter.                                                             *)
(***************************************************************************)
\* The texts an element gives, by any attribute with the index of the name.
Carried(attributes, name) ==
    LET here == {i \in DOMAIN attributes : AttrIndex[attributes[i][1]] = AttrIndex[name]}
    IN  IF here = {} THEN {Blank} ELSE {attributes[i][2] : i \in here}

\* No two names in this element, asked for or given, have one index.
Unmixed(attributes) ==
    LET names == {attributes[i][1] : i \in DOMAIN attributes}
                    \cup {typeName, nameName, valueName}
    IN  IsInjective([name \in names |-> AttrIndex[name]])

\* Reading of a text: text that is no value gives numbers a zero, but an
\* empty text is looked up like an enumerator, and found (EnumBitOpSplitter).
Reading(text) ==
    IF text \in Readable \cup References THEN text
    ELSE IF text = Blank THEN BlankValue ELSE Zero

Visit(attributes) ==
    /\ phase = "visiting" /\ elements < MaxElements
    /\ elements' = elements + 1
    /\ attributes # <<>>

\* The rest of the call after the table was filled without harm.
Processed(table) ==
    /\ valForAttrName' = ClearAttrMap(table)
    /\ UNCHANGED phase

\* A struct element: a new extractor with positions of its own.
EnterStruct(attributes) ==
    LET table == Populate(attributes)
        type  == getAttribute(table, typeName)
    IN  /\ Visit(attributes) /\ ~WritesPast(attributes)
        /\ hasAttribute(table, typeName)
        /\ IF type \in DOMAIN MembersOf
           THEN /\ extractor' = type
                /\ fieldPositions' = PositionsOf(type)
                /\ container' = [i \in DOMAIN MembersOf[type] |-> Unset]
                /\ UNCHANGED errors
           ELSE /\ extractor' = NullWrapper
                /\ fieldPositions' = NoPositions
                /\ container' = <<>>
                /\ errors' = errors \cup {"TYPE_MISSING_LIST"}
        /\ links' = {}
        /\ given' = {} /\ latest' = [text \in Texts |-> Unset] /\ mixed' = FALSE
        /\ Processed(table)

\* Any element without a type.
EnterOther(attributes) ==
    /\ Visit(attributes) /\ ~WritesPast(attributes)
    /\ ~hasAttribute(Populate(attributes), typeName)
    /\ Processed(Populate(attributes))
    /\ UNCHANGED <<extractor, fieldPositions, container, links, errors, given,
                   latest, mixed>>

EnterFieldTooEarly(attributes) ==
    /\ Visit(attributes) /\ ~WritesPast(attributes)
    /\ hasAttribute(Populate(attributes), typeName)
    /\ extractor = NoExtractor
    /\ errors' = errors \cup {"PROCESSING_OUT_OF_ORDER"}
    /\ Processed(Populate(attributes))
    /\ UNCHANGED <<extractor, fieldPositions, container, links, given, latest, mixed>>

\* The text of the last attribute of exactly this name.
Exact(attributes, name) ==
    LET here == {i \in DOMAIN attributes : attributes[i][1] = name}
    IN  IF here = {} THEN Blank ELSE attributes[Max(here)][2]

\* What a field element says, as the properties understand it.
Remember(attributes) ==
    /\ given' = given \cup (Carried(attributes, nameName)
                      \X {Reading(text) : text \in Carried(attributes, valueName)})
    /\ mixed' = (mixed \/ ~Unmixed(attributes))

\* A field whose value is a reference: it waits, under its name.
EnterReference(attributes) ==
    LET table == Populate(attributes)
        name  == getAttribute(table, nameName)
        text  == getAttribute(table, valueName)
    IN  /\ Visit(attributes) /\ ~WritesPast(attributes)
        /\ hasAttribute(table, typeName)
        /\ extractor # NoExtractor
        /\ text \in References
        /\ links' = links \cup {<<name, getAttribute(table, typeName), text>>}
        /\ Remember(attributes)
        /\ Processed(table)
        /\ UNCHANGED <<extractor, fieldPositions, container, errors, latest>>

\* Text that cannot be read, or of a type that cannot.
EnterUnreadableField(attributes) ==
    LET table == Populate(attributes)
        type  == getAttribute(table, typeName)
        text  == getAttribute(table, valueName)
    IN  /\ Visit(attributes) /\ ~WritesPast(attributes)
        /\ hasAttribute(table, typeName)
        /\ extractor # NoExtractor
        /\ text \notin References
        /\ type \notin NumberTypes
        /\ type \in BoolTypes => text \notin Readable
        /\ errors' = errors \cup {"TYPE_MISSING_LIST"}
        /\ Processed(table)
        /\ UNCHANGED <<extractor, fieldPositions, container, links, given, latest,
                       mixed>>

\* Text that is a value, or a number that gets one all the same, with a
\* complaint unless it is empty.
ReadsValue(type, text) ==
    /\ text \notin References
    /\ type \in NumberTypes \/ (type \in BoolTypes /\ text \in Readable)

EnterLiteral(attributes) ==
    LET table == Populate(attributes)
        name  == getAttribute(table, nameName)
        text  == getAttribute(table, valueName)
    IN  /\ Visit(attributes) /\ ~WritesPast(attributes)
        /\ hasAttribute(table, typeName)
        /\ extractor # NoExtractor
        /\ ReadsValue(getAttribute(table, typeName), text)
        /\ FieldIndex[name] \in Indices
        /\ container' = IF isFieldInStruct(name)
                        THEN SetField(name, Reading(text)) ELSE container
        /\ errors' = errors
                \cup (IF text \in Readable \cup {Blank} THEN {} ELSE {"NOT_ENUM_IN_MAP"})
                \cup (IF isFieldInStruct(name) THEN {} ELSE {"FIELD_HASH_INVALID"})
        /\ Remember(attributes)
        /\ latest' = [latest EXCEPT ![Exact(attributes, nameName)] =
                                       Reading(Exact(attributes, valueName))]
        /\ Processed(table)
        /\ UNCHANGED <<extractor, fieldPositions, links>>

Stop ==
    /\ phase' = "undefined"
    /\ UNCHANGED <<valForAttrName, extractor, fieldPositions, container, links,
                   errors, given, latest, mixed>>

\* An attribute is written past the attribute table.
AttributePast(attributes) ==
    /\ Visit(attributes) /\ WritesPast(attributes)
    /\ Stop

\* The name of a field is looked up past the table of positions.
NamePast(attributes) ==
    LET table == Populate(attributes)
    IN  /\ Visit(attributes) /\ ~WritesPast(attributes)
        /\ hasAttribute(table, typeName)
        /\ extractor # NoExtractor
        /\ ReadsValue(getAttribute(table, typeName), getAttribute(table, valueName))
        /\ FieldIndex[getAttribute(table, nameName)] \notin Indices
        /\ Stop

\* The byte before an empty text, which is no part of it, is compared with the
\* operators; if it is one, a null pointer is read instead of the text.
EmptyPast(attributes) ==
    LET table == Populate(attributes)
    IN  /\ Visit(attributes) /\ ~WritesPast(attributes)
        /\ hasAttribute(table, typeName)
        /\ extractor # NoExtractor
        /\ getAttribute(table, typeName) \in NumberTypes
        /\ ~hasAttribute(table, valueName)
        /\ Stop

EnterField(attributes) ==
    \/ EnterFieldTooEarly(attributes) \/ EnterReference(attributes)
    \/ EnterUnreadableField(attributes) \/ EnterLiteral(attributes)
    \/ NamePast(attributes) \/ EmptyPast(attributes)

Next == \E element \in Elements :
    \/ element[1] = "struct" /\ EnterStruct(element[2])
    \/ element[1] = "field" /\ EnterField(element[2])
    \/ EnterOther(element[2])
    \/ AttributePast(element[2])

Spec == Init /\ [][Next]_vars

-----------------------------------------------------------------------------
\* No value comes from elsewhere: whatever a member holds, and whatever
\* waits for it, some field element of this struct gave by its own attributes,
\* under a name with the index of that member.
NothingLeaks ==
    /\ \A i \in DOMAIN container : container[i] # Unset =>
            \E g \in given : /\ FieldIndex[g[1]] = FieldIndex[Members[i]]
                             /\ g[2] = container[i]
    /\ \A link \in links : <<link[1], link[3]>> \in given

\* The names that have the index of this one, in the struct or the document.
Alone(i) ==
    LET index(text) == FieldIndex[text]
    IN  /\ \A j \in DOMAIN Members : j # i => index(Members[j]) # index(Members[i])
        /\ \A text \in Texts : latest[text] # Unset /\ index(text) = index(Members[i])
                                => text = Members[i]

\* Tables without names are good enough as long as nothing shares an index: a
\* member has the value given last under its very name, and none if there was
\* none.  Members that share one lose values without any error.
LastGivenHolds ==
    ~mixed => \A i \in DOMAIN container :
                Alone(i) => container[i] = latest[Members[i]]
=============================================================================
