------------------------ MODULE XmlProcessorProperties ------------------------
(***************************************************************************)
(* What XmlProcessor owes its caller, and what its code takes for granted  *)
(* between two calls of the visitor.                                       *)
(***************************************************************************)
EXTENDS XmlProcessor

Crashed == phase \in {"terminated", "undefined"}

Registered(e) == e \in 1..extCount

IsArray(value) == value \notin {Unset, Literal}

\* What the references of the document so far asked for.
NamedKeys ==
    UNION {{<<r[2].ids[i], r[2].type>> : i \in DOMAIN r[2].ids} : r \in references}

-----------------------------------------------------------------------------
\* idTagFound only stays set while some field still waits for its child.
\* process() looks at childInfo alone when it decides whether to report
\* FIELD_LEFT_UNASSIGNED, and LooksForChildren looks at idTagFound.
PendingFlag == idTagFound => PendingTypes # {}

\* The raw pointers kept in childTypes, childInfo, children and structs lead
\* to registered extractors, those of childTypes and children to one whose
\* type is the type in the key: the key is all that the cast of a child to
\* the field's type relies on.
PointersRegistered ==
    /\ \A k \in Keys : childTypes[k] # 0 =>
            Registered(childTypes[k]) /\ extractorType[childTypes[k]] = k[2]
    /\ \A t \in PendingTypes : Registered(childInfo[t].parent)
    /\ \A i \in DOMAIN children :
            Registered(children[i].ext)
            /\ extractorType[children[i].ext] = children[i].key[2]
    /\ \A t \in StoreTypes : structs[t] # NoStruct => Registered(structs[t].ext)

\* VulkanMap::get casts the entry named T to T unchecked, so it must hold a
\* struct of that very type.  The entry is a copy made when some element ended,
\* and the struct may be written again after that; yet the copy has every value
\* the struct got from a reference (text written later is not copied).
StoredIsCurrent ==
    \A t \in StoreTypes : structs[t] # NoStruct =>
        /\ GetType(structs[t].ext) = t
        /\ \A f \in Fields : container[structs[t].ext][f]
                               \in {Literal, structs[t].content[f]}

\* Strings of earlier references are never erased from parentIds and the next
\* reference is appended to them.  Whatever is left there, a child that was
\* never asked for is not collected.
OnlyNamedChildren == \A i \in DOMAIN children : children[i].key \in NamedKeys

\* An array, or struct, assigned to a field is built of structs of one type,
\* and is not empty, although every collected child goes into it.
ArraysOfOneType ==
    \A e \in Slots, f \in Fields : IsArray(container[e][f]) =>
        /\ container[e][f] # <<>>
        /\ \E t \in StructTypes : \A i \in DOMAIN container[e][f] :
              extractorType[container[e][f][i]] = t

\* addChildStructDeleteIndicator writes through the node handle it extracts,
\* so the key must be in childTypes each time, although earlier turns of the
\* same loop rename keys.
RenamedKeyExists ==
    phase = "linking" => \A t \in todo : \A i \in DOMAIN children :
        IsFirstOf(i, t) => childTypes[children[i].key] = children[i].ext

\* Undefined behaviour needs one of four causes: more structs than the array
\* holds, more referenced ids than the array holds, a field after a struct
\* element of a type without members, or two references to the same child.
UndefinedHasCause ==
    phase = "undefined" =>
        \/ extCount = MaxCharSize
        \/ \E ref \in ReferenceElements : RefOverflows(ref.ids)
        \/ extractor # 0 /\ ~IsVisitable(extractor)
        \/ \E j, k \in MatchIds : j # k /\ parentIds[j] = parentIds[k]

\* The program is only terminated when children of two types were collected
\* for the same closing element.
TerminatedHasCause ==
    phase = "terminated" =>
        \E i, j \in DOMAIN children : children[i].key[2] # children[j].key[2]

-----------------------------------------------------------------------------
\* The value a link promises its field, if the field can be written at all.
Settled(link, content, type) ==
    \/ link.field \notin Fields
    \/ extractorType[link.parent] \notin StructTypes
    \/ LET value == content[link.parent][link.field]
       IN  /\ IsArray(value) /\ value # <<>>
           /\ \A i \in DOMAIN value : extractorType[value[i]] = type

\* A field stops waiting for its child only after it was given structs of the
\* type it waits for: erase() goes by the last turn of the loop.
ErasedOnlyWhenSettled ==
    [][\A t \in Types :
          childInfo[t] # NoLink /\ childInfo'[t] = NoLink =>
              Settled(childInfo[t], container', t)]_vars

\* A struct once stored for a type is replaced only while references are being
\* resolved, and no type ever loses its struct: emplace and operator[] mix.
OnlyLinksReplace ==
    [][\A t \in StoreTypes :
          structs[t] # NoStruct /\ structs'[t] # structs[t] =>
              structs'[t] # NoStruct /\ phase = "linking"]_vars

\* No element of the document has an id, and no field refers to one.
IsFlat == references = {} /\ \A e \in Slots : elementId[e] = NoId

IsStored(store, e) == \E t \in StoreTypes : store[t] # NoStruct /\ store[t].ext = e

\* As long as a document uses neither ids nor references, the map gets the
\* innermost structs and no other.  When an element ends the struct that opened
\* last, its type is in the map, with all its fields unless the type was there.
\* But a struct in which another struct element opens, be it refused, is not in
\* the map then, and as every entry that is made is that of the struct opened
\* last, it never will be: of <struct A><struct B/></struct> A is dropped, for
\* the end of B resets inStruct.
InnermostIsStored ==
    [][IsFlat =>
        /\ inStruct /\ ~inStruct' /\ GetType(extractor) # NullWrapper =>
              /\ structs'[GetType(extractor)] # NoStruct
              /\ structs[GetType(extractor)] = NoStruct =>
                    structs'[GetType(extractor)].content = container[extractor]
        /\ inStruct /\ extractor' # extractor => ~IsStored(structs', extractor)
        /\ \A t \in StoreTypes : structs'[t] # structs[t] =>
              inStruct /\ ~inStruct' /\ structs'[t].ext = extractor]_vars

-----------------------------------------------------------------------------
\* The map of stored structs behaves as StructStore says.
Store == INSTANCE StructStore WITH
            MaxCount <- MaxCharSize,
            count    <- extCount,
            typeOf   <- [e \in Slots |-> GetType(e)],
            store    <- [t \in StoreTypes |->
                            IF structs[t] = NoStruct THEN 0 ELSE structs[t].ext]

\* Keeping the first struct of a type, and adopting a parent together with the
\* struct that completes it, are all that happens to the map.
StoreRefined == Store!StoreSpec

-----------------------------------------------------------------------------
\* A field that waits for a child is eventually served, or process() reports
\* that a field was left unassigned (unless the program stops).
WaitingFieldsReported ==
    \A t \in Types : childInfo[t] # NoLink ~>
        \/ childInfo[t] = NoLink
        \/ "FIELD_LEFT_UNASSIGNED" \in errors
        \/ Crashed
=============================================================================
