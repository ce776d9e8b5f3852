------------------------- MODULE WellFormedDocuments -------------------------
(***************************************************************************)
(* Well-formed documents, as in the unit tests: structs that contain only  *)
(* fields, no struct with the id and type of another, no member twice in   *)
(* one struct, nothing the processor complains about.                      *)
(***************************************************************************)
EXTENDS XmlProcessorClaims

\* An element that opens inside a struct is a field of a member not yet set,
\* which does not refer to the struct itself; one that opens elsewhere is not a
\* field, and no second struct has its key.
WellFormedStep ==
    depth' > depth =>
        /\ ~inField
        /\ inField' <=> inStruct
        /\ errors' = errors
        /\ \A r \in references :
              container'[r[1]][r[2].field] = container[r[1]][r[2].field]
        /\ childCount' # childCount => references' # references
        /\ \A r \in references' \ references :
              /\ r[2].field \in Fields
              /\ container[r[1]][r[2].field] = Unset
              /\ \A i \in DOMAIN r[2].ids :
                    <<r[2].ids[i], r[2].type>> # <<elementId[r[1]], extractorType[r[1]]>>
              /\ \A q \in References(r[1]) : q[2].field # r[2].field
        /\ extCount' > extCount /\ elementId'[extCount'] # NoId =>
              \A e \in 1..extCount :
                  \/ elementId[e] # elementId'[extCount']
                  \/ extractorType[e] # extractorType'[extCount']

WellFormedSpec == Init /\ [][Next /\ WellFormedStep]_vars

-----------------------------------------------------------------------------
\* One document with one reference, to one id.
SingleReferenceStep ==
    /\ WellFormedStep
    /\ calls' <= 1
    /\ \A q, r \in references' : q = r /\ Len(r[2].ids) = 1

SingleReferenceSpec == Init /\ [][Next /\ SingleReferenceStep]_vars

IsChildOf(c, r) ==
    Registered(c) /\ elementId[c] = r[2].ids[1] /\ extractorType[c] = r[2].type

\* In such a document the reference works wherever the child is, before or
\* after the parent, among any other structs: the field holds that child, the
\* parent is in the map with all its fields, and nothing is reported.  If there
\* is no such child, process() reports it.
SingleReferenceResolved ==
    phase = "idle" => \A r \in references :
        IF \E c \in Slots : IsChildOf(c, r)
        THEN /\ \E c \in Slots :
                    IsChildOf(c, r) /\ container[r[1]][r[2].field] = <<c>>
             /\ structs[extractorType[r[1]]] =
                    [ext |-> r[1], content |-> container[r[1]]]
             /\ processResult /\ errors = {}
        ELSE ~processResult /\ errors = {"FIELD_LEFT_UNASSIGNED"}

\* In such a document no element is skipped: VisitExit answers FALSE when
\* getTypeForField has nothing to resolve, and tinyxml2 then leaves out the
\* siblings that follow, without any error.
NothingSkipped == ~skip
==============================================================================
