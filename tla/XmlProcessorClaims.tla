-------------------------- MODULE XmlProcessorClaims --------------------------
(***************************************************************************)
(* What the tests and comments of the repository say of the processor, as  *)
(* properties of every document.  The code keeps none of them in general;  *)
(* the runs of MCClaims show a document that breaks each.                  *)
(***************************************************************************)
EXTENDS XmlProcessorProperties

References(e) == {r \in references : r[1] = e}

\* unittests/StructMapPopulatedTest.cpp:10-12 finds every plain struct of the
\* document in the map.  A struct element without id and without references
\* leaves its type in the map when it ends; the code drops it while references
\* of other structs wait, and after they were resolved.
PlainStructIsStored ==
    [][(/\ inStruct /\ ~inStruct' /\ GetType(extractor) # NullWrapper
        /\ elementId[extractor] = NoId /\ References(extractor) = {})
       => structs'[GetType(extractor)] # NoStruct]_vars

\* unittests/StructIdFieldPopulatedTest.cpp:36-37 finds the children in the
\* order in which the reference lists their ids; the code puts them in the
\* order the hash table of children yields them.
ChildrenInReferenceOrder ==
    \A r \in references :
        LET value == container[r[1]][r[2].field]
        IN  IsArray(value) /\ Len(value) = Len(r[2].ids) =>
                \A i \in DOMAIN value : elementId[value[i]] = r[2].ids[i]

\* src/XmlProcessor.cpp:209, "id reference-save for later": when process() has
\* succeeded, without any error, each referencing field was given its value;
\* the code keeps one field per type and drops the others.
EveryReferenceSaved ==
    phase = "idle" /\ processResult /\ errors = {} =>
        \A r \in references : IsArray(container[r[1]][r[2].field])

\* unittests/StructDiffIdsPopulatedTest.cpp:7 expects process() to succeed when
\* each reference finds its child.  FIELD_LEFT_UNASSIGNED means that some
\* field was; the code only forgets the field its loop happens to visit last.
UnassignedMeansUnassigned ==
    "FIELD_LEFT_UNASSIGNED" \in errors =>
        \E r \in references : ~IsArray(container[r[1]][r[2].field])
=============================================================================
