------------------------------- MODULE MCClaims -------------------------------
(***************************************************************************)
(* The documents of the runs on well-formed documents: structs with and    *)
(* without id, references to ids that the document defines or not.         *)
(***************************************************************************)
EXTENDS WellFormedDocuments

CONSTANTS id1, id2,                 \* two ids
          Pass, Attachment,         \* two struct types
          f, g, h, n                \* four members

Ref(field, pointer, type, ids) ==
    [field |-> field, pointer |-> pointer, type |-> type, ids |-> ids]

ClaimStructs    == {<<Pass, NoId>>, <<Attachment, id1>>, <<Attachment, id2>>,
                    <<Pass, id1>>}
\* In either set each member has one type: f and h are arrays, g an array or a
\* single struct, n a number.
ClaimReferences == {Ref(f, TRUE, Attachment, <<id1>>),
                    Ref(f, TRUE, Attachment, <<id1, id2>>),
                    Ref(g, TRUE, Attachment, <<id2>>),
                    Ref(h, TRUE, Pass, <<id1>>)}
SingleReferences == {Ref(f, TRUE, Attachment, <<id1>>),
                     Ref(g, FALSE, Attachment, <<id1>>),
                     Ref(h, TRUE, Pass, <<id1>>)}
Literals        == {<<n, {}>>}
NoLiterals      == {}
=============================================================================
