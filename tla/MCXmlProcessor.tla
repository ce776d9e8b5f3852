---------------------------- MODULE MCXmlProcessor ----------------------------
(***************************************************************************)
(* Small documents of every shape for the whole processor.                 *)
(***************************************************************************)
EXTENDS XmlProcessorProperties

CONSTANTS id1, id2,             \* two ids
          Pass, Attachment,     \* two struct types
          Scalar,               \* a listed type without members
          f, g, h               \* three members

\* A parent without id, two children of one type, one child of the other, and
\* an element that stays current although it has no members.
LinkedStructs == {<<Pass, NoId>>, <<Attachment, id1>>, <<Attachment, id2>>,
                  <<Pass, id1>>, <<Scalar, NoId>>}

Ref(field, pointer, type, ids) ==
    [field |-> field, pointer |-> pointer, type |-> type, ids |-> ids]

\* An array of two structs of one type and a single struct of the other; two
\* fields that wait for one type are f of two structs, or f given twice.
LinkedReferences == {Ref(f, TRUE, Attachment, <<id1, id2>>),
                     Ref(h, FALSE, Pass, <<id1>>)}

NoLiterals == {}

\* One id and one reference, among elements that fail in every way.
FailingStructs    == {<<Pass, NoId>>, <<Attachment, id1>>, <<Scalar, NoId>>,
                      <<NullWrapper, id1>>}
FailingReferences == {Ref(f, TRUE, Attachment, <<id1>>)}
FailingLiterals   == {<<g, {}>>, <<g, NoValue>>, <<g, {"NOT_ENUM_IN_MAP"}>>,
                      <<UnknownField, {}>>}
=============================================================================
