-------------------- MODULE ChildTypeParentFieldMatching --------------------
(***************************************************************************)
(* The children a closing struct element makes available to the pending    *)
(* references: class ChildTypeParentFieldMatching                          *)
(* (src/ChildTypeParentFieldMatching.hpp, .cpp, .inl).                 *)
(*                                                                         *)
(* The object lives during one VisitExit.  It holds a copy of every entry  *)
(* of childTypes whose key equals a reference string in use, in the order  *)
(* the hash table yields them, and a count.  The count is incremented once *)
(* per equal string, so it is larger than the number of copies when two    *)
(* references name the same child.                                         *)
(***************************************************************************)
EXTENDS ParentChildFieldLink, SequencesExt

VARIABLES
    children,       \* KeyValType* children: the copied entries
    matchCount      \* uint8_t count

matchVars == <<children, matchCount>>

Child == [key : Keys, ext : Slots]

MatchTypeOK ==
    /\ children \in Seq(Child)
    /\ matchCount \in 0..MaxCharSize

MatchInit ==
    /\ children = <<>>
    /\ matchCount = 0

\* Positions of the strings equal to some key of the given set.
EqualTags(keys) == {k \in MatchIds : \E key \in keys : parentIds[k] = <<key>>}

\* Mutant of MatchedKeys: only the "id:" part of the strings is compared.
MatchedKeysById(keys) ==
    {key \in keys : \E k \in MatchIds : \E tag \in Keys :
                        parentIds[k] = <<tag>> /\ tag[1] = key[1]}

\* Keys of the given set equal to some string.
MatchedKeys(keys) == {key \in keys : \E k \in MatchIds : parentIds[k] = <<key>>}

\* Mutant of CountMatches: one more than were equal.
CountOneMore(keys) == IF EqualTags(keys) = {} THEN 0 ELSE Cardinality(EqualTags(keys)) + 1

\* getMatchCount() for a childTypes with these keys.
CountMatches(keys) == Cardinality(EqualTags(keys))

\* The constructor, for the entries of childTypes: any order of the copies.
Collect(entries) ==
    LET keys   == {c.key : c \in entries}
        chosen == {c \in entries : c.key \in MatchedKeys(keys)}
    IN  /\ matchCount' = CountMatches(keys)
        /\ children' \in SetToSeqs(chosen)

Release ==
    /\ children' = <<>>
    /\ matchCount' = 0

\* The copies whose key carries this type.
PositionsOf(type) == {i \in DOMAIN children : children[i].key[2] = type}

\* The end of the object's array lies past the copied entries.
CountsUnwritten == matchCount > Len(children)

\* findMatchChildLocForField(): the first copy with the field's type.
IsFirstOf(i, type) ==
    /\ i \in PositionsOf(type)
    /\ \A j \in PositionsOf(type) : i <= j

\* Mutant of CastSucceeds: a static_cast, which never throws.
CastUnchecked(type, pointer) == TRUE

\* Mutant of CastSucceeds: the type is looked up with its pointer, so that no
\* child is of that type.
CastToPointer(type, pointer) == ~pointer /\ children[1].key[2] = type

\* convertChildStructToVal: std::any_cast of every container the value is
\* made from; the cast throws, in a noexcept function, on another type.
CastSucceeds(type, pointer) ==
    IF pointer THEN PositionsOf(type) = DOMAIN children
               ELSE children[1].key[2] = type

\* The array, or the single struct, assigned to the parent's field.
FieldValue(pointer) ==
    IF pointer THEN [i \in DOMAIN children |-> children[i].ext]
               ELSE <<children[1].ext>>
=============================================================================
