------------------------ MODULE ParentChildFieldLink ------------------------
(***************************************************************************)
(* The table of references a document has made and not yet seen resolved:  *)
(* class ParentChildFieldLink (src/ParentChildFieldLink.hpp, .cpp).    *)
(*                                                                         *)
(* A field whose value is "&id:1,&id:2" and whose type is "const T *" asks *)
(* for the structs of type T with the ids 1 and 2.  The class keeps        *)
(*   - parentIds, an array of strings "id:T", one per id asked for.  A     *)
(*     string is modelled as the sequence of the <<id, type>> pieces that  *)
(*     were appended to it;                                                *)
(*   - childCount, how many of these strings are in use;                   *)
(*   - childInfo, from the type asked for to the field that asked.         *)
(***************************************************************************)
EXTENDS Naturals, Sequences, FiniteSets

CONSTANTS
    Ids,            \* identifiers an id attribute or a reference may carry
    StructTypes,    \* types in the type list that have visitable members
    OpaqueTypes,    \* types in the type list that have none (scalars, enums)
    NullWrapper,    \* stands for every type the type list does not know
    Fields,         \* member names the struct types have
    UnknownField,   \* a name no member has, or whose member is not of the type
                    \* the element gives
    MaxCharSize,    \* MAX_CHAR_SIZE, the length of every fixed array (255)
    NoLink          \* no entry in childInfo

ASSUME IdsFinite      == IsFiniteSet(Ids)
ASSUME TypesFinite    == IsFiniteSet(StructTypes)
ASSUME TypesDisjoint  == /\ StructTypes \cap OpaqueTypes = {}
                         /\ NullWrapper \notin StructTypes \cup OpaqueTypes
ASSUME UnknownIsNone  == UnknownField \notin Fields
ASSUME MaxCharSizePos == MaxCharSize \in Nat \ {0}

Types      == StructTypes \cup OpaqueTypes \cup {NullWrapper}
FieldNames == Fields \cup {UnknownField}

Slots == 1..MaxCharSize           \* positions of extractorList, from 1
Keys  == Ids \X StructTypes       \* what a child is found by: "id:Type"

\* The tuple (parent extractor, field name, real field type) of childInfo;
\* of the real field type only whether it is a pointer matters.
Link == [parent : Slots, field : FieldNames, pointer : BOOLEAN]

ASSUME NoLinkIsNone == NoLink \notin Link

VARIABLES
    childCount,     \* uint8_t childCount
    parentIds,      \* string parentIds[MAX_CHAR_SIZE]
    childInfo       \* unordered_map childInfo

linkVars == <<childCount, parentIds, childInfo>>

LinkTypeOK ==
    /\ childCount \in 0..MaxCharSize
    /\ parentIds \in [0..MaxCharSize - 1 -> Seq(Ids \X Types)]
    /\ childInfo \in [Types -> Link \cup {NoLink}]

LinkInit ==
    /\ childCount = 0
    /\ parentIds = [k \in 0..MaxCharSize - 1 |-> <<>>]
    /\ childInfo = [t \in Types |-> NoLink]

\* The keys of childInfo; getChildFieldLinkSize() is their number.
PendingTypes == {t \in Types : childInfo[t] # NoLink}

\* getMatchIds(): the strings in use, those a child key is compared with.
MatchIds == 0..childCount - 1

-----------------------------------------------------------------------------
\* parseChildRef: the k-th id of the reference is appended, with the type, to
\* the k-th string after the ones in use.  The strings are never emptied.
ParseChildRef(type, ids) ==
    /\ parentIds' = [k \in DOMAIN parentIds |->
            IF k \in childCount..childCount + Len(ids) - 1
            THEN Append(parentIds[k], <<ids[k - childCount + 1], type>>)
            ELSE parentIds[k]]
    /\ childCount' = childCount + Len(ids)

\* No index check guards the array: a list that does not fit is written
\* past its end.
RefOverflows(ids) == childCount + Len(ids) > MaxCharSize

\* add(): the strings are recorded in any case, the field only if no other
\* field waits for the same type (try_emplace).
Add(parent, field, pointer, type, ids) ==
    /\ ~RefOverflows(ids)
    /\ ParseChildRef(type, ids)
    /\ childInfo' = [childInfo EXCEPT ![type] =
            IF @ = NoLink
            THEN [parent |-> parent, field |-> field, pointer |-> pointer]
            ELSE @]

\* clearParTags(): forgets how many strings are in use, not the strings.
ClearParTags ==
    /\ childCount' = 0
    /\ UNCHANGED <<parentIds, childInfo>>

\* Mutant of Erase: childInfo.clear() instead of childInfo.erase(parentIter).
EraseAll(type) ==
    /\ childInfo' = [t \in Types |-> NoLink]
    /\ UNCHANGED <<childCount, parentIds>>

\* erase(matchTag), for the tag of a child of this type.
Erase(type) ==
    /\ childInfo' = [childInfo EXCEPT ![type] = NoLink]
    /\ UNCHANGED <<childCount, parentIds>>
=============================================================================
