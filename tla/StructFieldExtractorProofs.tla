--------------------- MODULE StructFieldExtractorProofs ---------------------
(***************************************************************************)
(* Whatever the hash, the struct types and the document: no value leaks    *)
(* from one element into another, and a name that shares its index with no *)
(* other finds its member.                                                 *)
(***************************************************************************)
EXTENDS StructFieldExtractor, WellFoundedInduction, TLAPS

\* Between two calls the attribute table is blank, and the positions are those
\* of the current type.
TablesInv ==
    /\ valForAttrName = Cleared
    /\ fieldPositions = IF extractor \in DOMAIN MembersOf
                        THEN PositionsOf(extractor) ELSE NoPositions

\* The inductive invariant.
IInv == TypeOK /\ TablesInv /\ NothingLeaks /\ LastGivenHolds

-----------------------------------------------------------------------------
\* A set of positions that is not empty has a last one.
LEMMA MaxIsLast ==
    ASSUME NEW n \in Nat, NEW S \in SUBSET (1..n), S # {}
    PROVE  Max(S) \in S /\ \A j \in S : j <= Max(S)
<1> DEFINE T == {k \in Nat : n - k \in S}
<1>1. T # {}
  <2>1. PICK y \in S : TRUE
    OBVIOUS
  <2>2. n - y \in Nat /\ n - (n - y) = y
    OBVIOUS
  <2> QED
    BY <2>1, <2>2
<1>2. PICK t \in T : \A k \in T : ~ (<<k, t>> \in OpToRel(<, Nat))
  <2>1. T \in SUBSET Nat
    OBVIOUS
  <2> QED
    BY <1>1, <2>1, NatLessThanWellFounded, WFMin
<1>3. \A k \in T : ~ (k < t)
    BY <1>2, Zenon DEF OpToRel
<1>4. n - t \in S /\ \A j \in S : n - t >= j
  <2>1. ASSUME NEW j \in S PROVE n - t >= j
    <3>1. n - j \in Nat /\ n - (n - j) = j
      OBVIOUS
    <3>2. n - j \in T
      BY <3>1
    <3> QED
      BY <1>3, <3>1, <3>2
  <2> QED
    BY <2>1
<1>5. Max(S) \in S /\ \A j \in S : Max(S) >= j
    BY <1>4, Zenon DEF Max
<1> QED
    BY <1>5

\* What is read of the attribute table, if it was blank before the element.
LEMMA AttributesRead ==
    ASSUME valForAttrName = Cleared, NEW attributes \in Seq(Attribute),
           NEW name \in {typeName, nameName, valueName}
    PROVE  LET text == getAttribute(Populate(attributes), name)
           IN  /\ text \in Texts /\ text \in Carried(attributes, name)
               /\ Carried(attributes, name) \subseteq Texts
               /\ Unmixed(attributes) => text = Exact(attributes, name)
<1> DEFINE here == {i \in DOMAIN attributes :
                        AttrIndex[attributes[i][1]] = AttrIndex[name]}
           exact == {i \in DOMAIN attributes : attributes[i][1] = name}
           text == getAttribute(Populate(attributes), name)
<1>1. /\ AttrIndex[name] \in Indices /\ name \in Texts /\ Blank \in Texts
      /\ Len(attributes) \in Nat /\ DOMAIN attributes = 1..Len(attributes)
      /\ \A i \in DOMAIN attributes : attributes[i] \in Texts \X Texts
    BY IndexTyped, TextsTyped DEF Attribute
<1>2. text = IF here = {} THEN Blank ELSE attributes[Max(here)][2]
    BY <1>1 DEF getAttribute, Populate, Cleared
<1>3. here # {} => Max(here) \in here
  <2>1. here \in SUBSET (1..Len(attributes))
    BY <1>1
  <2> QED
    BY <1>1, <2>1, MaxIsLast
<1>4. text \in Carried(attributes, name) /\ Carried(attributes, name) \subseteq Texts
    BY <1>1, <1>2, <1>3 DEF Carried
<1>5. ASSUME Unmixed(attributes) PROVE here = exact
  <2> DEFINE names == {attributes[i][1] : i \in DOMAIN attributes}
                        \cup {typeName, nameName, valueName}
  <2>1. \A a, b \in names : AttrIndex[a] = AttrIndex[b] => a = b
    BY <1>5 DEF Unmixed, IsInjective
  <2> QED
    BY <1>1, <2>1
<1>6. Unmixed(attributes) => text = Exact(attributes, name)
    BY <1>2, <1>5 DEF Exact
<1> QED
    BY <1>4, <1>6

\* An attribute looked for by its exact name is some text.
LEMMA ExactIsText ==
    ASSUME NEW attributes \in Seq(Attribute), NEW name \in Texts
    PROVE  Exact(attributes, name) \in Texts
<1> DEFINE exact == {i \in DOMAIN attributes : attributes[i][1] = name}
<1>1. /\ Len(attributes) \in Nat /\ DOMAIN attributes = 1..Len(attributes)
      /\ \A i \in DOMAIN attributes : attributes[i] \in Texts \X Texts
    BY DEF Attribute
<1>2. exact # {} => Max(exact) \in exact
  <2>1. exact \in SUBSET (1..Len(attributes))
    BY <1>1
  <2> QED
    BY <1>1, <2>1, MaxIsLast
<1> QED
    BY <1>1, <1>2, TextsTyped DEF Exact

\* What the table of positions leads to: a member with the index it is asked
\* for, and the only one there is if there is only one.
LEMMA PositionsLead ==
    ASSUME NEW type \in DOMAIN MembersOf, NEW h \in Indices
    PROVE  LET members == MembersOf[type]
               p       == PositionsOf(type)[h]
           IN  /\ p \in DOMAIN members \cup {Unplaced}
               /\ p \in DOMAIN members => FieldIndex[members[p]] = h
               /\ \A i \in DOMAIN members :
                     /\ FieldIndex[members[i]] = h
                     /\ \A j \in DOMAIN members :
                           j # i => FieldIndex[members[j]] # h
                     => p = i
<1> DEFINE members == MembersOf[type]
           here == {i \in DOMAIN members : FieldIndex[members[i]] = h}
           p == PositionsOf(type)[h]
<1>1. /\ Len(members) \in Nat /\ DOMAIN members = 1..Len(members)
      /\ TableSize \in Nat /\ Len(members) < TableSize
    BY MembersTyped, TableNotEmpty
<1>2. p = IF here = {} THEN Unplaced ELSE Max(here)
    BY DEF PositionsOf
<1>3. here # {} => Max(here) \in here
  <2>1. here \in SUBSET (1..Len(members))
    BY <1>1
  <2> QED
    BY <1>1, <2>1, MaxIsLast
<1>4. Unplaced \notin DOMAIN members
    BY <1>1 DEF Unplaced
<1> QED
    BY <1>2, <1>3, <1>4

\* Readings are values, and never Unset.
LEMMA ReadingIsValue ==
    ASSUME NEW text \in Texts
    PROVE  Reading(text) \in Value /\ Reading(text) # Unset
  BY TextsTyped, OthersAreOthers DEF Reading, Value

-----------------------------------------------------------------------------
\* A new object has the invariant.
LEMMA InitInv == Init => IInv
<1> SUFFICES ASSUME Init PROVE IInv
    OBVIOUS
<1>1. extractor \notin DOMAIN MembersOf /\ Members = <<>> /\ DOMAIN container = {}
    BY OthersAreOthers DEF Init, Members
<1>2. TypeOK
  <2>1. fieldPositions \in [Indices -> DOMAIN Members \cup {Unplaced}]
    BY DEF Init, NoPositions
  <2>2. valForAttrName \in [Indices -> Texts]
    BY TextsTyped DEF Init, Cleared
  <2>3. container \in [DOMAIN Members -> Value]
    BY <1>1 DEF Init
  <2> QED
    BY <2>1, <2>2, <2>3 DEF Init, TypeOK, Value
<1>3. TablesInv
    BY <1>1 DEF Init, TablesInv
<1>4. NothingLeaks /\ LastGivenHolds
    BY <1>1 DEF Init, NothingLeaks, LastGivenHolds
<1> QED
    BY <1>2, <1>3, <1>4 DEF IInv

\* Steps that write no member and note nothing down keep the invariant.
LEMMA NothingWritten ==
    ASSUME IInv, phase' \in {"visiting", "undefined"}, elements' \in Nat,
           valForAttrName' \in {valForAttrName, Cleared},
           errors' \subseteq errors \cup {"TYPE_MISSING_LIST",
                                        "PROCESSING_OUT_OF_ORDER"},
           UNCHANGED <<extractor, fieldPositions, container, links, given, latest,
                       mixed>>
    PROVE  IInv'
<1>1. valForAttrName' = Cleared
    BY DEF IInv, TablesInv
<1>2. TypeOK'
    BY <1>1 DEF IInv, TypeOK, TablesInv, Members
<1>3. TablesInv'
    BY <1>1 DEF IInv, TablesInv
<1>4. NothingLeaks'
    BY DEF IInv, NothingLeaks, Members
<1>5. LastGivenHolds'
    BY DEF IInv, LastGivenHolds, Alone, Members
<1> QED
    BY <1>2, <1>3, <1>4, <1>5 DEF IInv

\* Every new extractor starts with a blank struct.
LEMMA StructInv ==
    ASSUME IInv, NEW attributes \in Seq(Attribute), EnterStruct(attributes)
    PROVE  IInv'
<1> DEFINE type == getAttribute(Populate(attributes), typeName)
<1>1. /\ phase' = phase /\ valForAttrName' = Cleared /\ links' = {}
      /\ elements' = elements + 1
      /\ given' = {} /\ latest' = [text \in Texts |-> Unset] /\ mixed' = FALSE
    BY DEF EnterStruct, Processed, ClearAttrMap, Visit
<1>2. TypeOK
    BY DEF IInv
<1>3. Cleared \in [Indices -> Texts]
    BY TextsTyped DEF Cleared
<1>4. CASE type \in DOMAIN MembersOf
  <2>1. /\ extractor' = type /\ fieldPositions' = PositionsOf(type)
        /\ container' = [i \in DOMAIN MembersOf[type] |-> Unset]
        /\ errors' = errors
    BY <1>4 DEF EnterStruct
  <2>2. Members' = MembersOf[type]
    BY <1>4, <2>1 DEF Members
  <2>3. fieldPositions' \in [Indices -> DOMAIN Members' \cup {Unplaced}]
    <3>1. \A h \in Indices :
             PositionsOf(type)[h] \in DOMAIN MembersOf[type] \cup {Unplaced}
      BY <1>4, PositionsLead
    <3> QED
      BY <2>1, <2>2, <3>1 DEF PositionsOf
  <2>4. TypeOK'
    <3>1. container' \in [DOMAIN Members' -> Value]
      BY <2>1, <2>2 DEF Value
    <3>2. latest' \in [Texts -> Value] /\ given' \subseteq Texts \X Value
      BY <1>1 DEF Value
    <3>3. links' \subseteq Texts \X Texts \X References /\ elements' \in Nat
      BY <1>1, <1>2 DEF TypeOK
    <3> QED
      BY <1>1, <1>2, <1>3, <1>4, <2>1, <2>3, <3>1, <3>2, <3>3 DEF TypeOK
  <2>5. TablesInv'
    BY <1>1, <1>4, <2>1 DEF TablesInv, PositionsOf
  <2>6. NothingLeaks'
    BY <1>1, <2>1 DEF NothingLeaks
  <2>7. LastGivenHolds'
    <3>1. \A i \in DOMAIN MembersOf[type] : MembersOf[type][i] \in Texts
      BY <1>4, MembersTyped
    <3> QED
      BY <1>1, <2>1, <2>2, <3>1 DEF LastGivenHolds
  <2> QED
    BY <2>4, <2>5, <2>6, <2>7 DEF IInv
<1>5. CASE type \notin DOMAIN MembersOf
  <2>1. /\ extractor' = NullWrapper /\ fieldPositions' = NoPositions
        /\ container' = <<>> /\ errors' = errors \cup {"TYPE_MISSING_LIST"}
    BY <1>5 DEF EnterStruct
  <2>2. extractor' \notin DOMAIN MembersOf /\ Members' = <<>> /\ DOMAIN container' = {}
    BY <2>1, OthersAreOthers DEF Members
  <2>3. /\ fieldPositions' \in [Indices -> DOMAIN Members' \cup {Unplaced}]
        /\ container' \in [DOMAIN Members' -> Value]
    BY <2>1, <2>2 DEF NoPositions
  <2>4. TypeOK'
    <3>1. latest' \in [Texts -> Value] /\ given' \subseteq Texts \X Value
      BY <1>1 DEF Value
    <3>2. links' \subseteq Texts \X Texts \X References /\ elements' \in Nat
      BY <1>1, <1>2 DEF TypeOK
    <3>3. errors' \subseteq {"TYPE_MISSING_LIST", "PROCESSING_OUT_OF_ORDER",
                            "FIELD_HASH_INVALID", "NOT_ENUM_IN_MAP"}
      BY <1>2, <2>1 DEF TypeOK
    <3> QED
      BY <1>1, <1>2, <1>3, <2>1, <2>3, <3>1, <3>2, <3>3 DEF TypeOK
  <2>5. TablesInv'
    BY <1>1, <2>1, <2>2 DEF TablesInv, NoPositions
  <2>6. NothingLeaks' /\ LastGivenHolds'
    BY <1>1, <2>2 DEF NothingLeaks, LastGivenHolds
  <2> QED
    BY <2>4, <2>5, <2>6 DEF IInv
<1> QED
    BY <1>4, <1>5

\* A reference waits under the name and with the text of its own element.
LEMMA ReferenceInv ==
    ASSUME IInv, NEW attributes \in Seq(Attribute), EnterReference(attributes)
    PROVE  IInv'
<1> DEFINE name == getAttribute(Populate(attributes), nameName)
           type == getAttribute(Populate(attributes), typeName)
           text == getAttribute(Populate(attributes), valueName)
<1>1. /\ phase' = phase /\ valForAttrName' = Cleared /\ elements' = elements + 1
      /\ UNCHANGED <<extractor, fieldPositions, container, errors, latest>>
      /\ text \in References /\ links' = links \cup {<<name, type, text>>}
      /\ Remember(attributes)
    BY DEF EnterReference, Processed, ClearAttrMap, Visit
<1>2. TypeOK /\ TablesInv /\ NothingLeaks /\ LastGivenHolds
    BY DEF IInv
<1>3. /\ name \in Texts /\ type \in Texts
      /\ name \in Carried(attributes, nameName)
      /\ text \in Carried(attributes, valueName)
      /\ Carried(attributes, nameName) \subseteq Texts
      /\ Carried(attributes, valueName) \subseteq Texts
    BY <1>2, AttributesRead DEF TablesInv
<1>4. /\ given \subseteq given' /\ <<name, Reading(text)>> \in given'
      /\ given' \subseteq Texts \X Value
    BY <1>1, <1>2, <1>3, ReadingIsValue DEF Remember, TypeOK
<1>5. mixed' \in BOOLEAN /\ (mixed => mixed')
    BY <1>1, <1>2 DEF Remember, TypeOK
<1>6. TypeOK'
  <2>1. Cleared \in [Indices -> Texts]
    BY TextsTyped DEF Cleared
  <2>2. /\ fieldPositions' \in [Indices -> DOMAIN Members' \cup {Unplaced}]
        /\ container' \in [DOMAIN Members' -> Value]
    BY <1>1, <1>2 DEF TypeOK, Members
  <2>3. links' \subseteq Texts \X Texts \X References
    BY <1>1, <1>2, <1>3 DEF TypeOK
  <2>4. elements' \in Nat
    BY <1>1, <1>2 DEF TypeOK
  <2> QED
    BY <1>1, <1>2, <1>4, <1>5, <2>1, <2>2, <2>3, <2>4 DEF TypeOK
<1>7. TablesInv'
    BY <1>1, <1>2 DEF TablesInv, PositionsOf
<1>8. NothingLeaks'
  <2>1. Reading(text) = text
    BY <1>1 DEF Reading
  <2>2. ASSUME NEW link \in links' PROVE <<link[1], link[3]>> \in given'
    <3>1. CASE link \in links
      BY <1>2, <1>4, <3>1 DEF NothingLeaks
    <3>2. CASE link = <<name, type, text>>
      <4> HIDE DEF name, type, text
      <4>1. link[1] = name /\ link[3] = text
        BY <3>2
      <4> QED
        BY <1>4, <2>1, <4>1
    <3> QED
      BY <1>1, <3>1, <3>2
  <2> QED
    BY <1>1, <1>2, <1>4, <2>2 DEF NothingLeaks, Members
<1>9. LastGivenHolds'
    BY <1>1, <1>2, <1>5 DEF LastGivenHolds, Alone, Members
<1> QED
    BY <1>6, <1>7, <1>8, <1>9 DEF IInv

\* A value is written to the member its position leads to, and a member whose
\* index nothing shares gets it exactly if it was named.
LEMMA LiteralInv ==
    ASSUME IInv, NEW attributes \in Seq(Attribute), EnterLiteral(attributes)
    PROVE  IInv'
<1> DEFINE name == getAttribute(Populate(attributes), nameName)
           text == getAttribute(Populate(attributes), valueName)
           h == FieldIndex[name]
           value == Reading(text)
<1>1. /\ phase' = phase /\ valForAttrName' = Cleared /\ elements' = elements + 1
      /\ UNCHANGED <<extractor, fieldPositions, links>> /\ h \in Indices
      /\ Remember(attributes)
      /\ latest' = [latest EXCEPT ![Exact(attributes, nameName)] =
                                       Reading(Exact(attributes, valueName))]
    BY DEF EnterLiteral, Processed, ClearAttrMap, Visit
<1>2. TypeOK /\ TablesInv /\ NothingLeaks /\ LastGivenHolds
    BY DEF IInv
<1>3. /\ name \in Carried(attributes, nameName) /\ name \in Texts
      /\ text \in Carried(attributes, valueName) /\ text \in Texts
      /\ Carried(attributes, nameName) \subseteq Texts
      /\ Carried(attributes, valueName) \subseteq Texts
      /\ Unmixed(attributes) => /\ name = Exact(attributes, nameName)
                               /\ text = Exact(attributes, valueName)
    BY <1>2, AttributesRead DEF TablesInv
<1>4. value \in Value /\ value # Unset
    BY <1>3, ReadingIsValue
<1>5. /\ given \subseteq given' /\ <<name, value>> \in given'
      /\ given' \subseteq Texts \X Value
    BY <1>1, <1>2, <1>3, ReadingIsValue DEF Remember, TypeOK
<1>6. /\ mixed' \in BOOLEAN
      /\ ~mixed' => ~mixed /\ Unmixed(attributes)
    BY <1>1, <1>2 DEF Remember, TypeOK
<1>7. container' = SetField(name, value)
  <2>1. fieldPositions[h] \in DOMAIN Members \cup {Unplaced}
    BY <1>1, <1>2 DEF TypeOK
  <2>2. fieldPositions[h] \in Nat
    <3>1. Members \in Seq(Texts)
      BY MembersTyped DEF Members
    <3> QED
      BY <2>1, <3>1, TableNotEmpty DEF Unplaced
  <2>3. isFieldInStruct(name)
    BY <2>2 DEF isFieldInStruct
  <2> QED
    BY <2>3 DEF EnterLiteral
<1> DEFINE p == fieldPositions[h]
<1>8. /\ Members' = Members /\ DOMAIN container = DOMAIN Members
      /\ container' \in [DOMAIN Members -> Value]
      /\ \A i \in DOMAIN Members :
            container'[i] = IF i = p THEN value ELSE container[i]
  <2> HIDE DEF value
  <2> QED
    BY <1>1, <1>2, <1>4, <1>7 DEF SetField, TypeOK, Members
<1>9. \A i \in DOMAIN Members :
         /\ i = p => FieldIndex[Members[i]] = h
         /\ /\ FieldIndex[Members[i]] = h
            /\ \A j \in DOMAIN Members : j # i => FieldIndex[Members[j]] # h
            => p = i
  <2>1. CASE extractor \in DOMAIN MembersOf
    <3>1. Members = MembersOf[extractor] /\ fieldPositions = PositionsOf(extractor)
      BY <1>2, <2>1 DEF Members, TablesInv
    <3> QED
      BY <1>1, <2>1, <3>1, PositionsLead
  <2>2. CASE extractor \notin DOMAIN MembersOf
    BY <2>2 DEF Members
  <2> QED
    BY <2>1, <2>2
<1> HIDE DEF value, name, text, h, p
<1>10. TypeOK'
  <2>1. latest' \in [Texts -> Value]
    <3>1. Exact(attributes, valueName) \in Texts
      BY ExactIsText, TextsTyped
    <3>2. Reading(Exact(attributes, valueName)) \in Value
      BY <3>1, ReadingIsValue
    <3> QED
      BY <1>1, <1>2, <3>2 DEF TypeOK
  <2>2. errors' \subseteq {"TYPE_MISSING_LIST", "PROCESSING_OUT_OF_ORDER",
                          "FIELD_HASH_INVALID", "NOT_ENUM_IN_MAP"}
    BY <1>2 DEF TypeOK, EnterLiteral
  <2>3. Cleared \in [Indices -> Texts]
    BY TextsTyped DEF Cleared
  <2>4. elements' \in Nat
    BY <1>1, <1>2 DEF TypeOK
  <2> QED
    BY <1>1, <1>2, <1>5, <1>6, <1>8, <2>1, <2>2, <2>3, <2>4 DEF TypeOK
<1>11. TablesInv'
    BY <1>1, <1>2 DEF TablesInv, PositionsOf
<1>12. NothingLeaks'
  <2>1. ASSUME NEW i \in DOMAIN Members, container'[i] # Unset
        PROVE  \E g \in given' : /\ FieldIndex[g[1]] = FieldIndex[Members[i]]
                                /\ g[2] = container'[i]
    <3>1. CASE i = p
      <4>1. /\ <<name, value>>[1] = name /\ <<name, value>>[2] = value
            /\ FieldIndex[name] = FieldIndex[Members[i]] /\ container'[i] = value
        BY <1>8, <1>9, <3>1 DEF h
      <4> QED
        BY <1>5, <4>1
    <3>2. CASE i # p
      BY <1>2, <1>5, <1>8, <2>1, <3>2 DEF NothingLeaks
    <3> QED
      BY <3>1, <3>2
  <2>2. \A link \in links' : <<link[1], link[3]>> \in given'
    BY <1>1, <1>2, <1>5 DEF NothingLeaks
  <2> QED
    BY <1>8, <2>1, <2>2 DEF NothingLeaks
<1>13. LastGivenHolds'
  <2> SUFFICES ASSUME ~mixed', NEW i \in DOMAIN Members, Alone(i)'
               PROVE  container'[i] = latest'[Members[i]]
    BY <1>8 DEF LastGivenHolds
  <2>1. /\ ~mixed /\ latest' = [latest EXCEPT ![name] = value]
        /\ latest \in [Texts -> Value]
    BY <1>1, <1>2, <1>3, <1>6 DEF value, TypeOK
  <2>2. Members[i] \in Texts
    BY MembersTyped DEF Members
  <2>3. /\ \A j \in DOMAIN Members :
              j # i => FieldIndex[Members[j]] # FieldIndex[Members[i]]
        /\ \A other \in Texts :
              latest'[other] # Unset /\ FieldIndex[other] = FieldIndex[Members[i]]
              => other = Members[i]
    BY <1>8 DEF Alone
  <2>4. CASE name = Members[i]
    <3>1. i = p
      BY <1>9, <2>3, <2>4 DEF h
    <3> QED
      BY <1>8, <2>1, <2>2, <2>4, <3>1
  <2>5. CASE name # Members[i]
    <3>1. latest'[name] = value
      BY <1>3, <2>1
    <3>2. FieldIndex[name] # FieldIndex[Members[i]]
      BY <1>3, <1>4, <2>3, <2>5, <3>1
    <3>3. i # p
      BY <1>9, <3>2 DEF h
    <3>4. latest'[Members[i]] = latest[Members[i]]
      BY <2>1, <2>2, <2>5
    <3>5. Alone(i)
      <4>1. ASSUME NEW other \in Texts, latest[other] # Unset,
                   FieldIndex[other] = FieldIndex[Members[i]]
            PROVE  other = Members[i]
        BY <2>1, <2>3, <3>2, <4>1
      <4> QED
        BY <2>3, <4>1 DEF Alone
    <3> QED
      BY <1>2, <1>8, <2>1, <3>3, <3>4, <3>5 DEF LastGivenHolds
  <2> QED
    BY <2>4, <2>5
<1> QED
    BY <1>10, <1>11, <1>12, <1>13 DEF IInv

-----------------------------------------------------------------------------
\* Every document keeps the invariant.
THEOREM FieldInvHolds == Spec => []IInv
<1>1. IInv /\ [Next]_vars => IInv'
  <2> SUFFICES ASSUME IInv, [Next]_vars PROVE IInv'
    OBVIOUS
  <2>1. elements \in Nat /\ phase \in {"visiting", "undefined"}
    BY DEF IInv, TypeOK
  <2>2. ASSUME NEW element \in Elements,
               \/ element[1] = "struct" /\ EnterStruct(element[2])
               \/ element[1] = "field" /\ EnterField(element[2])
               \/ EnterOther(element[2])
               \/ AttributePast(element[2])
        PROVE  IInv'
    <3> DEFINE attributes == element[2]
    <3>1. attributes \in Seq(Attribute)
      BY ElementsTyped
    <3> HIDE DEF attributes
    <3>2. CASE EnterStruct(attributes)
      BY <3>1, <3>2, StructInv
    <3>3. CASE EnterFieldTooEarly(attributes)
      BY <2>1, <3>3, NothingWritten DEF EnterFieldTooEarly, Visit, Processed, ClearAttrMap
    <3>4. CASE EnterReference(attributes)
      BY <3>1, <3>4, ReferenceInv
    <3>5. CASE EnterUnreadableField(attributes)
      BY <2>1, <3>5, NothingWritten
         DEF EnterUnreadableField, Visit, Processed, ClearAttrMap
    <3>6. CASE EnterLiteral(attributes)
      BY <3>1, <3>6, LiteralInv
    <3>7. CASE NamePast(attributes)
      BY <2>1, <3>7, NothingWritten DEF NamePast, Visit, Stop
    <3>8. CASE EnterOther(attributes)
      BY <2>1, <3>8, NothingWritten DEF EnterOther, Visit, Processed, ClearAttrMap
    <3>9. CASE AttributePast(attributes)
      BY <2>1, <3>9, NothingWritten DEF AttributePast, Visit, Stop
    <3>10. CASE EmptyPast(attributes)
      BY <2>1, <3>10, NothingWritten DEF EmptyPast, Visit, Stop
    <3> QED
      BY <2>2, <3>2, <3>3, <3>4, <3>5, <3>6, <3>7, <3>8, <3>9, <3>10
         DEF EnterField, attributes
  <2>3. CASE UNCHANGED vars
    BY <2>1, <2>3, NothingWritten DEF vars
  <2> QED
    BY <2>2, <2>3 DEF Next
<1> QED
    BY <1>1, InitInv, PTL DEF Spec

\* Every variable keeps its type: positions are those of existing members.
THEOREM FieldTypeCorrect == Spec => []TypeOK
<1>1. IInv => TypeOK
    BY DEF IInv
<1> QED
    BY <1>1, FieldInvHolds, PTL

\* VisitEnter writes, and lets wait, only what the attributes of the element
\* at hand say, under a name with the index of the member.
THEOREM NothingLeaksHolds == Spec => []NothingLeaks
<1>1. IInv => NothingLeaks
    BY DEF IInv
<1> QED
    BY <1>1, FieldInvHolds, PTL

\* setFieldValue finds the member named, if nothing shares its index.
THEOREM LastGivenHoldsAlways == Spec => []LastGivenHolds
<1>1. IInv => LastGivenHolds
    BY DEF IInv
<1> QED
    BY <1>1, FieldInvHolds, PTL
=============================================================================
